--------------------------- MODULE Statement_proof ---------------------------
(***************************************************************************)
(* Documents, statements and matching, for every document, every text and  *)
(* every size of the window.                                               *)
(*                                                                         *)
(* The first part is about the fast path of skip statements: it scans      *)
(* bytes, and on ordinary texts it consumes those of the characters that   *)
(* the regular expression of its kind matches.  What a scan finds is told  *)
(* apart by where it stops (FirstIs, RunEndIs), and it cuts no character   *)
(* (RunEndBound); the same positions bound what the parts of an expression *)
(* match (StarIs, ThenIs); one end of line is the end of all of them       *)
(* (EolsFrom).                                                             *)
(*                                                                         *)
(* The second part says what the operators of the model return: the parser *)
(* documents, the compiler expressions, the evaluators matches, one lemma  *)
(* for each operator.  A recursive function is what its unfolding says at  *)
(* every argument (Unfolds), so its values are reached from the first one  *)
(* on (Ascent).                                                            *)
(*                                                                         *)
(* The third part is the invariant IInv, one lemma for each action, and    *)
(* what follows from it: a clean document runs, a skip by the fast path    *)
(* consumes what its expression matches, and the two engines and the two   *)
(* ways to evaluate a list do the same, each where the property says.      *)
(*                                                                         *)
(* The fourth part reads what was written.  The tokens of a construct sit  *)
(* somewhere in a text (Sits), and the rule for it ends behind them with   *)
(* the construct: for a piece, a line, a block, a statement, a grammar and *)
(* a document, each from the ones before.                                  *)
(***************************************************************************)
EXTENDS StatementTerms, TLAPS, SequenceTheorems, FiniteSetTheorems, WellFoundedInduction

-----------------------------------------------------------------------------
(* Numbers                                                                 *)

\* A set of numbers that is not empty has a smallest one.
LEMMA Smallest ==
    ASSUME NEW T \in SUBSET Nat, T # {}
    PROVE  \E x \in T : \A y \in T : x <= y
<1>1. PICK x \in T : \A y \in T : ~ (<<y, x>> \in OpToRel(<, Nat))
  BY NatLessThanWellFounded, WFMin, Zenon
<1>2. \A y \in T : ~ (y < x)
  BY <1>1 DEF OpToRel
<1> QED BY <1>2

\* One that is bounded has a largest one.
LEMMA Largest ==
    ASSUME NEW n \in Nat, NEW T \in SUBSET (0 .. n), T # {}
    PROVE  \E x \in T : \A y \in T : y <= x
<1> DEFINE U == {b \in 0 .. n : \A y \in T : y <= b}
<1>1. n \in U /\ U \in SUBSET Nat
  OBVIOUS
<1>2. PICK b \in U : \A c \in U : b <= c
  <2> HIDE DEF U
  <2> QED BY <1>1, Smallest
<1>3. b \in T
  <2>1. SUFFICES ASSUME b \notin T PROVE FALSE
    OBVIOUS
  <2>2. \A y \in T : y \in 0 .. n /\ y <= b /\ y # b
    BY <1>2, <2>1
  <2>3. b \in 0 .. n /\ b # 0
    <3>1. PICK y \in T : TRUE
      OBVIOUS
    <3> QED BY <3>1, <1>2, <2>2
  <2>5. b - 1 \in U
    BY <2>2, <2>3
  <2> QED BY <2>5, <1>2, <2>3
<1> QED BY <1>2, <1>3

-----------------------------------------------------------------------------
(* What the scans find                                                     *)

\* First finds the first character of C, or that there is none.
LEMMA FirstIs ==
    ASSUME NEW s \in Inputs, NEW i \in Nat \ {0}, NEW C
    PROVE  \/ First(s, i, C) = 0 /\ \A j \in i .. Len(s) : s[j] \notin C
           \/ /\ First(s, i, C) \in i .. Len(s) /\ s[First(s, i, C)] \in C
              /\ \A j \in i .. First(s, i, C) - 1 : s[j] \notin C
<1> DEFINE H == {j \in i .. Len(s) : s[j] \in C}
<1>0. Len(s) \in Nat /\ H \in SUBSET Nat
  BY DEF Inputs
<1>1. CASE H = {}
  BY <1>1 DEF First
<1>2. CASE H # {}
  <2>1. \E j \in H : \A k \in H : j <= k
    <3> HIDE DEF H
    <3> QED BY <1>0, <1>2, Smallest
  <2>3. First(s, i, C) \in H /\ \A k \in H : First(s, i, C) <= k
    BY <2>1, <1>2 DEF First
  <2> QED BY <2>3, <1>0
<1> QED BY <1>1, <1>2

\* RunEnd is where the stretch of C ends.
LEMMA RunEndIs ==
    ASSUME NEW s, Len(s) \in Nat, NEW i \in 0 .. Len(s), NEW C
    PROVE  /\ RunEnd(s, i, C) \in i .. Len(s)
           /\ \A j \in i + 1 .. RunEnd(s, i, C) : s[j] \in C
           /\ RunEnd(s, i, C) = Len(s) \/ s[RunEnd(s, i, C) + 1] \notin C
<1> DEFINE Q(e) == (\A j \in i + 1 .. e : s[j] \in C) /\ (e = Len(s) \/ s[e + 1] \notin C)
           T == {e \in i .. Len(s) : e = Len(s) \/ s[e + 1] \notin C}
<1>0. Len(s) \in Nat /\ i \in Nat
  OBVIOUS
<1>1. T \in SUBSET Nat /\ Len(s) \in T
  BY <1>0
<1>2. PICK e \in T : \A f \in T : e <= f
  <2> HIDE DEF T
  <2> QED BY <1>1, Smallest
<1>3. \A j \in i + 1 .. e : s[j] \in C
  <2> TAKE j \in i + 1 .. e
  <2>1. j - 1 \in i .. Len(s) /\ ~ (e <= j - 1) /\ (j - 1) + 1 = j
    BY <1>0, <1>2
  <2>2. j - 1 \notin T
    <3> HIDE DEF T
    <3> QED BY <2>1, <1>2
  <2> QED BY <2>1, <2>2
<1>4. \E f \in i .. Len(s) : Q(f)
  BY <1>2, <1>3
<1> QED BY <1>4 DEF RunEnd

-----------------------------------------------------------------------------
(* What the parts of an expression match                                   *)

\* The longest of a set of ends, told by its greatest member.
LEMMA LongestIs ==
    ASSUME NEW E \in SUBSET Nat, NEW e \in E, \A f \in E : f <= e
    PROVE  Longest(E) = e
<1>1. \A d \in E : (\A f \in E : f <= d) => d = e
  OBVIOUS
<1> QED BY <1>1 DEF Longest

\* What RunEndIs says holds of one position only.
LEMMA RunEndWhere ==
    ASSUME NEW s \in Inputs, NEW i \in 0 .. Len(s), NEW C, NEW e \in i .. Len(s),
           \A j \in i + 1 .. e : s[j] \in C,
           e = Len(s) \/ s[e + 1] \notin C
    PROVE  RunEnd(s, i, C) = e
<1> DEFINE r == RunEnd(s, i, C)
<1>0. Len(s) \in Nat /\ i \in Nat
  BY DEF Inputs
<1>1. r \in i .. Len(s) /\ (\A j \in i + 1 .. r : s[j] \in C) /\ (r = Len(s) \/ s[r + 1] \notin C)
  BY RunEndIs
<1> HIDE DEF r
<1>2. ASSUME r < e PROVE FALSE
  BY <1>0, <1>1, <1>2
<1>3. ASSUME e < r PROVE FALSE
  BY <1>0, <1>1, <1>3
<1>4. r = e
  BY <1>0, <1>1, <1>2, <1>3
<1> QED BY <1>4 DEF r

\* Where a text starts and ends no character is cut, nor next to a byte of ASCII.
LEMMA BoundsAre ==
    ASSUME NEW s \in Inputs
    PROVE  /\ 0 \in Bounds(s) /\ Len(s) \in Bounds(s)
           /\ \A i \in 1 .. Len(s) : s[i] \notin {"u", "c"} => i \in Bounds(s)
<1>1. Len(s) \in Nat
  BY DEF Inputs
<1>2. \A i \in 1 .. Len(s) : s[i] = "c" => i > 1 /\ s[i - 1] \in {"u", "c"}
  BY DEF Inputs, Utf8
<1>3. ASSUME NEW i \in 0 .. Len(s), i # 0 => s[i] \notin {"u", "c"} PROVE i \in Bounds(s)
  <2>1. ASSUME i # Len(s), s[i + 1] = "c" PROVE FALSE
    <3>1. i + 1 \in 1 .. Len(s) /\ (i + 1) - 1 = i
      BY <1>1, <2>1
    <3>2. i + 1 > 1 /\ s[(i + 1) - 1] \in {"u", "c"}
      BY <1>2, <2>1, <3>1
    <3> QED BY <1>1, <1>3, <3>1, <3>2
  <2> QED BY <2>1 DEF Bounds
<1>4. 0 \in 0 .. Len(s) /\ Len(s) \in 0 .. Len(s) /\ \A i \in 1 .. Len(s) : i \in 0 .. Len(s)
  BY <1>1
<1>5. Len(s) \in Bounds(s)
  BY <1>4 DEF Bounds
<1> QED BY <1>3, <1>4, <1>5

\* A class of ASCII, and what is not in one.
LEMMA AsciiIs ==
    ASSUME NEW s \in Inputs, NEW C, Ascii(C)
    PROVE  WholeIn(s, C) /\ WholeIn(s, NotIn(C))
<1>1. Len(s) \in Nat /\ DOMAIN s = 1 .. Len(s) /\ \A i \in 1 .. Len(s) : s[i] \in Char
  BY DEF Inputs
<1>2. ASSUME NEW i \in 2 .. Len(s), s[i] = "c"
      PROVE  s[i - 1] \in {"u", "c"} /\ s[i - 1] \in Char /\ s[i] \in Char
  BY <1>1, <1>2 DEF Inputs, Utf8
<1>3. ASSUME NEW i \in 2 .. Len(s), s[i] = "c"
      PROVE  /\ s[i - 1] \in C <=> s[i] \in C
             /\ s[i - 1] \in NotIn(C) <=> s[i] \in NotIn(C)
  <2>1. s[i - 1] \notin C /\ s[i] \notin C
    BY <1>2, <1>3 DEF Ascii
  <2> QED BY <1>2, <1>3, <2>1 DEF NotIn
<1> QED BY <1>3 DEF WholeIn

\* A scan over whole characters cuts none.
LEMMA RunEndBound ==
    ASSUME NEW s \in Inputs, NEW i \in Bounds(s), NEW C, WholeIn(s, C)
    PROVE  RunEnd(s, i, C) \in Bounds(s)
<1> DEFINE r == RunEnd(s, i, C)
<1>0. Len(s) \in Nat /\ i \in 0 .. Len(s) /\ (i = Len(s) \/ s[i + 1] # "c")
  BY DEF Inputs, Bounds
<1>1. r \in i .. Len(s) /\ (\A j \in i + 1 .. r : s[j] \in C) /\ (r = Len(s) \/ s[r + 1] \notin C)
  BY <1>0, RunEndIs
<1> HIDE DEF r
<1>2. ASSUME r < Len(s), s[r + 1] = "c" PROVE FALSE
  <2>1. r # i
    BY <1>0, <1>2
  <2>2. r \in i + 1 .. r /\ r + 1 \in 2 .. Len(s) /\ (r + 1) - 1 = r
    BY <1>0, <1>1, <1>2, <2>1
  <2>3. s[(r + 1) - 1] \in C <=> s[r + 1] \in C
    BY <1>2, <2>2 DEF WholeIn
  <2> QED BY <1>1, <1>2, <2>2, <2>3
<1>3. r \in 0 .. Len(s) /\ (r = Len(s) \/ s[r + 1] # "c")
  BY <1>0, <1>1, <1>2
<1>4. r \in Bounds(s)
  BY <1>3 DEF Bounds
<1> QED BY <1>4 DEF r

\* A part and one more character of a class.
LEMMA ThenIs ==
    ASSUME NEW s \in Inputs, NEW P \in SUBSET (0 .. Len(s)), NEW C, Ascii(C)
    PROVE  \A e : e \in Then(s, P, C) <=> \E q \in P : q < Len(s) /\ s[q + 1] \in C /\ e = q + 1
<1>1. Len(s) \in Nat
  BY DEF Inputs
<1>2. ASSUME NEW q \in P, q < Len(s), s[q + 1] \in C PROVE Past(s, q) = q + 1
  <2>1. q + 1 \in 1 .. Len(s) /\ q + 1 \in q + 1 .. Len(s)
    BY <1>1, <1>2
  <2>2. q + 1 \in Bounds(s)
    BY <1>2, <2>1, BoundsAre DEF Ascii
  <2>3. q + 1 = Len(s) \/ s[(q + 1) + 1] \notin {"c"}
    BY <2>2 DEF Bounds
  <2>4. \A j \in (q + 1) + 1 .. q + 1 : s[j] \in {"c"}
    BY <1>1
  <2> QED BY <1>1, <2>1, <2>3, <2>4, RunEndWhere DEF Past
<1> QED BY <1>2 DEF Then

\* A stretch that starts at one place can end up to where it ends at last.
LEMMA StarIs ==
    ASSUME NEW s \in Inputs, NEW p \in 0 .. Len(s), NEW C, NEW D,
           \A j \in 1 .. Len(s) : s[j] \in C <=> s[j] \in D
    PROVE  Star(s, {p}, C) = Places(s, p, RunEnd(s, p, D))
<1>0. Len(s) \in Nat /\ p \in Nat
  BY DEF Inputs
<1>1. /\ RunEnd(s, p, D) \in p .. Len(s)
      /\ \A j \in p + 1 .. RunEnd(s, p, D) : s[j] \in D
      /\ RunEnd(s, p, D) = Len(s) \/ s[RunEnd(s, p, D) + 1] \notin D
  BY RunEndIs
<1> DEFINE r == RunEnd(s, p, D)
<1> HIDE DEF r
<1>2. ASSUME NEW e \in Places(s, p, r) PROVE e \in Star(s, {p}, C)
  BY <1>0, <1>1 DEF r, Star, Places
<1>3. ASSUME NEW e \in Star(s, {p}, C) PROVE e \in Places(s, p, r)
  <2>1. e \in Bounds(s) /\ e \in 0 .. Len(s) /\ p <= e /\ \A i \in p + 1 .. e : s[i] \in C
    BY DEF Star, Bounds
  <2>2. ASSUME e > r PROVE FALSE
    BY <2>1, <2>2, <1>0, <1>1 DEF r
  <2> QED BY <2>1, <2>2, <1>0, <1>1 DEF r, Places
<1> QED BY <1>2, <1>3 DEF r

\* With at least one character.
LEMMA Line1Is ==
    ASSUME NEW s \in Inputs, NEW C, NEW D, WholeIn(s, C),
           \A j \in 1 .. Len(s) : s[j] \in C <=> s[j] \in D
    PROVE  Line1(s, C) = Places(s, 1, RunEnd(s, 0, D))
<1> DEFINE q == Past(s, 0)
           r == RunEnd(s, 0, D)
<1>0. Len(s) \in Nat /\ 0 \in 0 .. Len(s)
  BY DEF Inputs
<1>1. r \in 0 .. Len(s) /\ Star(s, {0}, C) = Places(s, 0, r)
  BY <1>0, StarIs, RunEndIs
<1>2. 0 < Len(s) => q \in 1 .. Len(s) /\ \A j \in 2 .. q : s[j] = "c"
  BY <1>0, RunEndIs DEF Past
<1>3. \A e : e \in Line1(s, C) <=>
        /\ 0 < Len(s) /\ s[1] \in C
        /\ e \in Bounds(s) /\ q <= e /\ \A i \in q + 1 .. e : s[i] \in C
  BY <1>0 DEF Line1, Plus, Star, Then
<1>4. \A e : e \in Star(s, {0}, C) <=> e \in Bounds(s) /\ 0 <= e /\ \A i \in 1 .. e : s[i] \in C
  BY DEF Star
<1> HIDE DEF q, r
<1>5. \A e \in Bounds(s) : e \in 0 .. Len(s)
  BY DEF Bounds
<1>6. ASSUME NEW e \in Line1(s, C) PROVE e \in Places(s, 1, r)
  <2> DEFINE Out == {i \in 1 .. e : s[i] \notin C}
  <2>1. SUFFICES Out = {}
    BY <1>0, <1>1, <1>2, <1>3, <1>4, <1>5 DEF Places
  <2>2. SUFFICES ASSUME Out # {} PROVE FALSE
    OBVIOUS
  <2>3. PICK i \in Out : \A k \in Out : i <= k
    <3>1. Out \in SUBSET Nat
      OBVIOUS
    <3> HIDE DEF Out
    <3> QED BY <2>2, <3>1, Smallest
  <2>4. i \in 2 .. q /\ i \in 2 .. Len(s) /\ s[i] = "c"
    BY <2>3, <1>0, <1>2, <1>3, <1>5
  <2>5. i - 1 \in 1 .. e /\ s[i - 1] \in C
    BY <2>3, <2>4, <1>3, <1>5
  <2> QED BY <2>3, <2>4, <2>5 DEF WholeIn
<1>7. ASSUME NEW e \in Places(s, 1, r) PROVE e \in Line1(s, C)
  <2>1. e \in Bounds(s) /\ e \in 1 .. Len(s) /\ \A i \in 1 .. e : s[i] \in C
    BY <1>0, <1>1, <1>4 DEF Places
  <2>2. ~ (e < q)
    <3>1. SUFFICES ASSUME e < q PROVE FALSE
      OBVIOUS
    <3>2. e + 1 \in 2 .. q /\ e < Len(s)
      BY <1>0, <1>2, <2>1, <3>1
    <3> QED BY <1>2, <2>1, <3>2 DEF Bounds
  <2> QED BY <1>0, <1>2, <1>3, <2>1, <2>2
<1> QED BY <1>6, <1>7 DEF r

\* One character further.
LEMMA RunEndStep ==
    ASSUME NEW s \in Inputs, NEW i \in 0 .. Len(s), NEW C
    PROVE  RunEnd(s, i, C) = IF i < Len(s) /\ s[i + 1] \in C THEN RunEnd(s, i + 1, C) ELSE i
<1>0. Len(s) \in Nat /\ i \in Nat
  BY DEF Inputs
<1>1. CASE i < Len(s) /\ s[i + 1] \in C
  <2> DEFINE r == RunEnd(s, i + 1, C)
  <2>1. /\ r \in i + 1 .. Len(s) /\ \A j \in (i + 1) + 1 .. r : s[j] \in C
        /\ r = Len(s) \/ s[r + 1] \notin C
    BY <1>0, <1>1, RunEndIs
  <2> HIDE DEF r
  <2>2. \A j \in i + 1 .. r : j = i + 1 \/ j \in (i + 1) + 1 .. r
    BY <1>0, <2>1
  <2>4. RunEnd(s, i, C) = r
    BY <2>1, <2>2, <1>0, <1>1, RunEndWhere
  <2> QED BY <2>4, <1>1 DEF r
<1>2. CASE ~ (i < Len(s) /\ s[i + 1] \in C)
  <2>2. RunEnd(s, i, C) = i
    BY <1>0, <1>2, RunEndWhere
  <2> QED BY <2>2, <1>2
<1> QED BY <1>1, <1>2

\* A part that can start anywhere in a stretch without its characters starts at
\* the end of the stretch.
LEMMA ThenAfter ==
    ASSUME NEW s \in Inputs, NEW p \in Nat, NEW m \in p .. Len(s), m \in Bounds(s), NEW C, Ascii(C),
           \A j \in p + 1 .. m : s[j] \notin C
    PROVE  Then(s, Places(s, p, m), C) = IF m < Len(s) /\ s[m + 1] \in C THEN {m + 1} ELSE {}
<1>0. Len(s) \in Nat /\ m \in Nat /\ m \in Places(s, p, m) /\ Places(s, p, m) \in SUBSET (0 .. Len(s))
  BY DEF Inputs, Places
<1>1. \A q \in Places(s, p, m) : q = m \/ q + 1 \in p + 1 .. m
  BY <1>0 DEF Places
<1>2. \A e : e \in Then(s, Places(s, p, m), C) <=> m < Len(s) /\ s[m + 1] \in C /\ e = m + 1
  BY ThenIs, <1>0, <1>1
<1>3. CASE m < Len(s) /\ s[m + 1] \in C
  BY <1>2, <1>3
<1>4. CASE ~ (m < Len(s) /\ s[m + 1] \in C)
  BY <1>2, <1>4
<1> QED BY <1>3, <1>4

\* The first character of C stands right after the stretch without one.
LEMMA FirstAfter ==
    ASSUME NEW s \in Inputs, NEW i \in 0 .. Len(s), NEW C
    PROVE  LET m == RunEnd(s, i, NotIn(C)) IN
           /\ m \in i .. Len(s) /\ \A j \in i + 1 .. m : s[j] \notin C
           /\ m < Len(s) => s[m + 1] \in C
           /\ First(s, i + 1, C) = IF m < Len(s) THEN m + 1 ELSE 0
<1> DEFINE m == RunEnd(s, i, NotIn(C))
           f == First(s, i + 1, C)
<1>0. Len(s) \in Nat /\ i \in Nat /\ i + 1 \in Nat \ {0} /\ \A j \in 1 .. Len(s) : s[j] \in Char
  BY DEF Inputs
<1>1. /\ m \in i .. Len(s) /\ \A j \in i + 1 .. m : s[j] \in NotIn(C)
      /\ m = Len(s) \/ s[m + 1] \notin NotIn(C)
  BY RunEndIs
<1>2. \/ f = 0 /\ \A j \in i + 1 .. Len(s) : s[j] \notin C
      \/ f \in i + 1 .. Len(s) /\ s[f] \in C /\ \A j \in i + 1 .. f - 1 : s[j] \notin C
  BY <1>0, FirstIs
<1> HIDE DEF m, f
<1>3. \A j \in i + 1 .. m : s[j] \notin C
  BY <1>1 DEF NotIn
<1>4. m < Len(s) => s[m + 1] \in C
  BY <1>0, <1>1 DEF NotIn
<1>5. f = IF m < Len(s) THEN m + 1 ELSE 0
  <2>1. CASE m < Len(s)
    <3>1. m + 1 \in i + 1 .. Len(s) /\ s[m + 1] \in C
      BY <1>0, <1>1, <1>4, <2>1
    <3>2. f \in i + 1 .. Len(s) /\ s[f] \in C /\ \A j \in i + 1 .. f - 1 : s[j] \notin C
      BY <1>2, <3>1
    <3>3. ~ (f \in i + 1 .. m)
      BY <3>2, <1>3
    <3>4. ~ (m + 1 \in i + 1 .. f - 1)
      BY <3>1, <3>2
    <3> QED BY <3>1, <3>2, <3>3, <3>4, <1>0, <1>1, <2>1
  <2>2. CASE ~ (m < Len(s))
    <3>1. m = Len(s)
      BY <1>0, <1>1, <2>2
    <3> QED BY <3>1, <1>2, <1>3, <2>2
  <2> QED BY <2>1, <2>2
<1> QED BY <1>1, <1>3, <1>4, <1>5 DEF m, f

\* What a comment's expression has matched where its line ends.
LEMMA LeadIs ==
    ASSUME NEW s \in Inputs, s # <<>>, NEW C, Ascii(C)
    PROVE  Lead(s, C) = IF s[1] \in C THEN Places(s, 1, RunEnd(s, 1, NotIn(CrNl))) ELSE {}
<1>0. Len(s) \in Nat /\ 0 < Len(s) /\ 1 \in 0 .. Len(s) /\ {0} \in SUBSET (0 .. Len(s))
  BY DEF Inputs
<1>1. Then(s, {0}, C) = IF s[1] \in C THEN {1} ELSE {}
  <2>1. \A e : e \in Then(s, {0}, C) <=> s[1] \in C /\ e = 1
    BY <1>0, ThenIs
  <2> QED BY <2>1
<1>2. CASE s[1] \in C
  BY <1>0, StarIs, <1>1, <1>2 DEF Lead
<1>3. CASE s[1] \notin C
  BY <1>1, <1>3 DEF Lead, Star
<1> QED BY <1>2, <1>3

-----------------------------------------------------------------------------
(* Line endings                                                            *)

\* One end of line takes nothing, one character or two.
LEMMA StepType ==
    ASSUME NEW s \in Inputs, NEW q \in 0 .. Len(s)
    PROVE  EolStep(s, q) \in q .. Len(s) /\ EolStep(s, q) - q \in 0 .. 2
BY DEF EolStep, Inputs

\* An end of line after a part, told by the step it takes.
LEMMA EolIs ==
    ASSUME NEW s \in Inputs, NEW P \in SUBSET (0 .. Len(s))
    PROVE  \A e : e \in Eol(s, P) <=> \E q \in P : EolStep(s, q) # q /\ e = EolStep(s, q)
<1>0. Len(s) \in Nat /\ Ascii(Cr) /\ Ascii(Nl) /\ \A q \in P : q \in Nat
  BY DEF Inputs, Ascii, Cr, Nl
<1> DEFINE R == Perhaps(s, P, Cr)
<1>1. \A q : q \in R <=> q \in P \/ \E o \in P : o < Len(s) /\ s[o + 1] = "r" /\ q = o + 1
  <2>2. \A q : q \in R <=> q \in P \/ q \in Then(s, P, Cr)
    BY DEF Perhaps
  <2> QED BY <1>0, <2>2, ThenIs DEF Cr
<1>2. \A e : e \in Eol(s, P) <=> \E q \in R : q < Len(s) /\ s[q + 1] = "n" /\ e = q + 1
  <2>1. R \in SUBSET (0 .. Len(s))
    <3>1. ASSUME NEW o \in P, o < Len(s) PROVE o + 1 \in 0 .. Len(s)
      BY <1>0, <3>1
    <3> HIDE DEF R
    <3> QED BY <1>1, <3>1
  <2> HIDE DEF R
  <2> QED BY <1>0, <2>1, ThenIs DEF Eol, Nl, R
<1> HIDE DEF R
<1>3. ASSUME NEW e \in Eol(s, P) PROVE \E q \in P : EolStep(s, q) # q /\ e = EolStep(s, q)
  <2>1. PICK q \in R : q < Len(s) /\ s[q + 1] = "n" /\ e = q + 1
    BY <1>2
  <2>2. CASE q \in P
    BY <2>1, <2>2, <1>0 DEF EolStep
  <2>3. CASE q \notin P
    <3>1. PICK o \in P : o < Len(s) /\ s[o + 1] = "r" /\ q = o + 1
      BY <2>3, <1>1
    <3>2. o + 1 < Len(s) /\ (o + 1) + 1 = o + 2 /\ o + 2 # o
      BY <3>1, <2>1, <1>0
    <3> QED BY <3>1, <3>2, <2>1 DEF EolStep
  <2> QED BY <2>2, <2>3
<1>4. ASSUME NEW q \in P, EolStep(s, q) # q PROVE EolStep(s, q) \in Eol(s, P)
  <2>1. CASE q < Len(s) /\ s[q + 1] = "n"
    BY <2>1, <1>1, <1>2 DEF EolStep
  <2>2. CASE ~ (q < Len(s) /\ s[q + 1] = "n")
    <3>1. q + 1 < Len(s) /\ s[q + 1] = "r" /\ s[q + 2] = "n" /\ EolStep(s, q) = q + 2
      BY <2>2, <1>4 DEF EolStep
    <3> QED BY <3>1, <1>0, <1>1, <1>2
  <2> QED BY <2>1, <2>2
<1> QED BY <1>3, <1>4

\* If one of the places where a line ending can start is the only one that has one.
LEMMA EolAt ==
    ASSUME NEW s \in Inputs, NEW P \in SUBSET (0 .. Len(s)), NEW m \in P,
           \A q \in P : q # m => EolStep(s, q) = q
    PROVE  Eol(s, P) = IF EolStep(s, m) = m THEN {} ELSE {EolStep(s, m)}
<1>1. \A e : e \in Eol(s, P) <=> EolStep(s, m) # m /\ e = EolStep(s, m)
  BY EolIs
<1>2. CASE EolStep(s, m) = m
  BY <1>1, <1>2
<1>3. CASE EolStep(s, m) # m
  BY <1>1, <1>3
<1> QED BY <1>2, <1>3

\* The scan for line endings is such a function.
LEMMA EolsEndIs ==
    ASSUME NEW s \in Inputs, NEW i \in 0 .. Len(s)
    PROVE  \E g : g[i] = EolsEnd(s, i) /\ LeadsOn(s, i, g)
<1> DEFINE n == Len(s)
           Full(g, p) == IF p < Len(s) /\ s[p + 1] = "n" THEN g[p + 1]
                         ELSE IF p + 1 < Len(s) /\ s[p + 1] = "r" /\ s[p + 2] = "n" THEN g[p + 2]
                         ELSE p
           Body(g, p) == IF EolStep(s, p) = p THEN p ELSE g[EolStep(s, p)]
           Is(g, m) == g = [p \in m .. n |-> g[p]] /\ \A p \in m .. n : g[p] = Body(g, p)
           T == {m \in i .. n : \E g : Is(g, m)}
<1>0. n \in Nat /\ i \in Nat
  BY DEF Inputs
<1>1. \A p \in i .. n : p \in 0 .. n /\ EolStep(s, p) \in p .. n
  BY <1>0, StepType
<1>2. \A g : \A p \in i .. n : Full(g, p) = Body(g, p)
  BY <1>0 DEF EolStep
<1>3. \E g : g = [p \in i .. n |-> Full(g, p)]
  <2>1. n \in T
    <3> DEFINE g == [p \in n .. n |-> n]
    <3>1. \A p \in n .. n : p = n /\ g[p] = n
      BY <1>0
    <3>2. g = [p \in n .. n |-> g[p]]
      OBVIOUS
    <3> HIDE DEF g
    <3>3. EolStep(s, n) = n
      BY <1>0, <1>1
    <3>4. Is(g, n)
      BY <3>1, <3>2, <3>3
    <3> QED BY <3>4, <1>0
  <2>2. PICK m \in T : \A k \in T : m <= k
    <3>1. T \in SUBSET Nat
      BY <1>0
    <3> HIDE DEF T
    <3> QED BY <2>1, <3>1, Smallest
  <2>3. PICK g : Is(g, m)
    BY <2>2
  <2>4. m = i
    <3>1. SUFFICES ASSUME m # i PROVE FALSE
      OBVIOUS
    <3>2. m \in i .. n /\ m - 1 \in i .. n /\ (m - 1) + 1 = m
      BY <3>1, <2>2, <1>0
    <3> DEFINE x == IF EolStep(s, m - 1) = m - 1 THEN m - 1 ELSE g[EolStep(s, m - 1)]
               h == [p \in m - 1 .. n |-> IF p = m - 1 THEN x ELSE g[p]]
    <3>3. h = [p \in m - 1 .. n |-> h[p]]
      OBVIOUS
    <3>4. ASSUME NEW p \in m - 1 .. n PROVE h[p] = Body(h, p)
      <4>1. p \in i .. n /\ EolStep(s, p) \in p .. n
        BY <3>2, <1>0, <1>1
      <4>3. \A k \in m .. n : h[k] = g[k]
        BY <3>2, <1>0
      <4>4. CASE p = m - 1
        <5>1. EolStep(s, p) # p => EolStep(s, p) \in m .. n
          BY <4>1, <4>4, <3>2, <1>0
        <5>2. h[p] = x
          BY <4>4
        <5> HIDE DEF h
        <5> QED BY <5>1, <5>2, <4>3, <4>4
      <4>5. CASE p # m - 1
        <5>1. p \in m .. n /\ EolStep(s, p) \in m .. n
          BY <4>1, <4>5, <3>2, <1>0
        <5> HIDE DEF h
        <5> QED BY <5>1, <4>3, <2>3
      <4> QED BY <4>4, <4>5
    <3> HIDE DEF h
    <3>5. Is(h, m - 1)
      BY <3>3, <3>4
    <3>6. m - 1 \in T
      BY <3>2, <3>5
    <3> HIDE DEF T
    <3> QED BY <3>6, <2>2, <3>2
  <2>6. \A p \in i .. n : Full(g, p) = Body(g, p)
    BY <1>2
  <2> HIDE DEF Full, Body
  <2>7. g = [p \in i .. n |-> Full(g, p)]
    BY <2>3, <2>4, <2>6
  <2> QED BY <2>7
<1>4. PICK g : g = [p \in i .. n |-> Full(g, p)] /\ EolsEnd(s, i) = g[i]
  BY <1>3 DEF EolsEnd
<1>5. \A p \in i .. n : g[p] = Body(g, p)
  <2> HIDE DEF Full, Body
  <2>2. \A p \in i .. n : g[p] = Full(g, p)
    BY <1>4
  <2> QED BY <1>2, <2>2
<1> QED BY <1>4, <1>5 DEF LeadsOn

\* The ends of lines that follow each other, one more in each step.
LEMMA LinesIs ==
    ASSUME NEW s \in Inputs, NEW P
    PROVE  EolLines(s, P)[0] = P /\ \A m \in 1 .. Len(s) : EolLines(s, P)[m] = Eol(s, EolLines(s, P)[m - 1])
<1> DEFINE n == Len(s)
           Body(g, p) == IF p = 0 THEN P ELSE Eol(s, g[p - 1])
           Is(g, m) == g = [p \in 0 .. m |-> g[p]] /\ \A p \in 0 .. m : g[p] = Body(g, p)
           T == {m \in 0 .. n : \E g : Is(g, m)}
<1>0. n \in Nat
  BY DEF Inputs
<1>1. \E g : g = [p \in 0 .. n |-> Body(g, p)]
  <2>1. 0 \in T
    <3> DEFINE g == [p \in 0 .. 0 |-> P]
    <3>1. \A p \in 0 .. 0 : p = 0 /\ g[p] = P
      OBVIOUS
    <3>2. g = [p \in 0 .. 0 |-> g[p]]
      OBVIOUS
    <3> HIDE DEF g
    <3>3. Is(g, 0)
      BY <3>1, <3>2
    <3> QED BY <3>3, <1>0
  <2>2. PICK m \in T : \A k \in T : k <= m
    <3>1. T \in SUBSET (0 .. n)
      BY <1>0
    <3> HIDE DEF T
    <3> QED BY <2>1, <3>1, <1>0, Largest
  <2>3. PICK g : Is(g, m)
    BY <2>2
  <2>4. m = n
    <3>1. SUFFICES ASSUME m # n PROVE FALSE
      OBVIOUS
    <3>2. m \in 0 .. n /\ m + 1 \in 0 .. n /\ m + 1 # 0 /\ (m + 1) - 1 = m
      BY <3>1, <2>2, <1>0
    <3> DEFINE x == Eol(s, g[m])
               h == [p \in 0 .. m + 1 |-> IF p = m + 1 THEN x ELSE g[p]]
    <3>4. ASSUME NEW p \in 0 .. m + 1 PROVE h[p] = Body(h, p)
      <4>2. \A k \in 0 .. m : h[k] = g[k]
        BY <3>2
      <4>3. CASE p = m + 1
        <5> HIDE DEF h
        <5> QED BY <4>3, <3>2, <4>2
      <4>4. CASE p # m + 1
        <5>1. p \in 0 .. m /\ (p # 0 => p - 1 \in 0 .. m)
          BY <4>4, <3>2
        <5> HIDE DEF h
        <5> QED BY <5>1, <4>2, <2>3
      <4> QED BY <4>3, <4>4
    <3> HIDE DEF h
    <3>5. Is(h, m + 1)
      BY <3>4
    <3>6. m + 1 \in T
      BY <3>2, <3>5
    <3> HIDE DEF T
    <3> QED BY <3>6, <2>2, <3>2
  <2> HIDE DEF Body
  <2>6. g = [p \in 0 .. n |-> Body(g, p)]
    BY <2>3, <2>4
  <2> QED BY <2>6
<1>2. EolLines(s, P) = [p \in 0 .. n |-> Body(EolLines(s, P), p)]
  <2> DEFINE L == CHOOSE g : g = [p \in 0 .. n |-> Body(g, p)]
  <2>1. EolLines(s, P) = L
    BY DEF EolLines
  <2> HIDE DEF Body
  <2> QED BY <2>1, <1>1
<1>3. \A p \in 0 .. n : EolLines(s, P)[p] = Body(EolLines(s, P), p)
  <2> DEFINE L == EolLines(s, P)
  <2>1. L = [p \in 0 .. n |-> Body(L, p)]
    BY <1>2
  <2> HIDE DEF L, Body
  <2> QED BY <2>1 DEF L
<1> QED BY <1>3, <1>0

\* One line ending or more, of which the first ends at x: the longest match goes to
\* the end of the line endings from x on.
LEMMA EolPlusIs ==
    ASSUME NEW s \in Inputs, NEW P \in SUBSET (0 .. Len(s)), NEW x, Eol(s, P) = {x},
           NEW i \in 0 .. Len(s), i <= x, NEW g, LeadsOn(s, i, g)
    PROVE  g[x] \in Nat /\ g[x] >= x /\ Longest(EolPlus(s, P)) = g[x]
<1> DEFINE n == Len(s)
           L == EolLines(s, P)
           Good(e, m) == e \in 0 .. n /\ x <= e /\ m <= e /\ g[e] = g[x]
           E == EolPlus(s, P)
<1>0. n \in Nat /\ i \in Nat
  BY DEF Inputs
<1>1. x \in 1 .. n
  <2>1. PICK q \in P : EolStep(s, q) # q /\ x = EolStep(s, q)
    BY EolIs
  <2> QED BY <2>1, StepType, <1>0
<1>2. L[0] = P /\ \A m \in 1 .. n : L[m] = Eol(s, L[m - 1])
  BY LinesIs
<1>3. E = UNION {L[m] : m \in 1 .. n}
  BY DEF EolPlus, EolLines
<1> HIDE DEF L, E
<1>4. \A m \in 1 .. n : \A e \in L[m] : Good(e, m)
  <2> DEFINE Bad == {m \in 1 .. n : \E e \in L[m] : ~ Good(e, m)}
  <2>1. SUFFICES ASSUME Bad # {} PROVE FALSE
    OBVIOUS
  <2>2. PICK m \in Bad : \A k \in Bad : m <= k
    <3>1. Bad \in SUBSET Nat
      BY <1>0
    <3> HIDE DEF Bad
    <3> QED BY <2>1, <3>1, Smallest
  <2>3. m \in 1 .. n /\ \E e \in L[m] : ~ Good(e, m)
    BY <2>2
  <2>4. CASE m = 1
    <3>2. Good(x, 1)
      BY <1>1, <1>0
    <3> QED BY <1>2, <2>3, <2>4, <3>2
  <2>5. CASE m # 1
    <3>1. m - 1 \in 1 .. n /\ ~ (m <= m - 1)
      BY <2>3, <2>5, <1>0
    <3>2. m - 1 \notin Bad
      <4> HIDE DEF Bad
      <4> QED BY <2>2, <3>1
    <3>3. \A e \in L[m - 1] : Good(e, m - 1)
      BY <3>1, <3>2
    <3>4. L[m - 1] \in SUBSET (0 .. n)
      BY <3>3
    <3>5. PICK e \in L[m] : ~ Good(e, m)
      BY <2>3
    <3>6. L[m] = Eol(s, L[m - 1])
      BY <1>2, <2>3
    <3>7. PICK q \in L[m - 1] : EolStep(s, q) # q /\ e = EolStep(s, q)
      BY <3>4, <3>5, <3>6, EolIs
    <3>8. Good(q, m - 1) /\ EolStep(s, q) \in q .. n
      BY <3>3, <3>7, StepType
    <3>9. q \in i .. n /\ e \in 0 .. n /\ x <= e /\ m <= e
      BY <3>7, <3>8, <1>0, <1>1, <2>3
    <3>10. g[q] = g[e]
      BY <3>7, <3>9 DEF LeadsOn
    <3> QED BY <3>5, <3>8, <3>9, <3>10
  <2> QED BY <2>4, <2>5
<1>5. E \in SUBSET (0 .. n) /\ x \in E
  <2>1. 1 \in 1 .. n /\ L[1] = {x}
    BY <1>0, <1>1, <1>2
  <2> QED BY <1>3, <1>4, <2>1
<1>6. PICK f \in E : \A e \in E : e <= f
  BY <1>0, <1>5, Largest
<1>7. EolStep(s, f) = f
  <2>1. SUFFICES ASSUME EolStep(s, f) # f PROVE FALSE
    OBVIOUS
  <2>2. PICK m \in 1 .. n : f \in L[m]
    BY <1>3
  <2>3. Good(f, m) /\ L[m] \in SUBSET (0 .. n)
    BY <1>4, <2>2
  <2>4. EolStep(s, f) \in f .. n
    BY <2>3, StepType
  <2>5. m + 1 \in 1 .. n /\ (m + 1) - 1 = m /\ ~ (EolStep(s, f) <= f)
    BY <2>1, <2>2, <2>3, <2>4, <1>0
  <2>6. EolStep(s, f) \in Eol(s, L[m])
    BY <2>1, <2>2, <2>3, EolIs
  <2>7. EolStep(s, f) \in L[m + 1]
    BY <2>5, <2>6, <1>2
  <2> QED BY <2>5, <2>7, <1>3, <1>6
<1>8. f \in 0 .. n /\ x <= f /\ g[f] = g[x]
  BY <1>3, <1>4
<1>9. f \in i .. n
  BY <1>0, <1>1, <1>8
<1>10. g[x] = f
  BY <1>7, <1>8, <1>9 DEF LeadsOn
<1>11. Longest(E) = f
  BY <1>0, <1>5, <1>6, LongestIs
<1> QED BY <1>8, <1>10, <1>11 DEF E

\* Without a first line ending there is none.
LEMMA EolPlusNone ==
    ASSUME NEW s \in Inputs, NEW P \in SUBSET (0 .. Len(s)), Eol(s, P) = {}
    PROVE  EolPlus(s, P) = {}
<1> DEFINE n == Len(s)
           L == EolLines(s, P)
           Bad == {m \in 1 .. n : L[m] # {}}
<1>0. n \in Nat
  BY DEF Inputs
<1>1. L[0] = P /\ \A m \in 1 .. n : L[m] = Eol(s, L[m - 1])
  BY LinesIs
<1>2. EolPlus(s, P) = UNION {L[m] : m \in 1 .. n}
  BY DEF EolPlus, EolLines
<1> HIDE DEF L
<1>3. Bad = {}
  <2>1. SUFFICES ASSUME Bad # {} PROVE FALSE
    OBVIOUS
  <2>2. PICK m \in Bad : \A k \in Bad : m <= k
    <3>1. Bad \in SUBSET Nat
      BY <1>0
    <3> HIDE DEF Bad
    <3> QED BY <2>1, <3>1, Smallest
  <2>3. m \in 1 .. n /\ L[m] # {}
    BY <2>2
  <2>4. CASE m = 1
    BY <1>1, <2>3, <2>4
  <2>5. CASE m # 1
    <3>1. m - 1 \in 1 .. n /\ ~ (m <= m - 1)
      BY <2>3, <2>5, <1>0
    <3>2. m - 1 \notin Bad
      <4> HIDE DEF Bad
      <4> QED BY <2>2, <3>1
    <3>4. Eol(s, {}) = {}
      BY EolIs
    <3> QED BY <3>1, <3>2, <1>1, <2>3, <3>4
  <2> QED BY <2>4, <2>5
<1> QED BY <1>2, <1>3

-----------------------------------------------------------------------------
(* The kinds                                                               *)

\* The longest of the sets of ends that occur.
LEMMA LongestOf ==
    /\ Longest({}) = 0
    /\ \A e \in Nat : Longest({e}) = e
    /\ \A s : \A p \in Nat : \A m \in Nat : m \in Bounds(s) /\ p <= m => Longest(Places(s, p, m)) = m
    /\ \A s : \A m \in Nat : m \in Bounds(s) => Longest(Places(s, 0, m)) = m /\ Longest(Places(s, 1, m)) = m
<1>1. Longest({}) = 0
  BY DEF Longest
<1>2. ASSUME NEW e \in Nat PROVE Longest({e}) = e
  BY LongestIs
<1>3. ASSUME NEW s, NEW p \in Nat, NEW m \in Nat, m \in Bounds(s), p <= m PROVE Longest(Places(s, p, m)) = m
  <2>1. Places(s, p, m) \in SUBSET Nat /\ m \in Places(s, p, m) /\ \A f \in Places(s, p, m) : f <= m
    BY <1>3 DEF Places
  <2> QED BY <2>1, LongestIs
<1>4. ASSUME NEW s, NEW m \in Nat, m \in Bounds(s)
      PROVE  Longest(Places(s, 0, m)) = m /\ Longest(Places(s, 1, m)) = m
  <2>1. CASE m = 0
    <3>1. Places(s, 1, m) = {}
      BY <2>1 DEF Places
    <3> QED BY <1>1, <1>3, <1>4, <2>1, <3>1
  <2>2. CASE m # 0
    BY <1>3, <1>4, <2>2
  <2> QED BY <2>1, <2>2
<1> QED BY <1>1, <1>2, <1>3, <1>4

\* Up to and with the first character of C.
LEMMA ToKinds ==
    ASSUME NEW s \in Inputs, NEW C, Ascii(C)
    PROVE  /\ Longest(Then(s, Line(s, NotIn(C)), C)) = To(s, C, 0)
           /\ Longest(Then(s, Line1(s, NotIn(C)), C)) = To(s, C, 1)
<1> DEFINE m == RunEnd(s, 0, NotIn(C))
<1>0. Len(s) \in Nat /\ 0 \in 0 .. Len(s)
  BY DEF Inputs
<1>1. /\ m \in 0 .. Len(s) /\ \A j \in 0 + 1 .. m : s[j] \notin C
      /\ m < Len(s) => s[m + 1] \in C
      /\ First(s, 0 + 1, C) = IF m < Len(s) THEN m + 1 ELSE 0
  BY <1>0, FirstAfter
<1>10. 0 \in Bounds(s) /\ m \in Bounds(s)
  BY BoundsAre, AsciiIs, RunEndBound
<1>2. Line(s, NotIn(C)) = Places(s, 0, m)
  BY <1>0, StarIs DEF Line
<1>3. Line1(s, NotIn(C)) = Places(s, 1, m)
  BY AsciiIs, Line1Is
<1> HIDE DEF m
<1>4. Then(s, Places(s, 0, m), C) = IF m < Len(s) /\ s[m + 1] \in C THEN {m + 1} ELSE {}
  BY <1>0, <1>1, <1>10, ThenAfter
<1>5. Then(s, Places(s, 1, m), C) = IF m >= 1 /\ m < Len(s) /\ s[m + 1] \in C THEN {m + 1} ELSE {}
  <2>1. CASE m = 0
    BY <2>1 DEF Then, Places
  <2>2. CASE m # 0
    <3>1. m \in 1 .. Len(s) /\ m >= 1 /\ \A j \in 1 + 1 .. m : j \in 0 + 1 .. m
      BY <1>0, <1>1, <2>2
    <3> QED BY <3>1, <1>1, <1>10, ThenAfter
  <2> QED BY <2>1, <2>2
<1>6. First(s, 1, C) = IF m < Len(s) THEN m + 1 ELSE 0
  BY <1>1
<1>7. m \in Nat /\ m + 1 \in Nat /\ Longest({m + 1}) = m + 1 /\ Longest({}) = 0
  BY <1>0, <1>1, LongestOf
<1>8. Longest(Then(s, Line(s, NotIn(C)), C)) = To(s, C, 0)
  <2>1. Then(s, Line(s, NotIn(C)), C) = IF m < Len(s) THEN {m + 1} ELSE {}
    BY <1>1, <1>2, <1>4
  <2> QED BY <2>1, <1>0, <1>1, <1>6, <1>7 DEF To
<1>9. Longest(Then(s, Line1(s, NotIn(C)), C)) = To(s, C, 1)
  <2>1. Then(s, Line1(s, NotIn(C)), C) = IF m >= 1 /\ m < Len(s) THEN {m + 1} ELSE {}
    BY <1>1, <1>3, <1>5
  <2> QED BY <2>1, <1>0, <1>1, <1>6, <1>7 DEF To
<1> QED BY <1>8, <1>9

\* A stretch of C.
LEMMA RunKinds ==
    ASSUME NEW s \in Inputs, NEW C, NEW D, WholeIn(s, C),
           \A j \in 1 .. Len(s) : s[j] \in C <=> s[j] \in D
    PROVE  Longest(Line(s, C)) = RunEnd(s, 0, D) /\ Longest(Line1(s, C)) = RunEnd(s, 0, D)
<1>1. Len(s) \in Nat /\ 0 \in 0 .. Len(s)
  BY DEF Inputs
<1>2. RunEnd(s, 0, D) \in 0 .. Len(s)
  BY <1>1, RunEndIs
<1>5. WholeIn(s, D)
  BY DEF WholeIn
<1>6. RunEnd(s, 0, D) \in Bounds(s)
  BY <1>5, BoundsAre, RunEndBound
<1>3. Line(s, C) = Places(s, 0, RunEnd(s, 0, D))
  BY <1>1, StarIs DEF Line
<1>4. Line1(s, C) = Places(s, 1, RunEnd(s, 0, D))
  BY Line1Is
<1> QED BY <1>1, <1>2, <1>3, <1>4, <1>6, LongestOf

\* One character.
LEMMA OneKinds ==
    ASSUME NEW s \in Inputs, s # <<>>, NEW C, s[1] \in C => s[1] \notin {"u", "c"}
    PROVE  Longest(Then(s, {0}, C)) = One(s, C)
<1>1. Len(s) \in Nat /\ 0 < Len(s) /\ {0} \in SUBSET (0 .. Len(s))
  BY DEF Inputs
<1>2. Then(s, {0}, C) = IF s[1] \in C THEN {1} ELSE {}
  <2> DEFINE A == C \ {"u", "c"}
  <2>1. Ascii(A) /\ (s[1] \in A <=> s[1] \in C)
    BY DEF Ascii
  <2> HIDE DEF A
  <2>4. \A q \in {0} : s[q + 1] \in A <=> s[q + 1] \in C
    BY <2>1
  <2>2. Then(s, {0}, C) = Then(s, {0}, A)
    BY <2>4 DEF Then
  <2>3. \A e : e \in Then(s, {0}, A) <=> s[1] \in A /\ e = 1
    BY <1>1, <2>1, ThenIs
  <2>5. \A e : e \in Then(s, {0}, C) <=> s[1] \in C /\ e = 1
    BY <2>1, <2>2, <2>3
  <2>6. CASE s[1] \in C
    BY <2>5, <2>6
  <2>7. CASE s[1] \notin C
    BY <2>5, <2>7
  <2> QED BY <2>6, <2>7
<1> QED BY <1>2, LongestOf DEF One

\* A stretch of C where something ended in a stretch without C.
LEMMA PlusAfter ==
    ASSUME NEW s \in Inputs, NEW p \in Nat, NEW m \in p .. Len(s), m \in Bounds(s), NEW C, Ascii(C),
           \A j \in p + 1 .. m : s[j] \notin C
    PROVE  Longest(Plus(s, Places(s, p, m), C)) = IF m < Len(s) /\ s[m + 1] \in C THEN RunEnd(s, m, C) ELSE 0
<1>0. Len(s) \in Nat /\ m \in 0 .. Len(s)
  BY DEF Inputs
<1>1. Then(s, Places(s, p, m), C) = IF m < Len(s) /\ s[m + 1] \in C THEN {m + 1} ELSE {}
  BY ThenAfter
<1>2. CASE m < Len(s) /\ s[m + 1] \in C
  <2> DEFINE r == RunEnd(s, m + 1, C)
  <2>1. m + 1 \in 0 .. Len(s)
    BY <1>0, <1>2
  <2>4. m + 1 \in Bounds(s) /\ r \in Bounds(s)
    <3>1. m + 1 \in Bounds(s)
      BY <1>2, <2>1, BoundsAre DEF Ascii
    <3> QED BY <3>1, AsciiIs, RunEndBound
  <2>2. Plus(s, Places(s, p, m), C) = Places(s, m + 1, r)
    BY <1>1, <1>2, <2>1, StarIs DEF Plus
  <2>3. r \in m + 1 .. Len(s) /\ RunEnd(s, m, C) = r
    BY <2>1, <1>0, <1>2, RunEndIs, RunEndStep
  <2> HIDE DEF r
  <2>5. Longest(Places(s, m + 1, r)) = r
    BY <1>0, <2>3, <2>4, LongestOf
  <2> QED BY <1>2, <2>2, <2>3, <2>5
<1>3. CASE ~ (m < Len(s) /\ s[m + 1] \in C)
  <2>1. Plus(s, Places(s, p, m), C) = Star(s, {}, C)
    BY <1>1, <1>3 DEF Plus
  <2>2. Star(s, {}, C) = {}
    BY DEF Star
  <2>3. Longest(Plus(s, Places(s, p, m), C)) = 0
    BY <2>1, <2>2, LongestOf
  <2> QED BY <1>3, <2>3
<1> QED BY <1>2, <1>3

\* Spaces, and then line ends of any form.
LEMMA SpacesNewlinesKind ==
    ASSUME NEW s \in Inputs
    PROVE  Longest(Plus(s, Line(s, {"s"}), CrNl)) = AfterSpaces(s, RunEnd(s, RunEnd(s, 0, {"s"}), CrNl))
<1> DEFINE m == RunEnd(s, 0, {"s"})
<1>0. Len(s) \in Nat /\ 0 \in 0 .. Len(s)
  BY DEF Inputs
<1>1. m \in 0 .. Len(s) /\ \A j \in 0 + 1 .. m : s[j] \in {"s"}
  BY <1>0, RunEndIs
<1>2. Line(s, {"s"}) = Places(s, 0, m)
  BY <1>0, StarIs DEF Line
<1>3. m \in Bounds(s)
  <2>1. Ascii({"s"})
    BY DEF Ascii
  <2> QED BY <2>1, BoundsAre, AsciiIs, RunEndBound
<1> HIDE DEF m
<1>5. Longest(Plus(s, Places(s, 0, m), CrNl)) = IF m < Len(s) /\ s[m + 1] \in CrNl THEN RunEnd(s, m, CrNl) ELSE 0
  BY <1>0, <1>1, <1>3, PlusAfter DEF CrNl, Ascii
<1>6. RunEnd(s, m, CrNl) > m <=> m < Len(s) /\ s[m + 1] \in CrNl
  <2>1. CASE m < Len(s) /\ s[m + 1] \in CrNl
    <3>2. RunEnd(s, m + 1, CrNl) \in m + 1 .. Len(s)
      BY <1>0, <1>1, <2>1, RunEndIs
    <3> QED BY <3>2, <1>1, <2>1, RunEndStep, <1>0
  <2>2. CASE ~ (m < Len(s) /\ s[m + 1] \in CrNl)
    BY <1>1, <2>2, RunEndStep
  <2> QED BY <2>1, <2>2
<1> QED BY <1>2, <1>5, <1>6 DEF m, AfterSpaces

\* A comment, to the end of its line or of the empty lines after it; line ends of
\* any form.
LEMMA CommentKinds ==
    ASSUME NEW s \in Inputs, s # <<>>, NEW C, Ascii(C)
    PROVE  /\ Longest(Then(s, Lead(s, C), CrNl)) = CommentEnd(s, C, CrNl)
           /\ Longest(Plus(s, Lead(s, C), CrNl)) =
                IF CommentEnd(s, C, CrNl) = 0 THEN 0 ELSE RunEnd(s, CommentEnd(s, C, CrNl), CrNl)
<1> DEFINE m == RunEnd(s, 1, NotIn(CrNl))
<1>0. Len(s) \in Nat /\ 1 \in 0 .. Len(s)
  BY DEF Inputs
<1>1. Lead(s, C) = IF s[1] \in C THEN Places(s, 1, m) ELSE {}
  BY LeadIs
<1>2. /\ m \in 1 .. Len(s) /\ \A j \in 1 + 1 .. m : s[j] \notin CrNl
      /\ m < Len(s) => s[m + 1] \in CrNl
      /\ First(s, 1 + 1, CrNl) = IF m < Len(s) THEN m + 1 ELSE 0
  BY <1>0, FirstAfter
<1>5. Ascii(CrNl)
  BY DEF Ascii, CrNl
<1>6. s[1] \in C => m \in Bounds(s)
  <2>1. s[1] \in C => 1 \in Bounds(s)
    BY <1>0, BoundsAre DEF Ascii
  <2> QED BY <2>1, <1>5, AsciiIs, RunEndBound
<1> HIDE DEF m
<1>3. CASE s[1] \in C
  <2>1. CommentEnd(s, C, CrNl) = IF m < Len(s) THEN m + 1 ELSE 0
    BY <1>2, <1>3 DEF CommentEnd
  <2>2. Then(s, Places(s, 1, m), CrNl) = IF m < Len(s) /\ s[m + 1] \in CrNl THEN {m + 1} ELSE {}
    BY <1>2, <1>3, <1>5, <1>6, ThenAfter
  <2>3. Longest(Plus(s, Places(s, 1, m), CrNl)) =
           IF m < Len(s) /\ s[m + 1] \in CrNl THEN RunEnd(s, m, CrNl) ELSE 0
    BY <1>2, <1>3, <1>5, <1>6, PlusAfter
  <2>4. m \in 0 .. Len(s) /\ m + 1 \in Nat /\ m + 1 # 0
    BY <1>0, <1>2
  <2>5. m < Len(s) => RunEnd(s, m, CrNl) = RunEnd(s, m + 1, CrNl)
    BY <2>4, <1>2, RunEndStep
  <2>6. Longest(Then(s, Lead(s, C), CrNl)) = CommentEnd(s, C, CrNl)
    BY <1>1, <1>2, <1>3, <2>1, <2>2, <2>4, LongestOf
  <2>7. Longest(Plus(s, Lead(s, C), CrNl)) =
           IF CommentEnd(s, C, CrNl) = 0 THEN 0 ELSE RunEnd(s, CommentEnd(s, C, CrNl), CrNl)
    BY <1>1, <1>2, <1>3, <2>1, <2>3, <2>4, <2>5
  <2> QED BY <2>6, <2>7
<1>4. CASE s[1] \notin C
  <2>1. Then(s, {}, CrNl) = {} /\ Plus(s, {}, CrNl) = {}
    BY DEF Then, Plus, Star
  <2> QED BY <1>1, <1>4, <2>1, LongestOf DEF CommentEnd
<1> QED BY <1>3, <1>4

\* Where every CR is part of a CRLF, the scan for LF finds the end of the line.
LEMMA FirstNewline ==
    ASSUME NEW s \in Inputs, CrIsCrLf(s), NEW i \in 0 .. Len(s)
    PROVE  LET m == RunEnd(s, i, NotIn(CrNl)) IN
           /\ m \in i .. Len(s) /\ \A j \in i + 1 .. m : s[j] \notin CrNl
           /\ First(s, i + 1, Nl) = IF EolStep(s, m) = m THEN 0 ELSE EolStep(s, m)
<1> DEFINE m == RunEnd(s, i, NotIn(CrNl))
           f == First(s, i + 1, Nl)
<1>0. Len(s) \in Nat /\ i \in Nat /\ i + 1 \in Nat \ {0} /\ DOMAIN s = 1 .. Len(s)
  BY DEF Inputs
<1>1. /\ m \in i .. Len(s) /\ \A j \in i + 1 .. m : s[j] \notin CrNl
      /\ m < Len(s) => s[m + 1] \in CrNl
  BY FirstAfter
<1>2. \/ f = 0 /\ \A j \in i + 1 .. Len(s) : s[j] # "n"
      \/ f \in i + 1 .. Len(s) /\ s[f] = "n" /\ \A j \in i + 1 .. f - 1 : s[j] # "n"
  BY <1>0, FirstIs DEF Nl
<1> HIDE DEF m, f
<1>3. \A j \in i + 1 .. m : s[j] # "n"
  BY <1>1 DEF CrNl
<1>8. m \in Nat /\ m <= Len(s)
  <2>1. m \in i .. Len(s)
    BY <1>1
  <2> QED BY <2>1, <1>0
<1>4. CASE m = Len(s)
  <2>1. EolStep(s, m) = m
    BY <1>8, <1>4 DEF EolStep
  <2>2. f = 0
    BY <1>2, <1>3, <1>4
  <2> QED BY <1>1, <2>1, <2>2 DEF m, f
<1>5. CASE m < Len(s) /\ s[m + 1] = "n"
  <2>1. EolStep(s, m) = m + 1 /\ m + 1 # m /\ m + 1 \in i + 1 .. Len(s)
    BY <1>0, <1>1, <1>5 DEF EolStep
  <2>2. f \in i + 1 .. Len(s) /\ s[f] = "n" /\ \A j \in i + 1 .. f - 1 : s[j] # "n"
    BY <1>2, <1>5, <2>1
  <2>3. ~ (f \in i + 1 .. m) /\ ~ (m + 1 \in i + 1 .. f - 1)
    BY <1>3, <1>5, <2>2
  <2>4. f = m + 1
    BY <2>1, <2>2, <2>3, <1>0, <1>1
  <2> QED BY <1>1, <2>1, <2>4 DEF m, f
<1>6. CASE m < Len(s) /\ s[m + 1] = "r"
  <2>2. m + 1 < Len(s) /\ s[m + 2] = "n"
    BY <1>0, <1>6, <1>1 DEF CrIsCrLf
  <2>3. EolStep(s, m) = m + 2 /\ m + 2 # m /\ m + 2 \in i + 1 .. Len(s)
    BY <1>0, <1>1, <1>6, <2>2 DEF EolStep
  <2>4. f \in i + 1 .. Len(s) /\ s[f] = "n" /\ \A j \in i + 1 .. f - 1 : s[j] # "n"
    BY <1>2, <2>2, <2>3
  <2>5. ~ (f \in i + 1 .. m) /\ f # m + 1 /\ ~ (m + 2 \in i + 1 .. f - 1)
    BY <1>3, <1>6, <2>2, <2>4
  <2>6. f = m + 2
    BY <2>3, <2>4, <2>5, <1>0, <1>1
  <2> QED BY <1>1, <2>3, <2>6 DEF m, f
<1>7. m = Len(s) \/ (m < Len(s) /\ s[m + 1] = "n") \/ (m < Len(s) /\ s[m + 1] = "r")
  <2>1. m = Len(s) \/ m < Len(s)
    <3>1. Len(s) \in Nat
      BY <1>0
    <3> QED BY <3>1, <1>8
  <2> QED BY <2>1, <1>1 DEF CrNl
<1> QED BY <1>4, <1>5, <1>6, <1>7

\* A line ending after a stretch without any.
LEMMA EolAfter ==
    ASSUME NEW s \in Inputs, NEW p \in Nat, NEW m \in p .. Len(s), m \in Bounds(s),
           \A j \in p + 1 .. m : s[j] \notin CrNl
    PROVE  Eol(s, Places(s, p, m)) = IF EolStep(s, m) = m THEN {} ELSE {EolStep(s, m)}
<1>0. Len(s) \in Nat /\ m \in Places(s, p, m) /\ Places(s, p, m) \in SUBSET (0 .. Len(s))
  BY DEF Inputs, Places
<1>1. \A q \in Places(s, p, m) : q # m => EolStep(s, q) = q
  <2> TAKE q \in Places(s, p, m)
  <2>1. HAVE q # m
  <2> QED BY <1>0, <2>1 DEF EolStep, CrNl, Places
<1> QED BY <1>0, <1>1, EolAt

\* The same, repeated: as far as a scan over line endings gets.
LEMMA EolPlusAfter ==
    ASSUME NEW s \in Inputs, NEW p \in Nat, NEW m \in p .. Len(s), m \in Bounds(s),
           \A j \in p + 1 .. m : s[j] \notin CrNl
    PROVE  /\ EolStep(s, m) = m => Longest(EolPlus(s, Places(s, p, m))) = 0 /\ EolsEnd(s, m) = m
           /\ EolStep(s, m) # m => /\ Longest(EolPlus(s, Places(s, p, m))) = EolsEnd(s, m)
                                /\ Longest(EolPlus(s, Places(s, p, m))) = EolsEnd(s, EolStep(s, m))
                                /\ EolsEnd(s, m) > m
<1>0. Len(s) \in Nat /\ m \in 0 .. Len(s) /\ Places(s, p, m) \in SUBSET (0 .. Len(s)) /\ m \in m .. Len(s)
  BY DEF Inputs, Places
<1> DEFINE x == EolStep(s, m)
<1>1. Eol(s, Places(s, p, m)) = IF x = m THEN {} ELSE {x}
  BY EolAfter
<1>2. x \in m .. Len(s) /\ m <= x
  BY <1>0, StepType
<1>3. PICK g : g[m] = EolsEnd(s, m) /\ LeadsOn(s, m, g)
  BY <1>0, EolsEndIs
<1>4. g[m] = IF x = m THEN m ELSE g[x]
  BY <1>0, <1>3 DEF LeadsOn
<1> HIDE DEF x
<1>5. CASE x = m
  <2>1. Longest(EolPlus(s, Places(s, p, m))) = 0
    BY <1>0, <1>1, <1>5, EolPlusNone, LongestOf
  <2> QED BY <1>3, <1>4, <1>5, <2>1 DEF x
<1>6. CASE x # m
  <2>1. g[x] \in Nat /\ g[x] >= x /\ Longest(EolPlus(s, Places(s, p, m))) = g[x]
    <3>1. Eol(s, Places(s, p, m)) = {x}
      BY <1>1, <1>6
    <3>2. Places(s, p, m) \in SUBSET (0 .. Len(s)) /\ m \in 0 .. Len(s) /\ m <= x /\ LeadsOn(s, m, g)
      BY <1>0, <1>2, <1>3
    <3> QED BY <3>1, <3>2, EolPlusIs
  <2>2. x \in 0 .. Len(s) /\ x <= x /\ m < x
    BY <1>0, <1>2, <1>6
  <2>3. PICK h : h[x] = EolsEnd(s, x) /\ LeadsOn(s, x, h)
    BY <2>2, EolsEndIs
  <2>4. Longest(EolPlus(s, Places(s, p, m))) = h[x]
    <3>1. Eol(s, Places(s, p, m)) = {x}
      BY <1>1, <1>6
    <3>2. Places(s, p, m) \in SUBSET (0 .. Len(s))
      BY <1>0
    <3> QED BY <3>1, <3>2, <2>2, <2>3, EolPlusIs
  <2>5. g[x] > m
    BY <1>0, <2>1, <2>2
  <2> QED BY <1>3, <1>4, <1>6, <2>1, <2>3, <2>4, <2>5 DEF x
<1> QED BY <1>5, <1>6

\* The kinds whose fast path accepts a lone carriage return, as the expression
\* does.
LEMMA OptKinds ==
    ASSUME NEW s \in Inputs, s # <<>>
    PROVE  /\ Longest(Eol(s, {0})) = OptCrNl(s)
           /\ Longest(EolPlus(s, {0})) = EolsEnd(s, 0)
           /\ Longest(EolPlus(s, Line(s, {"s"}))) = AfterSpaces(s, EolsEnd(s, RunEnd(s, 0, {"s"})))
<1>0. Len(s) \in Nat /\ 0 < Len(s) /\ 0 \in 0 .. Len(s) /\ 0 \in Nat
  BY DEF Inputs
<1>1. \A j \in 0 + 1 .. 0 : s[j] \notin CrNl
  OBVIOUS
<1>6. 0 \in Bounds(s)
  BY BoundsAre
<1>5. {0} = Places(s, 0, 0)
  BY <1>6 DEF Places
<1>2. Longest(Eol(s, {0})) = OptCrNl(s)
  <2>1. Eol(s, {0}) = IF EolStep(s, 0) = 0 THEN {} ELSE {EolStep(s, 0)}
    <3>1. Eol(s, Places(s, 0, 0)) = IF EolStep(s, 0) = 0 THEN {} ELSE {EolStep(s, 0)}
      BY <1>0, <1>1, <1>6, EolAfter
    <3> QED BY <3>1, <1>5
  <2>2. EolStep(s, 0) = OptCrNl(s)
    BY <1>0 DEF EolStep, OptCrNl
  <2>3. EolStep(s, 0) \in Nat
    BY <1>0, StepType
  <2> QED BY <2>1, <2>2, <2>3, LongestOf
<1>3. Longest(EolPlus(s, {0})) = EolsEnd(s, 0)
  <2>1. /\ EolStep(s, 0) = 0 => Longest(EolPlus(s, Places(s, 0, 0))) = 0 /\ EolsEnd(s, 0) = 0
        /\ EolStep(s, 0) # 0 => Longest(EolPlus(s, Places(s, 0, 0))) = EolsEnd(s, 0)
    BY <1>0, <1>1, <1>6, EolPlusAfter
  <2>2. Longest(EolPlus(s, Places(s, 0, 0))) = EolsEnd(s, 0)
    BY <2>1
  <2> QED BY <2>2, <1>5
<1>4. Longest(EolPlus(s, Line(s, {"s"}))) = AfterSpaces(s, EolsEnd(s, RunEnd(s, 0, {"s"})))
  <2> DEFINE m == RunEnd(s, 0, {"s"})
  <2>1. m \in 0 .. Len(s) /\ \A j \in 0 + 1 .. m : s[j] \in {"s"}
    BY <1>0, RunEndIs
  <2>2. Line(s, {"s"}) = Places(s, 0, m)
    BY <1>0, StarIs DEF Line
  <2>5. m \in Bounds(s)
    <3>1. Ascii({"s"})
      BY DEF Ascii
    <3> QED BY <3>1, BoundsAre, AsciiIs, RunEndBound
  <2>3. AfterSpaces(s, EolsEnd(s, m)) = IF EolsEnd(s, m) > m THEN EolsEnd(s, m) ELSE 0
    BY DEF AfterSpaces
  <2> HIDE DEF m
  <2>4. \A j \in 0 + 1 .. m : s[j] \notin CrNl
    BY <2>1 DEF CrNl
  <2> QED BY <2>1, <2>2, <2>3, <1>0, <2>4, <2>5, EolPlusAfter DEF m
<1> QED BY <1>2, <1>3, <1>4

\* The kinds that need every carriage return to be followed by a newline.
LEMMA CrSafeKinds ==
    ASSUME NEW s \in Inputs, s # <<>>, CrIsCrLf(s), NEW C, Ascii(C)
    PROVE  /\ Longest(Eol(s, Line(s, NotIn(CrNl)))) = To(s, Nl, 0)
           /\ Longest(Eol(s, Line1(s, NotIn(CrNl)))) = ToOptCrNlPlus(s)
           /\ Longest(Eol(s, Lead(s, C))) = CommentEnd(s, C, Nl)
           /\ Longest(EolPlus(s, Lead(s, C))) =
                IF CommentEnd(s, C, Nl) = 0 THEN 0 ELSE EolsEnd(s, CommentEnd(s, C, Nl))
<1>0. Len(s) \in Nat /\ 0 < Len(s) /\ 0 \in 0 .. Len(s) /\ 1 \in 0 .. Len(s)
  BY DEF Inputs
<1>3. WholeIn(s, NotIn(CrNl))
  <2>1. Ascii(CrNl)
    BY DEF Ascii, CrNl
  <2> QED BY <2>1, AsciiIs
<1>1. /\ Longest(Eol(s, Line(s, NotIn(CrNl)))) = To(s, Nl, 0)
      /\ Longest(Eol(s, Line1(s, NotIn(CrNl)))) = ToOptCrNlPlus(s)
  <2> DEFINE m == RunEnd(s, 0, NotIn(CrNl))
             x == EolStep(s, m)
  <2>1. /\ m \in 0 .. Len(s) /\ \A j \in 0 + 1 .. m : s[j] \notin CrNl
        /\ First(s, 0 + 1, Nl) = IF x = m THEN 0 ELSE x
    BY <1>0, FirstNewline
  <2>2. Line(s, NotIn(CrNl)) = Places(s, 0, m) /\ Line1(s, NotIn(CrNl)) = Places(s, 1, m)
    BY <1>0, <1>3, StarIs, Line1Is DEF Line
  <2>3. x \in m .. Len(s) /\ x - m \in 0 .. 2
    BY <2>1, StepType
  <2>4. x = m + 2 => s[m + 1] = "r"
    BY <2>1 DEF EolStep
  <2>10. m \in Bounds(s)
    BY <1>3, BoundsAre, RunEndBound
  <2> HIDE DEF m, x
  <2>6. First(s, 1, Nl) = IF x = m THEN 0 ELSE x
    BY <2>1
  <2>7. Eol(s, Places(s, 0, m)) = IF x = m THEN {} ELSE {x}
    BY <1>0, <2>1, <2>10, EolAfter DEF x
  <2>8. Longest(Eol(s, Places(s, 0, m))) = To(s, Nl, 0)
    BY <1>0, <2>1, <2>3, <2>6, <2>7, LongestOf DEF To
  <2>9. Longest(Eol(s, Places(s, 1, m))) = ToOptCrNlPlus(s)
    <3>1. CASE m = 0
      <4>1. Places(s, 1, m) = {}
        BY <3>1 DEF Places
      <4>3. Longest(Eol(s, Places(s, 1, m))) = 0
        BY <4>1, EolIs, LongestOf
      <4>4. x = 0 \/ x = 1 \/ x = 2
        BY <3>1, <2>3
      <4>5. x = 2 => s[1] = "r"
        BY <3>1, <2>4
      <4>6. ToOptCrNlPlus(s) = 0
        BY <3>1, <4>4, <4>5, <2>6 DEF ToOptCrNlPlus
      <4> QED BY <4>3, <4>6
    <3>2. CASE m # 0
      <4>1. m \in 1 .. Len(s) /\ 1 \in Nat /\ (\A j \in 1 + 1 .. m : s[j] \notin CrNl) /\ s[m] \notin CrNl
        BY <3>2, <2>1, <1>0
      <4>2. Eol(s, Places(s, 1, m)) = IF x = m THEN {} ELSE {x}
        BY <4>1, <2>10, EolAfter DEF x
      <4>3. Longest(Eol(s, Places(s, 1, m))) = IF x = m THEN 0 ELSE x
        <5>1. x \in Nat
          BY <4>1, <2>3
        <5> QED BY <4>2, <5>1, LongestOf
      <4>4. x = m \/ x = m + 1 \/ x = m + 2
        BY <2>3, <4>1
      <4>5. CASE x = m
        BY <4>3, <4>5, <2>6 DEF ToOptCrNlPlus
      <4>6. CASE x = m + 1
        <5>1. x # m /\ x > 1 /\ x - 1 = m /\ x > 0 /\ m >= 1 /\ s[m] # "r"
          BY <4>1, <4>6 DEF CrNl
        <5> QED BY <5>1, <4>3, <2>6 DEF ToOptCrNlPlus
      <4>7. CASE x = m + 2
        <5>1. x # m /\ x > 1 /\ x - 1 = m + 1 /\ x - 2 = m /\ x > 0 /\ m >= 1 /\ s[m + 1] = "r"
          BY <4>1, <4>7, <2>4
        <5> QED BY <5>1, <4>3, <2>6 DEF ToOptCrNlPlus
      <4> QED BY <4>4, <4>5, <4>6, <4>7
    <3> QED BY <3>1, <3>2
  <2> QED BY <2>2, <2>8, <2>9
<1>2. /\ Longest(Eol(s, Lead(s, C))) = CommentEnd(s, C, Nl)
      /\ Longest(EolPlus(s, Lead(s, C))) =
           IF CommentEnd(s, C, Nl) = 0 THEN 0 ELSE EolsEnd(s, CommentEnd(s, C, Nl))
  <2> DEFINE m == RunEnd(s, 1, NotIn(CrNl))
             x == EolStep(s, m)
  <2>1. /\ m \in 1 .. Len(s) /\ \A j \in 1 + 1 .. m : s[j] \notin CrNl
        /\ First(s, 1 + 1, Nl) = IF x = m THEN 0 ELSE x
    BY <1>0, FirstNewline
  <2>2. Lead(s, C) = IF s[1] \in C THEN Places(s, 1, m) ELSE {}
    BY LeadIs
  <2>3. x \in m .. Len(s)
    BY <2>1, StepType
  <2>8. s[1] \in C => m \in Bounds(s)
    <3>1. s[1] \in C => 1 \in Bounds(s)
      BY <1>0, BoundsAre DEF Ascii
    <3> QED BY <3>1, <1>3, RunEndBound
  <2>4. s[1] \in C =>
        /\ Eol(s, Places(s, 1, m)) = IF x = m THEN {} ELSE {x}
        /\ x = m => Longest(EolPlus(s, Places(s, 1, m))) = 0
        /\ x # m => Longest(EolPlus(s, Places(s, 1, m))) = EolsEnd(s, x)
    <3>1. HAVE s[1] \in C
    <3>2. Eol(s, Places(s, 1, m)) = IF x = m THEN {} ELSE {x}
      BY <2>1, <2>8, <3>1, EolAfter
    <3> QED BY <3>1, <3>2, <2>1, <2>8, EolPlusAfter
  <2> HIDE DEF m, x
  <2>5. x \in Nat /\ x # 0
    BY <1>0, <2>1, <2>3
  <2>6. CASE s[1] \in C
    <3>1. CommentEnd(s, C, Nl) = IF x = m THEN 0 ELSE x
      BY <2>1, <2>6 DEF CommentEnd
    <3>2. Longest(Eol(s, Places(s, 1, m))) = IF x = m THEN 0 ELSE x
      BY <2>4, <2>5, <2>6, LongestOf
    <3> QED BY <3>1, <3>2, <2>2, <2>4, <2>5, <2>6
  <2>7. CASE s[1] \notin C
    <3>1. Eol(s, {}) = {}
      BY EolIs
    <3>2. EolPlus(s, {}) = {}
      BY <3>1, EolPlusNone
    <3> QED BY <3>1, <3>2, <2>2, <2>7, LongestOf DEF CommentEnd
  <2> QED BY <2>6, <2>7
<1> QED BY <1>1, <1>2

\* An expression finds at most the empty match in an empty text.
LEMMA NothingToSkip ==
    ASSUME NEW k \in Kinds
    PROVE  Longest(Ends(k, <<>>)) = 0
<1> DEFINE s == <<>>
<1>1. Len(s) = 0
  OBVIOUS
<1> HIDE DEF s
<1>2. \A P \in SUBSET {0} : \A C : Then(s, P, C) = {}
  BY <1>1 DEF Then
<1>3. \A P, C : Star(s, P, C) \in SUBSET {0} /\ Star(s, {}, C) = {}
  BY <1>1 DEF Star, Bounds
<1>4. \A P \in SUBSET {0} : \A C : Plus(s, P, C) = {}
  BY <1>2, <1>3 DEF Plus
<1>5. \A P \in SUBSET {0} : Eol(s, P) = {} /\ EolPlus(s, P) = {}
  <2> TAKE P \in SUBSET {0}
  <2>2. EolPlus(s, P) = {}
    BY <1>1 DEF EolPlus
  <2> QED BY <1>2, <2>2 DEF Eol, Perhaps
<1>6. \A C : Line(s, C) \in SUBSET {0} /\ Line1(s, C) = {} /\ Lead(s, C) = {} /\ Then(s, {0}, C) = {}
  BY <1>2, <1>3, <1>4 DEF Line, Line1, Lead
<1>7. {0} \in SUBSET {0} /\ {} \in SUBSET {0}
  OBVIOUS
<1>8. Ends(k, s) \in SUBSET {0}
  BY <1>2, <1>4, <1>5, <1>6, <1>7 DEF Ends, Kinds, Unicode, CrSafe
<1>9. Ends(k, s) = {} \/ Ends(k, s) = {0}
  BY <1>8
<1>10. Longest(Ends(k, s)) = 0
  <2>1. Longest({}) = 0 /\ Longest({0}) = 0
    BY LongestOf
  <2>2. CASE Ends(k, s) = {}
    BY <2>1, <2>2
  <2>3. CASE Ends(k, s) = {0}
    BY <2>1, <2>3
  <2> QED BY <1>9, <2>2, <2>3
<1> QED BY <1>10 DEF s

-----------------------------------------------------------------------------
(* The fast path is the expression                                         *)

\* On every UTF-8 text that is ordinary for a kind, of any length, the scan for
\* bytes of that kind consumes exactly the characters that its regular expression
\* matches (eval_skip tries the one instead of the other).  A text that starts with
\* a character that is not ASCII is not ordinary for the two kinds that take one
\* byte: they do cut it.
THEOREM FastEqualsRegex ==
    ASSUME NEW s \in Seq(Char), Utf8(s), NEW k \in Kinds, Ordinary(k, s)
    PROVE  Fast(k, s) = Regex(k, s)
<1>0. Regex(k, s) = Longest(Ends(k, s)) /\ s \in Inputs
  BY DEF Regex, Longest, Inputs
<1>1. CASE s = <<>>
  BY <1>0, <1>1, NothingToSkip DEF Fast
<1>2. CASE s # <<>>
  <2>1. Fast(k, s) = ByKind(k, s)
    BY <1>2 DEF Fast
  <2>3. DOMAIN s = 1 .. Len(s) /\ 1 \in 1 .. Len(s) /\ \A j \in 1 .. Len(s) : s[j] \in Char
    BY <1>2
  <2>4. /\ Ascii(Nl) /\ Ascii(CrNl) /\ Ascii({"d"}) /\ Ascii(AsciiWord) /\ Ascii(Blank) /\ Ascii(Space)
        /\ Ascii({"b", "h"}) /\ Ascii({"h"})
    BY DEF Ascii, Nl, CrNl, AsciiWord, Blank, Space, AsciiSpace
  <2>5. CASE k \in {"SkipToNewline", "SkipToNewlinePlus", "DotStarNewline", "SkipToCrLf", "SkipToCrLfPlus"}
    <3>1. Longest(Ends(k, s)) = ByKind(k, s)
      BY <2>5, <2>4, <1>0, ToKinds DEF Ends, ByKind
    <3> QED BY <3>1, <2>1, <1>0
  <2>6. CASE k \in {"HorizWhitespace", "CrLfPlus", "NonCrLfPlus", "NonCrLfStar", "Digits", "WordChars"}
    <3>1. Longest(Ends(k, s)) = ByKind(k, s)
      BY <2>6, <2>4, <1>0, AsciiIs, RunKinds DEF Ends, ByKind
    <3> QED BY <3>1, <2>1, <1>0
  <2>7. CASE k \in {"Whitespace", "NonWhitespace"}
    <3>2. \A j \in 1 .. Len(s) : s[j] \in Space <=> s[j] \in AsciiSpace
      BY <2>3, <2>7 DEF Space, Ordinary, Unicode
    <3>3. \A j \in 1 .. Len(s) : s[j] \in NotIn(Space) <=> s[j] \in NotIn(AsciiSpace)
      BY <3>2 DEF NotIn
    <3>4. Longest(Line1(s, Space)) = RunEnd(s, 0, AsciiSpace)
      BY <1>0, <2>4, <3>2, AsciiIs, RunKinds
    <3>5. Longest(Line1(s, NotIn(Space))) = RunEnd(s, 0, NotIn(AsciiSpace))
      BY <1>0, <2>4, <3>2, <3>3, AsciiIs, RunKinds
    <3>6. Longest(Ends(k, s)) = ByKind(k, s)
      BY <2>7, <3>4, <3>5 DEF Ends, ByKind
    <3> QED BY <3>6, <2>1, <1>0
  <2>8. CASE k \in {"CrLf", "NonCrLf", "Newline"}
    <3>2. s[1] # "c" /\ (k = "NonCrLf" => s[1] # "u")
      BY <1>2, <2>3 DEF Utf8, Ordinary, OneByte
    <3>1. Longest(Ends(k, s)) = ByKind(k, s)
      BY <2>8, <2>4, <3>2, <1>0, <1>2, OneKinds DEF Ends, ByKind, Ascii
    <3> QED BY <3>1, <2>1, <1>0
  <2>9. CASE k = "Dot"
    <3>1. s[1] \in NotIn(Nl) /\ s[1] \notin {"u", "c"}
      BY <1>2, <2>3, <2>9 DEF Ordinary, OneByte, Utf8, NotIn, Nl
    <3>2. Longest(Ends(k, s)) = One(s, NotIn(Nl))
      BY <2>9, <3>1, <1>0, <1>2, OneKinds DEF Ends
    <3>3. ByKind(k, s) = 1
      BY <2>9 DEF ByKind
    <3> QED BY <3>1, <3>2, <3>3, <2>1, <1>0 DEF One
  <2>10. CASE k = "SpacesNewlines"
    <3>1. Longest(Ends(k, s)) = ByKind(k, s)
      BY <2>10, <1>0, SpacesNewlinesKind DEF Ends, ByKind
    <3> QED BY <3>1, <2>1, <1>0
  <2>11. CASE k \in {"CommentBangHash", "CommentHashPlus"}
    <3>1. CrNl # Nl
      <4>1. "r" \in CrNl /\ "r" \notin Nl
        BY DEF CrNl, Nl
      <4> QED BY <4>1
    <3>2. Longest(Ends(k, s)) = ByKind(k, s)
      BY <2>11, <2>4, <3>1, <1>0, <1>2, CommentKinds DEF Ends, ByKind, HashComment
    <3> QED BY <3>2, <2>1, <1>0
  <2>12. CASE k \in {"OptCrNl", "OptCrNlPlus", "SpacesOptCrNlPlus"}
    <3>1. Longest(Ends(k, s)) = ByKind(k, s)
      BY <2>12, <1>0, <1>2, OptKinds DEF Ends, ByKind
    <3> QED BY <3>1, <2>1, <1>0
  <2>13. CASE k \in CrSafe
    <3>1. CrIsCrLf(s)
      BY <2>13 DEF Ordinary
    <3>2. Longest(Ends(k, s)) = ByKind(k, s)
      BY <2>13, <2>4, <3>1, <1>0, <1>2, CrSafeKinds DEF Ends, ByKind, HashComment, CrSafe
    <3> QED BY <3>2, <2>1, <1>0
  <2> QED BY <2>5, <2>6, <2>7, <2>8, <2>9, <2>10, <2>11, <2>12, <2>13 DEF Kinds, Unicode
<1> QED BY <1>1, <1>2

-----------------------------------------------------------------------------
(* Recursive functions                                                     *)

\* It defines a function.
LEMMA Unfolds ==
    ASSUME NEW D, NEW n, NEW V, NEW M, NEW Stop, NEW J, NEW B, NEW H,
           Recursion(D, n, V, M, Stop, J, B, H)
    PROVE  \E g \in [D -> V] : \A x \in D : g[x] = IF x \in Stop THEN B[x] ELSE H[<<x, g[J[x]]>>]
<1> DEFINE Body(g, x) == IF x \in Stop THEN B[x] ELSE H[<<x, g[J[x]]>>]
           Far(m) == {x \in D : M[x] >= m}
           Is(g, m) == g \in [Far(m) -> V] /\ \A x \in Far(m) : g[x] = Body(g, x)
           T == {m \in 0 .. n : \E g : Is(g, m)}
<1>n. n \in Nat /\ M \in [D -> 0 .. n]
  BY DEF Recursion
<1>b. \A x \in D : x \in Stop => B[x] \in V
  BY DEF Recursion
<1>l. \A x \in D : x \notin Stop => J[x] \in D /\ M[J[x]] > M[x]
  BY DEF Recursion
<1>1. n \in T
  <2> DEFINE g == [x \in Far(n) |-> B[x]]
  <2>1. \A x \in Far(n) : x \in D /\ x \in Stop
    <3> TAKE x \in Far(n)
    <3> QED BY <1>n, <1>l
  <2>2. g \in [Far(n) -> V] /\ \A x \in Far(n) : g[x] = B[x]
    BY <2>1, <1>b
  <2> HIDE DEF g
  <2>3. Is(g, n)
    BY <2>1, <2>2
  <2> HIDE DEF Body, Far
  <2> QED BY <2>3, <1>n
<1>2. PICK m \in T : \A k \in T : m <= k
  <2>1. T \in SUBSET Nat
    BY <1>n
  <2> HIDE DEF T
  <2> QED BY <1>1, <2>1, Smallest
<1>3. PICK g : Is(g, m)
  BY <1>2
<1>4. m = 0
  <2>1. SUFFICES ASSUME m # 0 PROVE FALSE
    OBVIOUS
  <2>2. m - 1 \in 0 .. n /\ m \in 0 .. n
    BY <2>1, <1>2, <1>n
  <2> DEFINE h == [x \in Far(m - 1) |-> Body(g, x)]
  <2>3. ASSUME NEW x \in Far(m - 1), x \notin Stop PROVE J[x] \in Far(m)
    BY <2>3, <1>n, <1>l, <2>2
  <2>4. ASSUME NEW x \in Far(m - 1) PROVE Body(g, x) \in V
    <3>1. CASE x \in Stop
      BY <3>1, <1>b
    <3>2. CASE x \notin Stop
      <4>1. g[J[x]] \in V /\ x \in D
        BY <3>2, <2>3, <1>3
      <4>3. H[<<x, g[J[x]]>>] \in V
        BY <3>2, <4>1 DEF Recursion
      <4> QED BY <3>2, <4>3
    <3> QED BY <3>1, <3>2
  <2>5. h \in [Far(m - 1) -> V]
    <3> HIDE DEF Body, Far
    <3> QED BY <2>4
  <2>6. \A x \in Far(m) : x \in Far(m - 1)
    BY <2>2, <1>n
  <2>7. ASSUME NEW x \in Far(m - 1) PROVE h[x] = Body(h, x)
    <3>1. h[x] = Body(g, x)
      <4> HIDE DEF Body, Far
      <4> QED OBVIOUS
    <3>2. x \notin Stop => h[J[x]] = g[J[x]]
      <4> HIDE DEF Body, Far
      <4> QED BY <2>3, <2>6, <1>3
    <3> HIDE DEF h, Far
    <3> QED BY <3>1, <3>2
  <2> HIDE DEF h, Body, Far
  <2>8. m - 1 \in T
    BY <2>2, <2>5, <2>7
  <2> HIDE DEF T
  <2> QED BY <2>8, <1>2, <2>2
<1>5. Far(0) = D
  BY <1>n
<1>6. g \in [D -> V] /\ \A x \in D : g[x] = Body(g, x)
  <2> HIDE DEF Body, Far
  <2> QED BY <1>3, <1>4, <1>5
<1> QED BY <1>6

\* Induction along a measure: what holds wherever it holds at every place nearer
\* to the end holds everywhere.
LEMMA Descent ==
    ASSUME NEW D, NEW n \in Nat, NEW M \in [D -> 0 .. n], NEW Good,
           \A x \in D : (\A y \in D : M[y] > M[x] => y \in Good) => x \in Good
    PROVE  \A x \in D : x \in Good
<1>1. SUFFICES ASSUME NEW z \in D, z \notin Good PROVE FALSE
  OBVIOUS
<1> DEFINE T == {M[x] : x \in {y \in D : y \notin Good}}
<1>2. M[z] \in T /\ T \in SUBSET (0 .. n)
  BY <1>1
<1>3. PICK m \in T : \A k \in T : k <= m
  <2> HIDE DEF T
  <2> QED BY <1>2, Largest
<1>4. PICK x \in D : x \notin Good /\ m = M[x]
  BY <1>3
<1>5. \A y \in D : M[y] > M[x] => y \in Good
  <2>1. \A y \in D : y \notin Good => M[y] \in T /\ M[y] \in 0 .. n
    OBVIOUS
  <2>2. M[x] \in 0 .. n
    OBVIOUS
  <2> HIDE DEF T
  <2> QED BY <1>3, <1>4, <2>1, <2>2
<1> QED BY <1>4, <1>5

\* Every iteration has its sequence of values.
LEMMA Iterates ==
    ASSUME NEW n, NEW V, NEW b, NEW H, Iteration(n, V, b, H)
    PROVE  \E g : Iterated(g, n, V, b, H)
<1> DEFINE D == 0 .. n
           M == [i \in D |-> n - i]
           Stop == {0}
           J == [i \in D |-> i - 1]
           B == [i \in D |-> b]
<1>0. n \in Nat /\ b \in V /\ \A i \in 1 .. n : \A v \in V : H[<<i, v>>] \in V
  BY DEF Iteration
<1>1. PICK g \in [D -> V] : \A x \in D : g[x] = IF x \in Stop THEN B[x] ELSE H[<<x, g[J[x]]>>]
  <2>1. M \in [D -> 0 .. n] /\ \A x \in D : x \in Stop => B[x] \in V
    BY <1>0
  <2>2. \A x \in D : x \notin Stop => x \in 1 .. n /\ J[x] \in D /\ M[J[x]] > M[x]
    BY <1>0
  <2> HIDE DEF D, M, Stop, J, B
  <2>3. Recursion(D, n, V, M, Stop, J, B, H)
    BY <1>0, <2>1, <2>2 DEF Recursion
  <2> QED BY <2>3, Unfolds
<1>2. 0 \in D /\ 0 \in Stop /\ B[0] = b
  BY <1>0
<1>3. \A i \in 1 .. n : i \in D /\ i \notin Stop /\ J[i] = i - 1
  BY <1>0
<1> HIDE DEF D, Stop, J, B
<1>4. g[0] = b /\ \A i \in 1 .. n : g[i] = H[<<i, g[i - 1]>>]
  BY <1>1, <1>2, <1>3
<1> QED BY <1>1, <1>4 DEF D, Iterated

\* Induction upwards from 0.
LEMMA Ascent ==
    ASSUME NEW n \in Nat, NEW Good, 0 \in Good, \A i \in 1 .. n : i - 1 \in Good => i \in Good
    PROVE  \A i \in 0 .. n : i \in Good
<1>1. SUFFICES ASSUME NEW z \in 0 .. n, z \notin Good PROVE FALSE
  OBVIOUS
<1> DEFINE T == {i \in 0 .. n : i \notin Good}
<1>2. T \in SUBSET Nat /\ z \in T
  BY <1>1
<1>3. PICK m \in T : \A k \in T : m <= k
  <2> HIDE DEF T
  <2> QED BY <1>2, Smallest
<1>4. m \in 0 .. n /\ m \notin Good /\ m # 0
  BY <1>3
<1> QED BY <1>3, <1>4

-----------------------------------------------------------------------------
(* The parser                                                              *)

\* Where a parse ends and what it returns.
LEMMA ParsedIs ==
    ASSUME NEW t, NEW i, NEW S, NEW r \in Parsed(t, i, S), r.ok
    PROVE  r.at \in i .. Len(t) + 1 /\ r.val \in S
<1>3. r # Fail
  BY DEF Fail
<1> QED BY <1>3 DEF Parsed

\* A successful parse is one.
LEMMA OkIs ==
    ASSUME NEW t, NEW i, NEW S, NEW at \in i .. Len(t) + 1, NEW val \in S
    PROVE  Ok(at, val) \in Parsed(t, i, S) /\ Ok(at, val).ok /\ Ok(at, val).at = at /\ Ok(at, val).val = val
BY DEF Ok, Parsed

\* A failed parse is one as well.
LEMMA FailIs == \A t, i, S : Fail \in Parsed(t, i, S) /\ ~ Fail.ok
BY DEF Fail, Parsed

\* A token that has a kind is there.
LEMMA KindIs ==
    ASSUME NEW t \in Tokens, NEW i \in 1 .. Len(t) + 1
    PROVE  KindAt(t, i) # "nothing" => /\ i \in 1 .. Len(t) /\ i + 1 \in 1 .. Len(t) + 1
                                       /\ t[i] \in AnyToken /\ t[i].kind = KindAt(t, i)
<1>1. Len(t) \in Nat
  BY DEF Tokens
<1>2. CASE i <= Len(t)
  <2>1. t[i] \in AnyToken
    BY <1>1, <1>2 DEF Tokens
  <2> QED BY <1>1, <1>2, <2>1 DEF KindAt, AnyToken
<1>3. CASE ~ (i <= Len(t))
  BY <1>3 DEF KindAt
<1> QED BY <1>2, <1>3

\* After skips the tokens of some kinds.
LEMMA AfterIs ==
    ASSUME NEW t \in Tokens, NEW i \in 1 .. Len(t) + 1, NEW Ks, "nothing" \notin Ks
    PROVE  /\ After(t, i, Ks) \in i .. Len(t) + 1
           /\ \A k \in i .. After(t, i, Ks) - 1 : t[k].kind \in Ks
           /\ KindAt(t, After(t, i, Ks)) \notin Ks
<1> DEFINE n == Len(t)
           T == {j \in i .. n + 1 : KindAt(t, j) \notin Ks}
           Is(j) == (\A k \in i .. j - 1 : t[k].kind \in Ks) /\ KindAt(t, j) \notin Ks
<1>1. n \in Nat
  BY DEF Tokens
<1>2. n + 1 \in T /\ T \in SUBSET Nat
  BY <1>1 DEF KindAt
<1>3. PICK j \in T : \A k \in T : j <= k
  <2> HIDE DEF T
  <2> QED BY <1>2, Smallest
<1>4. \A k \in i .. j - 1 : t[k].kind \in Ks
  <2> TAKE k \in i .. j - 1
  <2>1. k \in i .. n + 1 /\ ~ (j <= k) /\ k <= Len(t)
    BY <1>1, <1>3
  <2>2. k \notin T
    <3> HIDE DEF T
    <3> QED BY <1>3, <2>1
  <2> QED BY <2>1, <2>2 DEF KindAt
<1>5. j \in i .. n + 1 /\ Is(j)
  BY <1>3, <1>4
<1>6. After(t, i, Ks) = CHOOSE e \in i .. n + 1 : Is(e)
  BY DEF After
<1> HIDE DEF Is
<1> QED BY <1>5, <1>6 DEF Is

\* Spaces are skipped within the text.
LEMMA AfterSpaceIs ==
    ASSUME NEW t \in Tokens, NEW i \in 1 .. Len(t) + 1
    PROVE  AfterSpace(t, i) \in i .. Len(t) + 1 /\ AfterSpace(t, i) \in 1 .. Len(t) + 1
BY AfterIs DEF AfterSpace, Tokens

\* A stretch of a text is a text.
LEMMA PartIs ==
    ASSUME NEW S, NEW s \in Seq(S), NEW a \in Nat \ {0}, NEW b \in 0 .. Len(s)
    PROVE  /\ SubSeq(s, a, b) \in Seq(S)
           /\ Len(SubSeq(s, a, b)) = IF a <= b THEN b - a + 1 ELSE 0
           /\ \A i \in 1 .. Len(SubSeq(s, a, b)) : SubSeq(s, a, b)[i] = s[a + i - 1]
OBVIOUS

\* What is left of a number without its leading zeros has none.
LEMMA CanonicalIs ==
    ASSUME NEW S, NEW s \in Seq(S)
    PROVE  Canonical(s) \in Seq(S) /\ Canonical(Canonical(s)) = Canonical(s)
<1> DEFINE n == Len(s)
           Zeros(u) == {i \in 1 .. Len(u) - 1 : \A j \in 1 .. i : u[j] = "0"}
           out == {j \in 1 .. n : j \notin Zeros(s)}
<1>1. n \in Nat /\ DOMAIN s = 1 .. n
  OBVIOUS
<1>2. \E k \in 0 .. n : Zeros(s) = 1 .. k /\ (k + 1 <= n - 1 => s[k + 1] # "0")
  <2>1. CASE n = 0
    <3>1. Zeros(s) = {} /\ 1 .. 0 = {} /\ 0 \in 0 .. n
      BY <2>1
    <3> HIDE DEF Zeros
    <3> QED BY <2>1, <3>1
  <2>2. CASE n # 0
    <3>1. n \in out /\ out \in SUBSET Nat
      BY <1>1, <2>2
    <3>2. PICK j \in out : \A i \in out : j <= i
      <4> HIDE DEF out
      <4> QED BY <3>1, Smallest
    <3>3. j \in 1 .. n /\ j \notin Zeros(s)
      BY <3>2
    <3>4. \A i \in 1 .. n : i < j => i \in Zeros(s)
      <4> TAKE i \in 1 .. n
      <4>1. i \notin Zeros(s) => i \in out
        <5> HIDE DEF Zeros
        <5> QED OBVIOUS
      <4> HIDE DEF out, Zeros
      <4> QED BY <3>2, <3>3, <4>1, <1>1
    <3>5. \A i \in Zeros(s) : i < j
      BY <3>3, <1>1
    <3>6. j <= n - 1 => s[j] # "0"
      <4>1. SUFFICES ASSUME j <= n - 1, s[j] = "0" PROVE FALSE
        OBVIOUS
      <4>2. \A i \in 1 .. j : s[i] = "0"
        <5> TAKE i \in 1 .. j
        <5> QED BY <4>1, <3>3, <3>4, <1>1
      <4> QED BY <3>3, <4>1, <4>2, <1>1
    <3>7. Zeros(s) = 1 .. j - 1
      <4>1. \A i \in Zeros(s) : i \in 1 .. n
        BY <1>1
      <4> HIDE DEF Zeros, n
      <4>2. \A i \in Zeros(s) : i \in 1 .. j - 1
        BY <3>3, <3>5, <4>1, <1>1
      <4>3. \A i \in 1 .. j - 1 : i \in 1 .. n /\ i < j
        BY <3>3, <1>1
      <4> QED BY <3>4, <4>2, <4>3
    <3> HIDE DEF Zeros, out
    <3> QED BY <3>6, <3>7, <3>3, <1>1
  <2> QED BY <2>1, <2>2
<1>3. PICK k \in 0 .. n : Zeros(s) = 1 .. k /\ (k + 1 <= n - 1 => s[k + 1] # "0")
  BY <1>2
<1>4. Cardinality(Zeros(s)) = k
  <2>1. 1 \in Int /\ k \in Int
    BY <1>1
  <2> HIDE DEF Zeros
  <2> QED BY <1>1, <1>3, <2>1, FS_Interval
<1> DEFINE u == SubSeq(s, k + 1, n)
<1>5. Canonical(s) = u
  BY <1>4 DEF Canonical
<1>6. u \in Seq(S) /\ Len(u) = n - k /\ \A i \in 1 .. Len(u) : u[i] = s[k + i]
  <2>2. /\ u \in Seq(S) /\ Len(u) = IF k + 1 <= n THEN n - (k + 1) + 1 ELSE 0
        /\ \A i \in 1 .. Len(u) : u[i] = s[(k + 1) + i - 1]
    BY <1>1, PartIs
  <2> HIDE DEF u, n
  <2>3. Len(u) = n - k
    BY <2>2, <1>1
  <2> QED BY <2>2, <2>3, <1>1
<1> HIDE DEF u
<1>7. Zeros(u) = {}
  <2>1. SUFFICES ASSUME NEW i \in Zeros(u) PROVE FALSE
    OBVIOUS
  <2>2. i \in 1 .. Len(u) - 1 /\ 1 \in 1 .. i
    BY <1>6
  <2> QED BY <2>1, <2>2, <1>6, <1>1, <1>3
<1>8. Canonical(u) = u
  <2>1. Cardinality(Zeros(u)) = 0
    BY <1>7, FS_EmptySet
  <2>2. Canonical(u) = SubSeq(u, 0 + 1, Len(u))
    BY <2>1 DEF Canonical
  <2> QED BY <2>2, <1>6
<1> QED BY <1>5, <1>6, <1>8

\* An expression is read from every token that can be one.
LEMMA ExprOfIs ==
    ASSUME NEW tok \in AnyToken, tok.kind \in ExprKinds
    PROVE  ExprOf(tok) \in AnyExpr
<1>1. tok.slice \in Seq(Symbol) /\ Len(tok.slice) \in Nat
  BY DEF AnyToken, Texts
<1>2. Unquoted(tok.slice) \in Seq(Symbol)
  <2>1. CASE Len(tok.slice) >= 2
    BY <2>1, <1>1, PartIs DEF Unquoted
  <2> QED BY <1>1, <2>1 DEF Unquoted
<1>3. CASE tok.kind \in {"String", "Regex"}
  BY <1>1, <1>2, <1>3 DEF ExprOf, AnyExpr, Texts, Expr
<1>4. CASE tok.kind = "Number"
  <2>1. tok.slice \in Seq(Digits)
    BY <1>4 DEF AnyToken
  <2>2. /\ Canonical(tok.slice) \in Seq(Symbol) /\ Canonical(tok.slice) \in Seq(Digits)
        /\ Canonical(Canonical(tok.slice)) = Canonical(tok.slice)
    BY <1>1, <2>1, CanonicalIs
  <2> QED BY <1>4, <2>2 DEF ExprOf, AnyExpr, Texts, Expr
<1>5. CASE tok.kind = "Capture"
  <2>1. tok.slice # <<>>
    BY <1>5 DEF AnyToken
  <2>2. Tail(tok.slice) \in Seq(Symbol)
    BY <1>1, <2>1, HeadTailProperties
  <2> QED BY <1>5, <2>2 DEF ExprOf, AnyExpr, Texts, Expr
<1>6. CASE tok.kind = "Identifier"
  BY <1>1, <1>6 DEF ExprOf, AnyExpr, Texts, Expr
<1> QED BY <1>3, <1>4, <1>5, <1>6 DEF ExprKinds

\* An expression is parsed, or the parse fails.
LEMMA ExpressionIs ==
    ASSUME NEW t \in Tokens, NEW i \in 1 .. Len(t) + 1
    PROVE  Expression(t, i) \in Parsed(t, i + 1, AnyExpr)
<1>1. Len(t) \in Nat
  BY DEF Tokens
<1>2. CASE KindAt(t, i) \in ExprKinds
  <2>2. ExprOf(t[i]) \in AnyExpr /\ i + 1 \in i + 1 .. Len(t) + 1
    BY <1>1, <1>2, KindIs, ExprOfIs DEF ExprKinds
  <2> QED BY <1>2, <2>2, OkIs DEF Expression
<1>3. CASE KindAt(t, i) \notin ExprKinds
  BY <1>3, FailIs DEF Expression
<1> QED BY <1>2, <1>3

\* A list with one more in front.
LEMMA PrependIs ==
    ASSUME NEW A, NEW S, NEW r \in Listed(A, S), NEW v \in S
    PROVE  /\ Prepend(v, r) \in Listed(A, S)
           /\ Prepend(v, r).ok /\ Prepend(v, r).at = r.at /\ Prepend(v, r).val = <<v>> \o r.val
<1>1. <<v>> \o r.val \in Seq(S)
  BY DEF Listed
<1> QED BY <1>1 DEF Prepend, Listed

\* The empty list.
LEMMA NothingListed ==
    \A A, S : \A at \in A : /\ Ok(at, <<>>) \in Listed(A, S)
                            /\ Ok(at, <<>>).ok /\ Ok(at, <<>>).at = at /\ Ok(at, <<>>).val = <<>>
BY DEF Ok, Listed

\* A list that ends later is a list.
LEMMA ListedLater ==
    ASSUME NEW A, NEW C, NEW S, A \subseteq C
    PROVE  Listed(A, S) \subseteq Listed(C, S)
BY DEF Listed

\* A list that has to have a member.
LEMMA NonemptyIs ==
    ASSUME NEW t, NEW i, NEW S, NEW r \in Listed(i .. Len(t) + 1, S)
    PROVE  Nonempty(r) \in Parsed(t, i, Seq(S) \ {<<>>})
BY FailIs DEF Nonempty, Listed, Parsed

\* A loop of the parser, which advances with each turn, is what its unfolding
\* says.
LEMMA LoopUnfolds ==
    ASSUME NEW D, NEW n, NEW M, NEW S, NEW Stop, NEW At1, NEW Item1, NEW Nxt,
           IsLoop(D, n, M, S, Stop, At1, Item1, Nxt)
    PROVE  \E g : g = [x \in D |-> g[x]] /\
                  \A x \in D : g[x] = IF x \in Stop THEN Ok(At1[x], <<>>) ELSE Prepend(Item1[x], g[Nxt[x]])
<1> DEFINE V == Listed(0 .. n, S)
           B == [x \in D |-> Ok(At1[x], <<>>)]
           H == [x \in D \X V |-> Prepend(Item1[x[1]], x[2])]
<1>1. n \in Nat /\ M \in [D -> 0 .. n] /\ \A x \in D : M[x] \in 0 .. n
  BY DEF IsLoop
<1>2. ASSUME NEW x \in D, x \in Stop PROVE B[x] \in V
  BY <1>1, <1>2, NothingListed DEF IsLoop
<1>3. \A x \in D : x \notin Stop => Nxt[x] \in D /\ M[Nxt[x]] > M[x]
  BY DEF IsLoop
<1>4. \A x \in D, v \in V : H[<<x, v>>] = Prepend(Item1[x], v)
  <2> HIDE DEF V
  <2> QED OBVIOUS
<1>5. \A x \in D : x \notin Stop => \A v \in V : H[<<x, v>>] \in V
  <2>1. \A x \in D : x \notin Stop => Item1[x] \in S
    BY DEF IsLoop
  <2> HIDE DEF H
  <2> QED BY <1>4, <2>1, PrependIs
<1> HIDE DEF V, B, H
<1>6. Recursion(D, n, V, M, Stop, Nxt, B, H)
  BY <1>1, <1>2, <1>3, <1>5 DEF Recursion
<1>7. PICK g \in [D -> V] : \A x \in D : g[x] = IF x \in Stop THEN B[x] ELSE H[<<x, g[Nxt[x]]>>]
  BY <1>6, Unfolds
<1>8. ASSUME NEW x \in D PROVE g[x] = IF x \in Stop THEN Ok(At1[x], <<>>) ELSE Prepend(Item1[x], g[Nxt[x]])
  BY <1>3, <1>7, <1>4 DEF B
<1> QED BY <1>8, <1>7

\* A loop of the parser returns a list.
LEMMA LoopIs ==
    ASSUME NEW D, NEW n, NEW M, NEW S, NEW Stop, NEW At1, NEW Item1, NEW Nxt,
           IsLoop(D, n, M, S, Stop, At1, Item1, Nxt),
           NEW g, \A x \in D : g[x] = IF x \in Stop THEN Ok(At1[x], <<>>) ELSE Prepend(Item1[x], g[Nxt[x]])
    PROVE  \A x \in D : g[x] \in Listed(M[x] .. n, S)
<1> DEFINE Good == {x \in D : g[x] \in Listed(M[x] .. n, S)}
<1>1. n \in Nat /\ M \in [D -> 0 .. n]
  BY DEF IsLoop
<1>2. ASSUME NEW x \in D, \A y \in D : M[y] > M[x] => y \in Good PROVE x \in Good
  <2>1. CASE x \in Stop
    BY <2>1, NothingListed DEF IsLoop
  <2>2. CASE x \notin Stop
    <3>1. Item1[x] \in S /\ Nxt[x] \in D /\ M[Nxt[x]] > M[x]
      BY <2>2 DEF IsLoop
    <3>2. g[Nxt[x]] \in Listed(M[Nxt[x]] .. n, S)
      BY <3>1, <1>2
    <3>3. M[Nxt[x]] .. n \subseteq M[x] .. n
      BY <3>1, <1>1
    <3>4. g[Nxt[x]] \in Listed(M[x] .. n, S)
      BY <3>2, <3>3, ListedLater
    <3>5. Prepend(Item1[x], g[Nxt[x]]) \in Listed(M[x] .. n, S)
      BY <3>1, <3>4, PrependIs
    <3> QED BY <3>5, <2>2
  <2> QED BY <2>1, <2>2
<1> HIDE DEF Good
<1>3. \A x \in D : x \in Good
  BY <1>1, <1>2, Descent
<1> QED BY <1>3 DEF Good

-----------------------------------------------------------------------------
(* Expressions and calls                                                   *)

\* The expression a token is.
LEMMA ExprAt ==
    ASSUME NEW t \in Tokens, NEW i \in 1 .. Len(t) + 1, KindAt(t, i) \in ExprKinds
    PROVE  ExprOf(t[i]) \in AnyExpr /\ i \in 1 .. Len(t) /\ i + 1 \in 1 .. Len(t) + 1
BY KindIs, ExprOfIs DEF ExprKinds

\* The loop over expressions, and what it returns.
LEMMA ExpressionsUnfold ==
    ASSUME NEW t \in Tokens
    PROVE  \E f : /\ \A j \in 1 .. Len(t) + 1 :
                       /\ f[j] = IF KindAt(t, AfterSpace(t, j)) \in ExprKinds
                                 THEN Prepend(ExprOf(t[AfterSpace(t, j)]), f[AfterSpace(t, j) + 1])
                                 ELSE Ok(AfterSpace(t, j), <<>>)
                       /\ f[j] \in Listed(j .. Len(t) + 1, AnyExpr)
                  /\ \A i : Expressions(t, i) = Nonempty(f[i])
<1> DEFINE n == Len(t) + 1
           P == 1 .. Len(t) + 1
           Body(f, j) == IF KindAt(t, AfterSpace(t, j)) \in ExprKinds
                         THEN Prepend(ExprOf(t[AfterSpace(t, j)]), f[AfterSpace(t, j) + 1])
                         ELSE Ok(AfterSpace(t, j), <<>>)
           M == [j \in P |-> j]
           Stop == {j \in P : KindAt(t, AfterSpace(t, j)) \notin ExprKinds}
           At1 == [j \in P |-> AfterSpace(t, j)]
           Item1 == [j \in P |-> ExprOf(t[AfterSpace(t, j)])]
           Nxt == [j \in P |-> AfterSpace(t, j) + 1]
           L == CHOOSE f : f = [j \in P |-> Body(f, j)]
<1>1. n \in Nat /\ M \in [P -> 0 .. n]
  BY DEF Tokens
<1>2. ASSUME NEW j \in P PROVE AfterSpace(t, j) \in M[j] .. n /\ AfterSpace(t, j) \in P
  BY AfterSpaceIs
<1>3. ASSUME NEW j \in P, j \notin Stop PROVE Item1[j] \in AnyExpr /\ Nxt[j] \in P /\ M[Nxt[j]] > M[j]
  <2>1. KindAt(t, AfterSpace(t, j)) \in ExprKinds
    BY <1>3
  <2> QED BY <2>1, <1>2, ExprAt, <1>1
<1>4. \A f : \A j \in P : Body(f, j) = IF j \in Stop THEN Ok(At1[j], <<>>) ELSE Prepend(Item1[j], f[Nxt[j]])
  OBVIOUS
<1>5. IsLoop(P, n, M, AnyExpr, Stop, At1, Item1, Nxt)
  <2>1. \A j \in P : j \in Stop => At1[j] \in M[j] .. n
    BY <1>2
  <2> HIDE DEF P, n, M, Stop, At1, Item1, Nxt
  <2> QED BY <2>1, <1>1, <1>3 DEF IsLoop
<1>6. \A i : Expressions(t, i) = Nonempty(L[i])
  BY DEF Expressions
<1>7. \A j \in P : M[j] = j
  OBVIOUS
<1> HIDE DEF P, n, M, Stop, At1, Item1, Nxt, Body
<1>9. L = [j \in P |-> Body(L, j)]
  <2>1. \E g : g = [j \in P |-> Body(g, j)]
    BY <1>4, <1>5, LoopUnfolds
  <2> QED BY <2>1
<1> HIDE DEF L
<1>10. \A j \in P : L[j] = Body(L, j)
  BY <1>9
<1>11. \A j \in P : L[j] \in Listed(M[j] .. n, AnyExpr)
  BY <1>4, <1>5, <1>10, LoopIs
<1> QED BY <1>6, <1>7, <1>10, <1>11 DEF Body, P, n

\* A list of expressions is parsed, or the parse fails.
LEMMA ExpressionsIs ==
    ASSUME NEW t \in Tokens, NEW i \in 1 .. Len(t) + 1
    PROVE  Expressions(t, i) \in Parsed(t, i, AnyList)
BY ExpressionsUnfold, NonemptyIs DEF AnyList

\* The arguments of a call, and what they are.
LEMMA ArgsUnfold ==
    ASSUME NEW t \in Tokens
    PROVE  \E f : /\ \A j \in 1 .. Len(t) + 1 :
                       /\ f[j] = IF KindAt(t, j) \in ExprKinds
                                 THEN Prepend(ExprOf(t[j]), f[IF KindAt(t, j + 1) = "Comma" THEN j + 2 ELSE j + 1])
                                 ELSE Ok(j, <<>>)
                       /\ f[j] \in Listed(j .. Len(t) + 1, AnyExpr)
                  /\ \A i : FunctionCall(t, i) =
                       IF KindAt(t, i) # "Identifier" THEN Fail
                       ELSE IF KindAt(t, i + 1) # "LeftParen" THEN Ok(i + 1, Call(t[i].slice, <<>>))
                       ELSE IF f[i + 2].ok
                       THEN IF KindAt(t, f[i + 2].at) = "RightParen"
                            THEN Ok(f[i + 2].at + 1, Call(t[i].slice, f[i + 2].val)) ELSE Fail
                       ELSE Fail
<1> DEFINE n == Len(t) + 1
           P == 1 .. Len(t) + 1
           Beside(j) == IF KindAt(t, j + 1) = "Comma" THEN j + 2 ELSE j + 1
           Body(f, j) == IF KindAt(t, j) \in ExprKinds
                         THEN Prepend(ExprOf(t[j]), f[IF KindAt(t, j + 1) = "Comma" THEN j + 2 ELSE j + 1])
                         ELSE Ok(j, <<>>)
           M == [j \in P |-> j]
           Stop == {j \in P : KindAt(t, j) \notin ExprKinds}
           At1 == [j \in P |-> j]
           Item1 == [j \in P |-> ExprOf(t[j])]
           Nxt == [j \in P |-> Beside(j)]
           L == CHOOSE f : f = [j \in P |-> Body(f, j)]
<1>1. n \in Nat /\ M \in [P -> 0 .. n]
  BY DEF Tokens
<1>2. \A j \in P : At1[j] \in M[j] .. n
  BY <1>1
<1>3. ASSUME NEW j \in P, j \notin Stop PROVE Item1[j] \in AnyExpr /\ Nxt[j] \in P /\ M[Nxt[j]] > M[j]
  <2>2. ExprOf(t[j]) \in AnyExpr /\ j + 1 \in P
    BY <1>3, ExprAt
  <2>3. KindAt(t, j + 1) = "Comma" => j + 2 \in P
    BY <2>2, KindIs, <1>1
  <2>4. Beside(j) \in P /\ Beside(j) > j
    BY <2>2, <2>3, <1>1
  <2> HIDE DEF Beside
  <2> QED BY <2>2, <2>4
<1>4. \A f : \A j \in P : Body(f, j) = IF j \in Stop THEN Ok(At1[j], <<>>) ELSE Prepend(Item1[j], f[Nxt[j]])
  OBVIOUS
<1>5. IsLoop(P, n, M, AnyExpr, Stop, At1, Item1, Nxt)
  <2> HIDE DEF P, n, M, Stop, At1, Item1, Nxt
  <2> QED BY <1>1, <1>2, <1>3 DEF IsLoop
<1>6. \A i : FunctionCall(t, i) =
                IF KindAt(t, i) # "Identifier" THEN Fail
                ELSE IF KindAt(t, i + 1) # "LeftParen" THEN Ok(i + 1, Call(t[i].slice, <<>>))
                ELSE IF L[i + 2].ok
                THEN IF KindAt(t, L[i + 2].at) = "RightParen"
                     THEN Ok(L[i + 2].at + 1, Call(t[i].slice, L[i + 2].val)) ELSE Fail
                ELSE Fail
  BY DEF FunctionCall, AndThen
<1>7. \A j \in P : M[j] = j
  OBVIOUS
<1> HIDE DEF P, n, M, Stop, At1, Item1, Nxt, Body
<1>9. L = [j \in P |-> Body(L, j)]
  <2>1. \E g : g = [j \in P |-> Body(g, j)]
    BY <1>4, <1>5, LoopUnfolds
  <2> QED BY <2>1
<1> HIDE DEF L
<1>10. \A j \in P : L[j] = Body(L, j)
  BY <1>9
<1>11. \A j \in P : L[j] \in Listed(M[j] .. n, AnyExpr)
  BY <1>4, <1>5, <1>10, LoopIs
<1> QED BY <1>6, <1>7, <1>10, <1>11 DEF Body, P, n

\* A call is parsed, or the parse fails.
LEMMA FunctionCallIs ==
    ASSUME NEW t \in Tokens, NEW i \in 1 .. Len(t) + 1
    PROVE  FunctionCall(t, i) \in Parsed(t, i + 1, AnyCall)
<1>1. PICK f : /\ \A j \in 1 .. Len(t) + 1 : f[j] \in Listed(j .. Len(t) + 1, AnyExpr)
               /\ FunctionCall(t, i) =
                       IF KindAt(t, i) # "Identifier" THEN Fail
                       ELSE IF KindAt(t, i + 1) # "LeftParen" THEN Ok(i + 1, Call(t[i].slice, <<>>))
                       ELSE IF f[i + 2].ok
                       THEN IF KindAt(t, f[i + 2].at) = "RightParen"
                            THEN Ok(f[i + 2].at + 1, Call(t[i].slice, f[i + 2].val)) ELSE Fail
                       ELSE Fail
  BY ArgsUnfold
<1>2. Len(t) \in Nat
  BY DEF Tokens
<1>3. CASE KindAt(t, i) # "Identifier"
  BY <1>1, <1>3, FailIs
<1>4. CASE KindAt(t, i) = "Identifier"
  <2>1. t[i] \in AnyToken /\ i + 1 \in 1 .. Len(t) + 1
    BY <1>4, KindIs
  <2>2. t[i].slice \in Texts
    BY <2>1 DEF AnyToken
  <2>3. CASE KindAt(t, i + 1) # "LeftParen"
    <3>1. Call(t[i].slice, <<>>) \in AnyCall /\ i + 1 \in i + 1 .. Len(t) + 1
      BY <2>1, <2>2 DEF Call, AnyCall
    <3>2. Ok(i + 1, Call(t[i].slice, <<>>)) \in Parsed(t, i + 1, AnyCall)
      BY <3>1, OkIs
    <3> QED BY <1>1, <1>4, <2>3, <3>2
  <2>4. CASE KindAt(t, i + 1) = "LeftParen"
    <3>2. i + 2 \in 1 .. Len(t) + 1
      BY <2>1, <2>4, KindIs
    <3> DEFINE r == f[i + 2]
    <3>4. r.ok /\ r.at \in i + 2 .. Len(t) + 1 /\ r.val \in Seq(AnyExpr)
      BY <3>2, <1>1 DEF Listed
    <3>5. Call(t[i].slice, r.val) \in AnyCall
      BY <2>2, <3>4 DEF Call, AnyCall
    <3>6. FunctionCall(t, i) = IF KindAt(t, r.at) = "RightParen"
                               THEN Ok(r.at + 1, Call(t[i].slice, r.val)) ELSE Fail
      BY <1>1, <1>4, <2>4, <3>4
    <3> HIDE DEF r
    <3>7. CASE KindAt(t, r.at) = "RightParen"
      <4>1. r.at \in 1 .. Len(t) + 1
        BY <3>4, <1>2
      <4>2. r.at + 1 \in 1 .. Len(t) + 1
        BY <4>1, <3>7, KindIs
      <4>3. r.at + 1 \in i + 1 .. Len(t) + 1
        BY <4>2, <3>4, <1>2
      <4> QED BY <4>3, <3>5, <3>6, <3>7, OkIs
    <3> QED BY <3>6, <3>7, FailIs
  <2> QED BY <2>3, <2>4
<1> QED BY <1>3, <1>4

\* The alternatives of a match, and what they are.
LEMMA AlternativesUnfold ==
    ASSUME NEW t \in Tokens
    PROVE  \E f : /\ \A j \in 1 .. Len(t) + 1 :
                       /\ f[j] = IF ~ Expressions(t, j).ok THEN Fail
                                 ELSE IF KindAt(t, AfterSpace(t, Expressions(t, j).at)) # "Pipe"
                                 THEN Ok(Expressions(t, j).at, <<Expressions(t, j).val>>)
                                 ELSE IF f[AfterSpace(t, Expressions(t, j).at) + 1].ok
                                 THEN Prepend(Expressions(t, j).val, f[AfterSpace(t, Expressions(t, j).at) + 1])
                                 ELSE Fail
                       /\ f[j] \in Parsed(t, j, Lists)
                  /\ \A i : Alternatives(t, i) = f[i]
<1> DEFINE n == Len(t) + 1
           P == 1 .. Len(t) + 1
           Ones(j) == Expressions(t, j)
           bar(j) == AfterSpace(t, Ones(j).at)
           V == Listed(P, AnyList) \cup {Fail}
           Body(f, j) == IF ~ Ones(j).ok THEN Fail
                         ELSE IF KindAt(t, bar(j)) # "Pipe" THEN Ok(Ones(j).at, <<Ones(j).val>>)
                         ELSE IF f[bar(j) + 1].ok THEN Prepend(Ones(j).val, f[bar(j) + 1]) ELSE Fail
           M == [j \in P |-> j]
           Stop == {j \in P : ~ Ones(j).ok \/ KindAt(t, bar(j)) # "Pipe"}
           J == [j \in P |-> bar(j) + 1]
           B == [j \in P |-> IF ~ Ones(j).ok THEN Fail ELSE Ok(Ones(j).at, <<Ones(j).val>>)]
           H == [x \in P \X V |-> IF x[2].ok THEN Prepend(Ones(x[1]).val, x[2]) ELSE Fail]
           L == CHOOSE f : f = [j \in P |-> Body(f, j)]
<1>1. n \in Nat /\ M \in [P -> 0 .. n]
  BY DEF Tokens
<1>2. ASSUME NEW j \in P, Ones(j).ok
      PROVE  /\ Ones(j).at \in j .. n /\ Ones(j).at \in P /\ Ones(j).val \in AnyList
             /\ bar(j) \in j .. n /\ bar(j) \in P
             /\ KindAt(t, bar(j)) = "Pipe" => bar(j) + 1 \in P
  <2>1. Ones(j).at \in j .. n /\ Ones(j).val \in AnyList
    BY <1>2, ExpressionsIs, ParsedIs
  <2>2. Ones(j).at \in P
    BY <2>1, <1>1
  <2> HIDE DEF Ones
  <2>3. bar(j) \in Ones(j).at .. n /\ bar(j) \in P
    BY <2>2, AfterSpaceIs
  <2>4. bar(j) \in j .. n
    BY <2>1, <2>3, <1>1
  <2> HIDE DEF bar
  <2>5. KindAt(t, bar(j)) = "Pipe" => bar(j) + 1 \in P
    BY <2>3, KindIs
  <2> QED BY <2>1, <2>2, <2>3, <2>4, <2>5
<1>3. ASSUME NEW j \in P, j \in Stop PROVE B[j] \in V
  <2>1. CASE Ones(j).ok
    <3>1. <<Ones(j).val>> \in Seq(AnyList)
      BY <1>2, <2>1
    <3>2. Ok(Ones(j).at, <<Ones(j).val>>) \in V
      BY <1>2, <2>1, <3>1 DEF Ok, Listed
    <3> HIDE DEF V, Ones
    <3> QED BY <2>1, <3>2
  <2>2. CASE ~ Ones(j).ok
    BY <2>2
  <2> QED BY <2>1, <2>2
<1>4. ASSUME NEW j \in P, j \notin Stop PROVE J[j] \in P /\ M[J[j]] > M[j] /\ \A v \in V : H[<<j, v>>] \in V
  <2>2. bar(j) + 1 \in P /\ bar(j) \in j .. n /\ Ones(j).val \in AnyList
    BY <1>4, <1>2
  <2> HIDE DEF bar, Ones
  <2>3. J[j] \in P /\ M[J[j]] > M[j]
    BY <2>2, <1>1
  <2>4. ASSUME NEW v \in V PROVE H[<<j, v>>] \in V
    <3>1. H[<<j, v>>] = IF v.ok THEN Prepend(Ones(j).val, v) ELSE Fail
      <4> HIDE DEF V
      <4> QED OBVIOUS
    <3>2. CASE v = Fail
      BY <3>1, <3>2 DEF Fail
    <3>3. CASE v \in Listed(P, AnyList)
      <4> HIDE DEF H
      <4> QED BY <3>1, <2>2, <3>3, PrependIs
    <3> QED BY <3>2, <3>3
  <2> QED BY <2>3, <2>4
<1>5. \A i : Alternatives(t, i) = L[i]
  BY DEF Alternatives, AndThen
<1>6. \A f : \A j \in P : j \in Stop => Body(f, j) = B[j]
  OBVIOUS
<1>7. \A j \in P : j \notin Stop => /\ Ones(j).ok /\ KindAt(t, bar(j)) = "Pipe" /\ J[j] = bar(j) + 1
  OBVIOUS
<1>8. \A j \in P, v \in V : H[<<j, v>>] = IF v.ok THEN Prepend(Ones(j).val, v) ELSE Fail
  <2> HIDE DEF V
  <2> QED OBVIOUS
<1>9. \A j \in P : M[j] = j
  OBVIOUS
<1>10. \E g \in [P -> V] : \A j \in P : g[j] = IF j \in Stop THEN B[j] ELSE H[<<j, g[J[j]]>>]
  <2> HIDE DEF P, n, V, M, Stop, J, B, H
  <2>1. Recursion(P, n, V, M, Stop, J, B, H)
    BY <1>1, <1>3, <1>4 DEF Recursion
  <2> QED BY <2>1, Unfolds
<1> HIDE DEF V, M, Stop, J, B, H
<1>11. \E g : g = [j \in P |-> Body(g, j)]
  <2>1. PICK g \in [P -> V] : \A j \in P : g[j] = IF j \in Stop THEN B[j] ELSE H[<<j, g[J[j]]>>]
    BY <1>10
  <2>2. ASSUME NEW j \in P PROVE g[j] = Body(g, j)
    <3>1. CASE j \in Stop
      <4> HIDE DEF Body
      <4> QED BY <3>1, <2>1, <1>6
    <3>2. CASE j \notin Stop
      <4>1. J[j] \in P /\ g[J[j]] \in V
        BY <3>2, <2>1, <1>4
      <4>2. g[j] = IF g[J[j]].ok THEN Prepend(Ones(j).val, g[J[j]]) ELSE Fail
        BY <3>2, <4>1, <2>1, <1>8
      <4> HIDE DEF Ones, bar, P
      <4> QED BY <3>2, <4>2, <1>7
    <3> QED BY <3>1, <3>2
  <2> HIDE DEF Body
  <2> QED BY <2>1, <2>2
<1>12. \A j \in P : L[j] = Body(L, j)
  <2> HIDE DEF Body
  <2>1. L = [j \in P |-> Body(L, j)]
    BY <1>11
  <2> HIDE DEF L
  <2> QED BY <2>1
<1> HIDE DEF L
<1> DEFINE Good == {j \in 1 .. n : L[j] \in Parsed(t, j, Lists)}
<1>13. ASSUME NEW j \in P, \A k \in P : M[k] > M[j] => k \in Good PROVE j \in Good
  <2>1. CASE ~ Ones(j).ok
    BY <2>1, <1>12, FailIs
  <2>2. CASE Ones(j).ok /\ KindAt(t, bar(j)) # "Pipe"
    <3>1. L[j] = Ok(Ones(j).at, <<Ones(j).val>>)
      BY <2>2, <1>12
    <3>2. Ones(j).at \in j .. Len(t) + 1 /\ Ones(j).val \in AnyList
      BY <2>2, <1>2
    <3>3. <<Ones(j).val>> \in Lists
      BY <3>2 DEF Lists
    <3> HIDE DEF Ones
    <3> QED BY <3>1, <3>2, <3>3, OkIs
  <2>3. CASE Ones(j).ok /\ KindAt(t, bar(j)) = "Pipe"
    <3> DEFINE k == bar(j) + 1
    <3>1. k \in P /\ k > j /\ Ones(j).val \in AnyList
      BY <2>3, <1>2, <1>1
    <3>2. L[k] \in Parsed(t, k, Lists)
      <4> HIDE DEF k
      <4> QED BY <3>1, <1>13, <1>9
    <3>3. L[j] = IF L[k].ok THEN Prepend(Ones(j).val, L[k]) ELSE Fail
      BY <2>3, <1>12
    <3> HIDE DEF k, bar
    <3>4. CASE L[k].ok
      <4>1. L[k] \in Listed(k .. n, AnyList)
        BY <3>2, <3>4, FailIs DEF Parsed, Listed, Lists
      <4> HIDE DEF Ones, n
      <4>5a. Listed(k .. n, AnyList) \subseteq Listed(j .. n, AnyList)
        BY <3>1, <1>1, ListedLater
      <4>3. L[k] \in Listed(j .. n, AnyList)
        BY <4>1, <4>5a
      <4> DEFINE w == Ones(j).val
                 r == L[k]
      <4>4. w \in AnyList /\ r \in Listed(j .. n, AnyList)
        BY <3>1, <4>3
      <4> HIDE DEF w, r, n
      <4>5. Prepend(w, r) \in Listed(j .. n, AnyList) /\ Prepend(w, r).val = <<w>> \o r.val
        BY <4>4, PrependIs
      <4>6. <<w>> \o r.val # <<>>
        BY <4>4 DEF Listed
      <4>7. Prepend(w, r) \in Parsed(t, j, Lists)
        BY <4>5, <4>6 DEF Listed, Parsed, Lists, n
      <4> QED BY <3>3, <3>4, <4>7 DEF w, r, n
    <3> QED BY <3>3, <3>4, FailIs
  <2> QED BY <2>1, <2>2, <2>3
<1>14. \A j \in P : j \in Good
  <2> HIDE DEF Good, P, n
  <2> QED BY <1>1, <1>13, Descent
<1> QED BY <1>5, <1>12, <1>14

\* Alternatives are parsed, or the parse fails.
LEMMA AlternativesIs ==
    ASSUME NEW t \in Tokens, NEW i \in 1 .. Len(t) + 1
    PROVE  Alternatives(t, i) \in Parsed(t, i, Lists)
BY AlternativesUnfold

-----------------------------------------------------------------------------
(* Statements                                                              *)

\* The width of an indent is a number.
LEMMA WidthIs ==
    ASSUME NEW t \in Tokens, NEW i \in 1 .. Len(t) + 1
    PROVE  Width(t, i) \in Nat
<1>1. CASE KindAt(t, i) = "Indent"
  <2>1. t[i] \in AnyToken
    BY <1>1, KindIs
  <2>3. Len(t[i].slice) \in Nat
    BY <2>1 DEF AnyToken, Texts
  <2> QED BY <1>1, <2>3 DEF Width
<1>2. CASE KindAt(t, i) # "Indent"
  BY <1>2 DEF Width
<1> QED BY <1>1, <1>2

\* A line of a block is parsed, or the block ends.
LEMMA CallFromIs ==
    ASSUME NEW t \in Tokens, NEW j \in 1 .. Len(t) + 1, NEW base
    PROVE  CallFrom(t, j, base) \in Parsed(t, j + 1, AnyCall)
<1> DEFINE line == After(t, j, {"Newline"})
           k == After(t, line, {"Indent"})
<1>1. line \in j .. Len(t) + 1
  BY AfterIs
<1>2. line \in 1 .. Len(t) + 1 /\ Len(t) \in Nat
  BY <1>1 DEF Tokens
<1> HIDE DEF line
<1>3. k \in line .. Len(t) + 1
  BY <1>2, AfterIs
<1>4. k \in 1 .. Len(t) + 1
  BY <1>2, <1>3
<1> HIDE DEF k
<1>5. FunctionCall(t, k) \in Parsed(t, k + 1, AnyCall)
  BY <1>4, FunctionCallIs
<1>6. k + 1 .. Len(t) + 1 \subseteq j + 1 .. Len(t) + 1
  BY <1>1, <1>2, <1>3, <1>4
<1>7. FunctionCall(t, k) \in Parsed(t, j + 1, AnyCall)
  BY <1>5, <1>6 DEF Parsed
<1> QED BY <1>7, FailIs DEF CallFrom, line, k

\* The block of actions is what its unfolding says, at every width.
LEMMA BlockUnfold ==
    ASSUME NEW t \in Tokens
    PROVE  \E f : /\ \A j \in 1 .. Len(t) + 1, base \in Nat :
                       /\ f[<<j, base>>] =
                            IF CallFrom(t, j, base).ok
                            THEN Prepend(CallFrom(t, j, base).val,
                                         f[<<CallFrom(t, j, base).at,
                                             IF base = 0 THEN Width(t, After(t, j, {"Newline"})) ELSE base>>])
                            ELSE Ok(j, <<>>)
                       /\ f[<<j, base>>] \in Listed(j .. Len(t) + 1, AnyCall)
                  /\ \A i : ActionBlock(t, i) = Nonempty(f[<<i, 0>>])
<1> DEFINE n == Len(t) + 1
           D == (1 .. Len(t) + 1) \X Nat
           R(x) == CallFrom(t, x[1], x[2])
           Wide(x) == IF x[2] = 0 THEN Width(t, After(t, x[1], {"Newline"})) ELSE x[2]
           Body(f, x) == IF R(x).ok THEN Prepend(R(x).val, f[<<R(x).at, Wide(x)>>]) ELSE Ok(x[1], <<>>)
           M == [x \in D |-> x[1]]
           Stop == {x \in D : ~ R(x).ok}
           At1 == [x \in D |-> x[1]]
           Item1 == [x \in D |-> R(x).val]
           Nxt == [x \in D |-> <<R(x).at, Wide(x)>>]
           L == CHOOSE f : f = [x \in D |-> Body(f, x)]
<1>1. n \in Nat /\ M \in [D -> 0 .. n]
  BY DEF Tokens
<1>2. \A x \in D : At1[x] \in M[x] .. n
  BY <1>1
<1>3. ASSUME NEW x \in D, x \notin Stop PROVE Item1[x] \in AnyCall /\ Nxt[x] \in D /\ M[Nxt[x]] > M[x]
  <2>1. R(x).ok /\ x[1] \in 1 .. Len(t) + 1 /\ x[2] \in Nat
    BY <1>3
  <2>3. R(x).at \in x[1] + 1 .. Len(t) + 1 /\ R(x).val \in AnyCall
    BY <2>1, CallFromIs, ParsedIs
  <2>4. Wide(x) \in Nat
    <3>2. After(t, x[1], {"Newline"}) \in 1 .. Len(t) + 1
      BY <2>1, AfterIs, <1>1
    <3> QED BY <2>1, <3>2, WidthIs
  <2> HIDE DEF R, Wide
  <2> QED BY <2>3, <2>4, <2>1, <1>1
<1>4. \A f : \A x \in D : Body(f, x) = IF x \in Stop THEN Ok(At1[x], <<>>) ELSE Prepend(Item1[x], f[Nxt[x]])
  OBVIOUS
<1>5. IsLoop(D, n, M, AnyCall, Stop, At1, Item1, Nxt)
  <2> HIDE DEF D, n, M, Stop, At1, Item1, Nxt
  <2> QED BY <1>1, <1>2, <1>3 DEF IsLoop
<1>6. \A i : ActionBlock(t, i) = Nonempty(L[<<i, 0>>])
  BY DEF ActionBlock, Many, CallFrom
<1>7. \A j \in 1 .. Len(t) + 1, base \in Nat : <<j, base>> \in D /\ M[<<j, base>>] = j
  OBVIOUS
<1> HIDE DEF D, n, M, Stop, At1, Item1, Nxt, Body
<1>9. L = [j \in D |-> Body(L, j)]
  <2>1. \E g : g = [j \in D |-> Body(g, j)]
    BY <1>4, <1>5, LoopUnfolds
  <2> QED BY <2>1
<1> HIDE DEF L
<1>10. \A j \in D : L[j] = Body(L, j)
  BY <1>9
<1>11. \A j \in D : L[j] \in Listed(M[j] .. n, AnyCall)
  BY <1>4, <1>5, <1>10, LoopIs
<1> QED BY <1>6, <1>7, <1>10, <1>11 DEF Body, n

\* A block of actions is parsed, or the parse fails.
LEMMA ActionBlockIs ==
    ASSUME NEW t \in Tokens, NEW i \in 1 .. Len(t) + 1
    PROVE  ActionBlock(t, i) \in Parsed(t, i, Blocks)
<1>1. PICK f : /\ f[<<i, 0>>] \in Listed(i .. Len(t) + 1, AnyCall)
               /\ ActionBlock(t, i) = Nonempty(f[<<i, 0>>])
  BY BlockUnfold
<1> QED BY <1>1, NonemptyIs DEF Blocks

\* A statement that matches is parsed, or the parse fails.
LEMMA MatchingIs ==
    ASSUME NEW t \in Tokens, NEW i \in 1 .. Len(t) + 1, NEW kind \in {"Match", "IMatch", "When"}
    PROVE  Matching(t, i, kind) \in Parsed(t, i, AnyStmt)
<1> DEFINE alts == Alternatives(t, i)
           block == ActionBlock(t, alts.at + 1)
<1>1. Len(t) \in Nat /\ alts \in Parsed(t, i, Lists)
  BY AlternativesIs DEF Tokens
<1>2. CASE alts.ok /\ KindAt(t, alts.at) = "Colon" /\ block.ok
  <2>1. alts.at \in i .. Len(t) + 1 /\ alts.val \in Lists
    BY <1>1, <1>2, ParsedIs
  <2>2. alts.at \in 1 .. Len(t) + 1
    BY <1>1, <2>1
  <2>4. block \in Parsed(t, alts.at + 1, Blocks)
    <3> HIDE DEF alts
    <3> QED BY <1>2, <2>2, KindIs, ActionBlockIs
  <2>5. block.at \in alts.at + 1 .. Len(t) + 1 /\ block.val \in Blocks
    BY <1>2, <2>4, ParsedIs
  <2>6. Matching(t, i, kind) = Ok(block.at, Stmt(kind, alts.val, block.val))
    BY <1>2 DEF Matching, AndThen
  <2> HIDE DEF alts, block
  <2>7. Stmt(kind, alts.val, block.val) \in AnyStmt
    BY <2>1, <2>5 DEF Stmt, AnyStmt, Lists, Blocks
  <2>8. block.at \in i .. Len(t) + 1
    BY <1>1, <2>1, <2>5
  <2> QED BY <2>6, <2>7, <2>8, OkIs
<1>3. CASE ~ (alts.ok /\ KindAt(t, alts.at) = "Colon" /\ block.ok)
  BY <1>3, FailIs DEF Matching, AndThen
<1> QED BY <1>2, <1>3

\* A skip statement is parsed, or the parse fails.
LEMMA SkipStatementIs ==
    ASSUME NEW t \in Tokens, NEW i \in 1 .. Len(t) + 1
    PROVE  SkipStatement(t, i) \in Parsed(t, i + 1, AnyStmt)
<1> DEFINE e == Expression(t, i)
<1>2. CASE e.ok
  <2>1. e.at \in i + 1 .. Len(t) + 1 /\ e.val \in AnyExpr
    BY ExpressionIs, <1>2, ParsedIs
  <2>2. SkipStatement(t, i) = Ok(e.at, Stmt("Skip", <<<<e.val>>>>, <<>>))
    BY <1>2 DEF SkipStatement, AndThen
  <2> HIDE DEF e
  <2>4. Stmt("Skip", <<<<e.val>>>>, <<>>) \in AnyStmt
    BY <2>1 DEF Stmt, AnyStmt, AnyList
  <2> QED BY <2>1, <2>2, <2>4, OkIs
<1>3. CASE ~ e.ok
  BY <1>3, FailIs DEF SkipStatement, AndThen
<1> QED BY <1>2, <1>3

\* A call on its own is parsed, or the parse fails.
LEMMA ActionStatementIs ==
    ASSUME NEW t \in Tokens, NEW i \in 1 .. Len(t) + 1
    PROVE  ActionStatement(t, i) \in Parsed(t, i + 1, AnyStmt)
<1> DEFINE c == FunctionCall(t, i)
<1>2. CASE c.ok
  <2>1. c.at \in i + 1 .. Len(t) + 1 /\ c.val \in AnyCall
    BY FunctionCallIs, <1>2, ParsedIs
  <2>2. ActionStatement(t, i) = Ok(c.at, Stmt("Action", <<>>, <<c.val>>))
    BY <1>2 DEF ActionStatement, AndThen
  <2> HIDE DEF c
  <2>4. Stmt("Action", <<>>, <<c.val>>) \in AnyStmt
    BY <2>1 DEF Stmt, AnyStmt
  <2> QED BY <2>1, <2>2, <2>4, OkIs
<1>3. CASE ~ c.ok
  BY <1>3, FailIs DEF ActionStatement, AndThen
<1> QED BY <1>2, <1>3

\* A line of a grammar is parsed, or the grammar ends.
LEMMA StatementLineIs ==
    ASSUME NEW t \in Tokens, NEW i \in 1 .. Len(t) + 1
    PROVE  StatementLine(t, i) \in Parsed(t, i + 1, AnyStmt)
<1> DEFINE line == After(t, i, {"Newline"})
           k == After(t, line, {"Indent"})
           kind == KindAt(t, k)
<1>1. line \in i .. Len(t) + 1
  BY AfterIs
<1>2. line \in 1 .. Len(t) + 1 /\ Len(t) \in Nat
  BY <1>1 DEF Tokens
<1> HIDE DEF line
<1>4. k \in 1 .. Len(t) + 1 /\ k >= i
  BY <1>1, <1>2, AfterIs
<1>5. StatementLine(t, i) = CASE kind = "Skip"                        -> SkipStatement(t, k + 1)
                              [] kind \in {"Match", "IMatch", "When"} -> Matching(t, k + 1, kind)
                              [] OTHER                                -> ActionStatement(t, k)
  BY DEF StatementLine, line
<1> HIDE DEF k
<1>6. kind \in {"Skip", "Match", "IMatch", "When"} => k + 1 \in 1 .. Len(t) + 1
  BY <1>4, KindIs
<1> HIDE DEF kind
<1>7. CASE kind = "Skip"
  <2>1. SkipStatement(t, k + 1) \in Parsed(t, (k + 1) + 1, AnyStmt)
    BY <1>6, <1>7, SkipStatementIs
  <2>2. (k + 1) + 1 .. Len(t) + 1 \subseteq i + 1 .. Len(t) + 1
    BY <1>2, <1>4
  <2> QED BY <1>5, <1>7, <2>1, <2>2 DEF Parsed
<1>8. CASE kind \in {"Match", "IMatch", "When"}
  <2>1. Matching(t, k + 1, kind) \in Parsed(t, k + 1, AnyStmt)
    BY <1>6, <1>8, MatchingIs
  <2>2. k + 1 .. Len(t) + 1 \subseteq i + 1 .. Len(t) + 1
    BY <1>2, <1>4
  <2>3. StatementLine(t, i) = Matching(t, k + 1, kind)
    BY <1>5, <1>8
  <2> QED BY <2>1, <2>2, <2>3 DEF Parsed
<1>9. CASE kind \notin {"Skip", "Match", "IMatch", "When"}
  <2>2. k + 1 .. Len(t) + 1 \subseteq i + 1 .. Len(t) + 1
    BY <1>2, <1>4
  <2>3. StatementLine(t, i) = ActionStatement(t, k)
    BY <1>5, <1>9
  <2> QED BY <1>4, ActionStatementIs, <2>2, <2>3 DEF Parsed
<1> QED BY <1>7, <1>8, <1>9

\* The statements of a grammar are what their unfolding says.
LEMMA StatementsUnfold ==
    ASSUME NEW t \in Tokens
    PROVE  \E f : /\ \A j \in 1 .. Len(t) + 1 :
                       /\ f[j] = IF StatementLine(t, j).ok
                                 THEN Prepend(StatementLine(t, j).val, f[StatementLine(t, j).at])
                                 ELSE Ok(j, <<>>)
                       /\ f[j] \in Listed(j .. Len(t) + 1, AnyStmt)
                  /\ \A i : Statements(t, i) = f[i]
<1> DEFINE n == Len(t) + 1
           D == 1 .. Len(t) + 1
           R(x) == StatementLine(t, x)
           Body(f, x) == IF R(x).ok THEN Prepend(R(x).val, f[R(x).at]) ELSE Ok(x, <<>>)
           M == [x \in D |-> x]
           Stop == {x \in D : ~ R(x).ok}
           At1 == [x \in D |-> x]
           Item1 == [x \in D |-> R(x).val]
           Nxt == [x \in D |-> R(x).at]
           L == CHOOSE f : f = [x \in D |-> Body(f, x)]
<1>1. n \in Nat /\ M \in [D -> 0 .. n]
  BY DEF Tokens
<1>2. \A x \in D : At1[x] \in M[x] .. n
  BY <1>1
<1>3. ASSUME NEW x \in D, x \notin Stop PROVE Item1[x] \in AnyStmt /\ Nxt[x] \in D /\ M[Nxt[x]] > M[x]
  <2>1. R(x).ok
    BY <1>3
  <2>3. R(x).at \in x + 1 .. Len(t) + 1 /\ R(x).val \in AnyStmt
    BY <2>1, StatementLineIs, ParsedIs
  <2> HIDE DEF R
  <2> QED BY <2>3, <2>1, <1>1
<1>4. \A f : \A x \in D : Body(f, x) = IF x \in Stop THEN Ok(At1[x], <<>>) ELSE Prepend(Item1[x], f[Nxt[x]])
  OBVIOUS
<1>5. IsLoop(D, n, M, AnyStmt, Stop, At1, Item1, Nxt)
  <2> HIDE DEF D, n, M, Stop, At1, Item1, Nxt
  <2> QED BY <1>1, <1>2, <1>3 DEF IsLoop
<1>6. \A i : Statements(t, i) = L[i]
  BY DEF Statements, Many
<1>7. \A j \in D : M[j] = j
  OBVIOUS
<1> HIDE DEF D, n, M, Stop, At1, Item1, Nxt, Body
<1>9. L = [j \in D |-> Body(L, j)]
  <2>1. \E g : g = [j \in D |-> Body(g, j)]
    BY <1>4, <1>5, LoopUnfolds
  <2> QED BY <2>1
<1> HIDE DEF L
<1>10. \A j \in D : L[j] = Body(L, j)
  BY <1>9
<1>11. \A j \in D : L[j] \in Listed(M[j] .. n, AnyStmt)
  BY <1>4, <1>5, <1>10, LoopIs
<1> QED BY <1>6, <1>7, <1>10, <1>11 DEF Body, n, D

\* The statements of a grammar are parsed.
LEMMA StatementsIs ==
    ASSUME NEW t \in Tokens, NEW i \in 1 .. Len(t) + 1
    PROVE  Statements(t, i) \in Listed(i .. Len(t) + 1, AnyStmt)
BY StatementsUnfold

-----------------------------------------------------------------------------
(* Documents                                                               *)

\* A define is parsed, or the parse fails.
LEMMA DefineStatementIs ==
    ASSUME NEW t \in Tokens, NEW i \in 1 .. Len(t)
    PROVE  DefineStatement(t, i) \in Parsed(t, i + 1, AnyPart)
<1>1. Len(t) \in Nat /\ i + 1 \in 1 .. Len(t) + 1
  BY DEF Tokens
<1>2. CASE KindAt(t, i + 1) = "Identifier"
  <2> DEFINE e == Expression(t, i + 2)
  <2>1. (i + 1) + 1 \in 1 .. Len(t) + 1 /\ t[i + 1] \in AnyToken
    BY <1>1, <1>2, KindIs
  <2>2. i + 2 \in 1 .. Len(t) + 1
    BY <1>1, <2>1
  <2>4. CASE e.ok
    <3>1. e.at \in (i + 2) + 1 .. Len(t) + 1 /\ e.val \in AnyExpr
      BY <2>2, ExpressionIs, <2>4, ParsedIs
    <3>2. DefineStatement(t, i) = Ok(e.at, [part |-> "Define", name |-> t[i + 1].slice, def |-> e.val])
      BY <1>2, <2>4 DEF DefineStatement, AndThen
    <3> HIDE DEF e
    <3>3. [part |-> "Define", name |-> t[i + 1].slice, def |-> e.val] \in AnyPart
      BY <2>1, <3>1 DEF AnyPart, AnyToken
    <3>4. e.at \in i + 1 .. Len(t) + 1
      BY <1>1, <3>1
    <3> QED BY <3>2, <3>3, <3>4, OkIs
  <2>5. CASE ~ e.ok
    BY <1>2, <2>5, FailIs DEF DefineStatement, AndThen
  <2> QED BY <2>4, <2>5
<1>3. CASE KindAt(t, i + 1) # "Identifier"
  BY <1>3, FailIs DEF DefineStatement
<1> QED BY <1>2, <1>3

\* A grammar is parsed, or the parse fails.
LEMMA GrammarStatementIs ==
    ASSUME NEW t \in Tokens, NEW i \in 1 .. Len(t)
    PROVE  GrammarStatement(t, i) \in Parsed(t, i + 1, AnyPart)
<1> DEFINE heir == KindAt(t, i + 2) = "LeftParen"
           colon == IF heir THEN i + 5 ELSE i + 2
           parent == IF heir THEN t[i + 3].slice ELSE NoParent
           Reads == /\ KindAt(t, i + 1) = "Identifier"
                    /\ heir => KindAt(t, i + 3) = "Identifier" /\ KindAt(t, i + 4) = "RightParen"
                    /\ KindAt(t, colon) = "Colon"
           s == Statements(t, colon + 1)
<1>1. Len(t) \in Nat /\ i + 1 \in 1 .. Len(t) + 1
  BY DEF Tokens
<1>2. CASE Reads
  <2>2. i + 2 \in 1 .. Len(t) + 1 /\ t[i + 1].slice \in Texts
    BY <1>1, <1>2, KindIs DEF AnyToken
  <2>3. colon \in i + 2 .. Len(t) + 1 /\ parent \in Texts
    <3>1. CASE heir
      <4>2. i + 3 \in 1 .. Len(t) + 1
        BY <1>1, <2>2, <3>1, KindIs
      <4>3. (i + 3) + 1 \in 1 .. Len(t) + 1 /\ t[i + 3] \in AnyToken
        BY <1>2, <3>1, <4>2, KindIs
      <4>4. i + 4 \in 1 .. Len(t) + 1
        BY <1>1, <4>3
      <4>5. (i + 4) + 1 \in 1 .. Len(t) + 1
        BY <1>2, <3>1, <4>4, KindIs
      <4> QED BY <1>1, <3>1, <4>3, <4>5 DEF AnyToken
    <3>2. CASE ~ heir
      BY <1>1, <2>2, <3>2 DEF NoParent, Texts
    <3> QED BY <3>1, <3>2
  <2>4. GrammarStatement(t, i) =
          IF s.ok THEN Ok(s.at, [part |-> "Grammar", name |-> t[i + 1].slice, def |-> Grammar(parent, s.val)]) ELSE Fail
    BY <1>2 DEF GrammarStatement, AndThen
  <2>5. KindAt(t, colon) = "Colon"
    BY <1>2
  <2> HIDE DEF Reads, heir, colon, parent
  <2>7. colon + 1 \in 1 .. Len(t) + 1
    BY <2>5, <1>1, <2>3, KindIs
  <2>8. s \in Listed(colon + 1 .. Len(t) + 1, AnyStmt)
    BY <2>7, StatementsIs
  <2> HIDE DEF s
  <2>9. s.ok /\ s.at \in colon + 1 .. Len(t) + 1 /\ s.val \in Seq(AnyStmt)
    BY <2>8 DEF Listed
  <2>10. s.at \in i + 1 .. Len(t) + 1
    BY <1>1, <2>3, <2>9
  <2>11. [part |-> "Grammar", name |-> t[i + 1].slice, def |-> Grammar(parent, s.val)] \in AnyPart
    BY <2>2, <2>3, <2>9 DEF AnyPart, Grammar, AnyGrammar
  <2> QED BY <2>4, <2>9, <2>10, <2>11, OkIs
<1>3. CASE ~ Reads
  BY <1>3, FailIs DEF GrammarStatement
<1> QED BY <1>2, <1>3

\* The map of what was inserted: the last insert of a name counts.
LEMMA MapIs ==
    ASSUME NEW part, NEW S, NEW inserts \in Seq(AnyPart),
           \A i \in DOMAIN inserts : inserts[i].part = part => inserts[i].def \in S
    PROVE  IsMap(MapOf(part, inserts), S)
<1> DEFINE of == {i \in DOMAIN inserts : inserts[i].part = part}
           Last1(n) == Max({i \in of : inserts[i].name = n})
           names == {inserts[i].name : i \in of}
<1>1. Len(inserts) \in Nat /\ DOMAIN inserts = 1 .. Len(inserts) /\ \A i \in DOMAIN inserts : inserts[i] \in AnyPart
  OBVIOUS
<1>2. IsFiniteSet(names)
  <2>1. IsFiniteSet(1 .. Len(inserts))
    BY <1>1, FS_Interval
  <2>3. IsFiniteSet(of)
    BY <2>1, <1>1, FS_Subset
  <2> HIDE DEF of
  <2>4. [i \in of |-> inserts[i].name] \in Surjection(of, names)
    BY DEF Surjection
  <2> HIDE DEF names
  <2> QED BY <2>3, <2>4, FS_Surjection
<1>3. \A n \in names : n \in Texts
  BY <1>1 DEF AnyPart
<1>4. ASSUME NEW n \in names PROVE inserts[Last1(n)].def \in S
  <2> DEFINE T == {i \in of : inserts[i].name = n}
  <2>1. PICK i \in of : inserts[i].name = n
    OBVIOUS
  <2>2. T \in SUBSET (0 .. Len(inserts)) /\ i \in T
    BY <1>1, <2>1
  <2>3. \E k \in T : \A j \in T : j <= k
    <3> HIDE DEF T
    <3> QED BY <2>2, <1>1, Largest
  <2>4. \E k \in T : \A j \in T : k >= j
    BY <2>2, <2>3, <1>1
  <2>6. Max(T) \in T
    <3> HIDE DEF T
    <3> QED BY <2>4 DEF Max
  <2>7. Last1(n) \in of
    BY <2>6
  <2> HIDE DEF Last1
  <2> QED BY <2>7
<1>5. MapOf(part, inserts) = [n \in names |-> inserts[Last1(n)].def]
  BY DEF MapOf
<1> HIDE DEF names, of, Last1
<1> QED BY <1>2, <1>3, <1>4, <1>5 DEF IsMap

\* A part of a document is parsed, or the parse fails.
LEMMA PartAtIs ==
    ASSUME NEW t \in Tokens, NEW i \in 1 .. Len(t) + 1
    PROVE  PartAt(t, i) \in Parsed(t, i + 1, AnyPart)
BY KindIs, DefineStatementIs, GrammarStatementIs, FailIs DEF PartAt

\* The parts of a document are what their unfolding says.
LEMMA DocumentUnfold ==
    ASSUME NEW t \in Tokens
    PROVE  \E f : /\ \A j \in 1 .. Len(t) + 1 :
                       /\ f[j] = IF KindAt(t, j) = "Newline" THEN f[j + 1]
                                 ELSE IF PartAt(t, j).ok THEN Prepend(PartAt(t, j).val, f[PartAt(t, j).at])
                                 ELSE Ok(j, <<>>)
                       /\ f[j] \in Listed(1 .. Len(t) + 1, AnyPart)
                  /\ Document(t) = IF f[1].ok
                                   THEN IF KindAt(t, f[1].at) # "EOF" THEN Fail
                                        ELSE Ok(f[1].at, [defines |-> MapOf("Define", f[1].val),
                                                          grammars |-> MapOf("Grammar", f[1].val)])
                                   ELSE Fail
<1> DEFINE n == Len(t) + 1
           D == 1 .. Len(t) + 1
           V == Listed(D, AnyPart)
           R(x) == PartAt(t, x)
           blank(x) == KindAt(t, x) = "Newline"
           Body(f, x) == IF blank(x) THEN f[x + 1]
                         ELSE IF R(x).ok THEN Prepend(R(x).val, f[R(x).at]) ELSE Ok(x, <<>>)
           M == [x \in D |-> x]
           Stop == {x \in D : ~ (KindAt(t, x) = "Newline") /\ ~ R(x).ok}
           J == [x \in D |-> IF blank(x) THEN x + 1 ELSE R(x).at]
           B == [x \in D |-> Ok(x, <<>>)]
           H == [x \in D \X V |-> IF blank(x[1]) THEN x[2] ELSE Prepend(R(x[1]).val, x[2])]
           L == CHOOSE f : f = [x \in D |-> Body(f, x)]
<1>1. n \in Nat /\ M \in [D -> 0 .. n]
  BY DEF Tokens
<1>2. \A x \in D : B[x] \in V
  <2>1. \A x \in D : Ok(x, <<>>) \in V
    BY NothingListed
  <2> HIDE DEF V
  <2> QED BY <2>1
<1>3. ASSUME NEW x \in D, R(x).ok PROVE R(x).at \in D /\ R(x).at > x /\ R(x).val \in AnyPart
  <2>1. R(x) \in Parsed(t, x + 1, AnyPart)
    BY PartAtIs
  <2> HIDE DEF R
  <2> QED BY <1>3, <2>1, ParsedIs, <1>1
<1>4. ASSUME NEW x \in D, blank(x) PROVE x + 1 \in D /\ x + 1 > x
  BY <1>4, KindIs, <1>1
<1>5. ASSUME NEW x \in D, x \notin Stop PROVE J[x] \in D /\ M[J[x]] > M[x]
  <2> HIDE DEF R, blank
  <2> QED BY <1>5, <1>3, <1>4 DEF blank
<1>6. \A x \in D, v \in V : H[<<x, v>>] = IF blank(x) THEN v ELSE Prepend(R(x).val, v)
  <2> HIDE DEF V, R, blank
  <2> QED OBVIOUS
<1>7. ASSUME NEW x \in D, x \notin Stop, NEW v \in V PROVE H[<<x, v>>] \in V
  <2>1. blank(x) \/ R(x).val \in AnyPart
    <3> HIDE DEF R, blank
    <3> QED BY <1>7, <1>3 DEF blank
  <2>2. CASE blank(x)
    BY <2>2, <1>6
  <2>3. CASE ~ blank(x)
    <3>1. Prepend(R(x).val, v) \in V
      BY <2>1, <2>3, PrependIs
    <3> HIDE DEF H, V, blank, R
    <3> QED BY <1>6, <2>3, <3>1
  <2> QED BY <2>2, <2>3
<1>9. \A x \in D : (x \in Stop <=> ~ blank(x) /\ ~ R(x).ok) /\ B[x] = Ok(x, <<>>)
                   /\ J[x] = IF blank(x) THEN x + 1 ELSE R(x).at
  OBVIOUS
<1>10. Document(t) = IF L[1].ok
                     THEN IF KindAt(t, L[1].at) # "EOF" THEN Fail
                          ELSE Ok(L[1].at, [defines |-> MapOf("Define", L[1].val),
                                            grammars |-> MapOf("Grammar", L[1].val)])
                     ELSE Fail
  BY DEF Document, AndThen, Many, PartAt
<1> HIDE DEF V, M, Stop, J, B, H, R, blank, n, D
<1>11. Recursion(D, n, V, M, Stop, J, B, H)
  BY <1>1, <1>2, <1>5, <1>7 DEF Recursion
<1>12. PICK g \in [D -> V] : \A x \in D : g[x] = IF x \in Stop THEN B[x] ELSE H[<<x, g[J[x]]>>]
  BY <1>11, Unfolds
<1>13. ASSUME NEW x \in D PROVE g[x] = Body(g, x)
  <2>1. x \notin Stop => J[x] \in D /\ g[J[x]] \in V
    BY <1>5, <1>12
  <2>2. x \notin Stop => H[<<x, g[J[x]]>>] = IF blank(x) THEN g[J[x]] ELSE Prepend(R(x).val, g[J[x]])
    BY <2>1, <1>6
  <2> QED BY <2>1, <2>2, <1>9, <1>12
<1> HIDE DEF Body
<1>14. L = [x \in D |-> Body(L, x)]
  BY <1>12, <1>13
<1> HIDE DEF L
<1>15. \A x \in D : L[x] = Body(L, x)
  BY <1>14
<1> DEFINE Good == {x \in D : L[x] \in V}
<1>16. ASSUME NEW x \in D, \A y \in D : M[y] > M[x] => y \in Good PROVE x \in Good
  <2>1. CASE x \in Stop
    <3>1. L[x] = Ok(x, <<>>)
      BY <2>1, <1>9, <1>15 DEF Body
    <3> QED BY <3>1, <1>2, <1>9
  <2>2. CASE x \notin Stop
    <3>1. J[x] \in D /\ L[J[x]] \in V
      BY <2>2, <1>5, <1>16
    <3>2. L[x] = IF blank(x) THEN L[J[x]] ELSE Prepend(R(x).val, L[J[x]])
      BY <2>2, <1>9, <1>15 DEF Body
    <3>3. H[<<x, L[J[x]]>>] \in V
      BY <2>2, <3>1, <1>7
    <3> QED BY <3>1, <3>2, <3>3, <1>6
  <2> QED BY <2>1, <2>2
<1> HIDE DEF Good
<1>17. \A x \in D : x \in Good
  BY <1>1, <1>16, Descent
<1>18. \A x \in D : L[x] \in V
  BY <1>17 DEF Good
<1> QED BY <1>10, <1>15, <1>18 DEF Body, D, V, R, blank

\* What is parsed is a document.
LEMMA DocumentIs ==
    ASSUME NEW t \in Tokens, Document(t).ok
    PROVE  IsDoc(Document(t).val)
<1>1. PICK f : /\ \A j \in 1 .. Len(t) + 1 : f[j] \in Listed(1 .. Len(t) + 1, AnyPart)
               /\ Document(t) = IF f[1].ok
                                   THEN IF KindAt(t, f[1].at) # "EOF" THEN Fail
                                        ELSE Ok(f[1].at, [defines |-> MapOf("Define", f[1].val),
                                                          grammars |-> MapOf("Grammar", f[1].val)])
                                   ELSE Fail
  <2> HIDE DEF Prepend
  <2> QED BY DocumentUnfold
<1>2. 1 \in 1 .. Len(t) + 1
  BY DEF Tokens
<1>4. Document(t).val = [defines |-> MapOf("Define", f[1].val), grammars |-> MapOf("Grammar", f[1].val)]
  BY <1>1, FailIs DEF Ok
<1> DEFINE s == f[1].val
<1> HIDE DEF s
<1>5. s \in Seq(AnyPart)
  BY <1>1, <1>2 DEF s, Listed
<1>6. /\ \A i \in DOMAIN s : s[i].part = "Define" => s[i].def \in AnyExpr
      /\ \A i \in DOMAIN s : s[i].part = "Grammar" => s[i].def \in AnyGrammar
  <2>1. \A i \in DOMAIN s : s[i] \in AnyPart
    BY <1>5
  <2> QED BY <2>1 DEF AnyPart
<1>7. IsMap(MapOf("Define", s), AnyExpr) /\ IsMap(MapOf("Grammar", s), AnyGrammar)
  BY <1>5, <1>6, MapIs
<1> QED BY <1>4, <1>7 DEF IsDoc, s

-----------------------------------------------------------------------------
(* Sequences put together                                                  *)

\* What sequences put together are, one more in each step.
LEMMA Flat ==
    ASSUME NEW S, NEW s \in Seq(Seq(S))
    PROVE  \E g \in [0 .. Len(s) -> Seq(S)] :
             /\ g[0] = <<>> /\ \A i \in 1 .. Len(s) : g[i] = g[i - 1] \o s[i]
             /\ FlattenSeq(s) = g[Len(s)]
<1> DEFINE n == Len(s)
           V == Seq(S)
           H == [x \in (1 .. n) \X V |-> x[2] \o s[x[1]]]
           Body(f, i) == IF i = 1 THEN s[i] ELSE f[i - 1] \o s[i]
           L == CHOOSE f : f = [i \in 1 .. n |-> Body(f, i)]
<1>1. n \in Nat /\ <<>> \in V /\ \A i \in 1 .. n : s[i] \in V
  OBVIOUS
<1>2. \A i \in 1 .. n, v \in V : H[<<i, v>>] = v \o s[i]
  <2> HIDE DEF V
  <2> QED OBVIOUS
<1>3. \A i \in 1 .. n, v \in V : v \o s[i] \in V
  BY <1>1
<1>4. n = 0 => FlattenSeq(s) = <<>>
  BY DEF FlattenSeq
<1>5. n # 0 => FlattenSeq(s) = L[n]
  BY DEF FlattenSeq
<1> HIDE DEF n, V, H
<1>6. PICK g : Iterated(g, n, V, <<>>, H)
  <2>2. Iteration(n, V, <<>>, H)
    BY <1>2, <1>3, <1>1 DEF Iteration
  <2> QED BY <2>2, Iterates
<1>6a. g \in [0 .. n -> V] /\ g[0] = <<>> /\ \A i \in 1 .. n : g[i] = H[<<i, g[i - 1]>>]
  BY <1>6 DEF Iterated
<1>7. \A i \in 1 .. n : g[i] = g[i - 1] \o s[i]
  <2>1. \A i \in 1 .. n : i - 1 \in 0 .. n
    BY <1>1
  <2> QED BY <2>1, <1>2, <1>6a
<1>8. n # 0 => L[n] = g[n]
  <2>1. SUFFICES ASSUME n # 0 PROVE L[n] = g[n]
    OBVIOUS
  <2> DEFINE h == [i \in 1 .. n |-> g[i]]
  <2>2. \A i \in 1 .. n : h[i] = Body(h, i)
    <3> TAKE i \in 1 .. n
    <3>1. h[i] = g[i - 1] \o s[i]
      BY <1>7
    <3>2. CASE i = 1
      <4>0. g[i - 1] = g[0]
        BY <3>2
      <4>1. h[i] = <<>> \o s[i] /\ s[i] \in Seq(S)
        BY <3>1, <4>0, <1>1, <1>6a DEF V
      <4> HIDE DEF h
      <4> QED BY <3>2, <4>1
    <3>3. CASE i # 1
      <4>1. i - 1 \in 1 .. n
        BY <3>3, <1>1
      <4> QED BY <3>1, <3>3, <4>1
    <3> QED BY <3>2, <3>3
  <2>3. h = [i \in 1 .. n |-> Body(h, i)]
    <3> HIDE DEF Body
    <3> QED BY <2>2
  <2>4. L = [i \in 1 .. n |-> Body(L, i)]
    <3> HIDE DEF h, Body
    <3> QED BY <2>3
  <2>5. \A i \in 1 .. n : L[i] = Body(L, i)
    <3> HIDE DEF L, Body
    <3> QED BY <2>4
  <2> HIDE DEF L, h
  <2> DEFINE Good == {0} \cup {i \in 1 .. n : L[i] = g[i]}
  <2>6. ASSUME NEW i \in 1 .. n, i - 1 \in Good PROVE i \in Good
    <3>1. CASE i = 1
      <4>1. L[i] = s[i]
        BY <3>1, <2>5
      <4>3. g[i - 1] = g[0]
        BY <3>1
      <4>2. g[i] = <<>> \o s[i] /\ s[i] \in Seq(S)
        BY <4>3, <1>1, <1>6a, <1>7 DEF V
      <4> QED BY <4>1, <4>2
    <3>2. CASE i # 1
      <4>1. i - 1 \in 1 .. n /\ L[i - 1] = g[i - 1]
        BY <3>2, <2>6, <1>1
      <4> QED BY <3>2, <4>1, <2>5, <1>7
    <3> QED BY <3>1, <3>2
  <2> HIDE DEF Good
  <2>7. \A i \in 0 .. n : i \in Good
    BY <2>6, <1>1, Ascent DEF Good
  <2> QED BY <2>7, <1>1, <2>1 DEF Good
<1> QED BY <1>4, <1>5, <1>6a, <1>7, <1>8 DEF n, V

\* Sequences put together are a sequence.
LEMMA FlatIs ==
    ASSUME NEW S, NEW s \in Seq(Seq(S))
    PROVE  FlattenSeq(s) \in Seq(S)
<1>1. PICK g \in [0 .. Len(s) -> Seq(S)] : FlattenSeq(s) = g[Len(s)]
  BY Flat
<1> QED BY <1>1

\* The elements of a finite set in some order.
LEMMA ListOf ==
    ASSUME NEW S, IsFiniteSet(S)
    PROVE  /\ SetToSeq(S) \in Seq(S)
           /\ \A i, j \in DOMAIN SetToSeq(S) : SetToSeq(S)[i] = SetToSeq(S)[j] => i = j
           /\ \A x \in S : \E i \in DOMAIN SetToSeq(S) : SetToSeq(S)[i] = x
<1> DEFINE n == Cardinality(S)
<1>1. n \in Nat /\ ExistsBijection(1 .. n, S)
  BY FS_CardinalityType
<1>2. PICK f \in Bijection(1 .. n, S) : TRUE
  BY <1>1 DEF ExistsBijection
<1>4. SetToSeq(S) = CHOOSE h \in [1 .. n -> S] : IsInjective(h)
  BY DEF SetToSeq
<1> HIDE DEF n
<1> DEFINE h == SetToSeq(S)
<1>5. h \in [1 .. n -> S] /\ IsInjective(h)
  BY <1>2, <1>4 DEF Bijection, Injection, IsInjective
<1> HIDE DEF h
<1>6a. h \in Seq(S)
  BY <1>1, <1>5
<1>7. \A i, j \in DOMAIN h : h[i] = h[j] => i = j
  BY <1>5 DEF IsInjective
<1>8. h \in Surjection(1 .. n, S)
  <2>1. h \in Injection(1 .. n, S)
    BY <1>5 DEF Injection, IsInjective
  <2>2. IsFiniteSet(1 .. n) /\ Cardinality(1 .. n) = n
    BY <1>1, FS_Interval
  <2> QED BY <2>1, <2>2, FS_Injection DEF n
<1>9. \A x \in S : \E i \in DOMAIN h : h[i] = x
  BY <1>8, <1>5 DEF Surjection
<1> QED BY <1>6a, <1>7, <1>9 DEF h

-----------------------------------------------------------------------------
(* The tokens of a document as written                                     *)

\* Tokens after tokens.
LEMMA Beside == ASSUME NEW a \in Tokens, NEW b \in Tokens PROVE a \o b \in Tokens
BY DEF Tokens

\* A function of positions is a sequence.
LEMMA SeqIs ==
    ASSUME NEW S, NEW n \in Nat, NEW s, s = [i \in 1 .. n |-> s[i]], \A i \in 1 .. n : s[i] \in S
    PROVE  s \in Seq(S)
OBVIOUS

\* The tokens a document is written with.
LEMMA MarkIs ==
    /\ LineEnd \in Tokens
    /\ \A name \in Texts : Word(name) \in Tokens
    /\ \A kind \in {"LeftParen", "RightParen", "Comma", "Pipe", "Skip", "Match", "IMatch", "When", "Colon", "Define",
                    "Grammar", "EOF"} : Mark(kind) \in Tokens
<1>1. LineEnd \in Tokens
  <2>1. "\n" \in Symbol
    BY SymbolAssumption
  <2>2. <<"\n">> \in Texts
    BY <2>1 DEF Texts
  <2> QED BY <2>2 DEF LineEnd, Tokens, Token, AnyToken
<1>2. \A name \in Texts : Word(name) \in Tokens
  BY DEF Word, Token, Tokens, AnyToken
<1> QED BY <1>1, <1>2 DEF Mark, Token, Tokens, AnyToken, Texts

\* An indent is written as tokens.
LEMMA IndentIs == \A n \in Nat : Indent(n) \in Tokens
<1> TAKE n \in Nat
<1> DEFINE s == [i \in 1 .. 4 * n |-> " "]
<1>1. s \in Texts
  <2> DEFINE m == 4 * n
  <2>1. m \in Nat /\ s = [i \in 1 .. m |-> " "]
    OBVIOUS
  <2>2. " " \in Symbol
    BY SymbolAssumption
  <2> HIDE DEF m, s
  <2> QED BY <2>1, <2>2, SeqIs DEF Texts
<1>2. Indent(n) = <<Token("Indent", s)>>
  BY DEF Indent
<1> HIDE DEF s
<1> QED BY <1>1, <1>2 DEF Token, Tokens, AnyToken

\* The gap between lines is written as tokens.
LEMMA GapIs == ASSUME NEW layout \in Layouts PROVE Gap(layout) \in Tokens
<1>1. <<>> \in Tokens /\ Indent(1) \o LineEnd \in Tokens /\ LineEnd \in Tokens
  BY MarkIs, IndentIs, Beside DEF Tokens
<1>2. layout.gap \in {"none", "comment", "spaces"}
  BY DEF Layouts
<1> QED BY <1>1, <1>2 DEF Gap

\* A text in quotes is a text.
LEMMA QuotedIs ==
    ASSUME NEW c \in Symbol, NEW s \in Texts
    PROVE  <<c>> \o s \o <<c>> \in Texts
BY DEF Texts

\* An expression is written as tokens.
LEMMA ExprTokensIs == ASSUME NEW e \in AnyExpr PROVE ExprTokens(e) \in Tokens
<1>1. e.val \in Texts /\ e.kind \in {"String", "Regex", "Number", "Variable", "Capture", "CaptureName"}
  BY DEF AnyExpr
<1>2. CASE e.kind \in {"String", "Regex"}
  <2> DEFINE c == IF e.kind = "String" THEN "'" ELSE "/"
  <2>1. c \in Symbol
    BY SymbolAssumption
  <2>2. <<c>> \o e.val \o <<c>> \in Texts
    <3> HIDE DEF c
    <3> QED BY <1>1, <2>1, QuotedIs
  <2>3. ExprTokens(e) = <<Token(e.kind, <<c>> \o e.val \o <<c>>)>>
    BY <1>2 DEF ExprTokens
  <2> HIDE DEF c
  <2> DEFINE s == <<c>> \o e.val \o <<c>>
  <2> HIDE DEF s
  <2>4. Token(e.kind, s) \in AnyToken
    BY <1>2, <2>2 DEF Token, AnyToken, s
  <2> QED BY <2>3, <2>4 DEF Tokens, s
<1>3. CASE e.kind = "Number"
  <2>1. e.val \in Seq(Digits)
    BY <1>3 DEF AnyExpr
  <2>2. Token("Number", e.val) \in AnyToken
    BY <1>1, <2>1 DEF Token, AnyToken
  <2> QED BY <1>3, <2>2 DEF ExprTokens, Tokens
<1>4. CASE e.kind = "Variable"
  BY <1>1, <1>4, MarkIs DEF ExprTokens
<1>5. CASE e.kind \in {"Capture", "CaptureName"}
  <2> DEFINE s == <<"$">> \o e.val
  <2>2. s \in Texts /\ s # <<>>
    <3>1. "$" \in Symbol
      BY SymbolAssumption
    <3>2. e.val \in Seq(Symbol)
      BY <1>1 DEF Texts
    <3>3. s \in Texts
      BY <3>1, <3>2 DEF Texts
    <3>4. Len(s) # 0
      BY <3>1, <3>2
    <3> HIDE DEF s
    <3> QED BY <3>3, <3>4
  <2> HIDE DEF s
  <2>3. Token("Capture", s) \in AnyToken
    BY <2>2 DEF Token, AnyToken
  <2> QED BY <1>5, <2>3 DEF Tokens, s, ExprTokens
<1> QED BY <1>1, <1>2, <1>3, <1>4, <1>5

\* A list of expressions is written as tokens.
LEMMA ListTokensIs == ASSUME NEW list \in Seq(AnyExpr) PROVE ListTokens(list) \in Tokens
<1> DEFINE s == [i \in DOMAIN list |-> ExprTokens(list[i])]
<1>2. s \in Seq(Seq(AnyToken))
  <2>1. DOMAIN list = 1 .. Len(list) /\ Len(list) \in Nat
    OBVIOUS
  <2> QED BY ExprTokensIs, <2>1 DEF Tokens
<1>3. ListTokens(list) = FlattenSeq(s)
  BY DEF ListTokens
<1> HIDE DEF s
<1> QED BY <1>2, <1>3, FlatIs DEF Tokens

\* A call is written as tokens.
LEMMA CallTokensIs == ASSUME NEW call \in AnyCall PROVE CallTokens(call) \in Tokens
<1>1. call.name \in Texts /\ call.args \in Seq(AnyExpr)
  BY DEF AnyCall
<1> DEFINE s == [i \in DOMAIN call.args |-> (IF i = 1 THEN <<>> ELSE Mark("Comma")) \o ExprTokens(call.args[i])]
<1>2. \A i \in DOMAIN call.args : s[i] \in Seq(AnyToken)
  <2> TAKE i \in DOMAIN call.args
  <2>1. ExprTokens(call.args[i]) \in Tokens
    BY <1>1, ExprTokensIs
  <2> QED BY <2>1, MarkIs, Beside DEF Tokens
<1>3. s \in Seq(Seq(AnyToken))
  <2>1. DOMAIN call.args = 1 .. Len(call.args) /\ Len(call.args) \in Nat
    BY <1>1
  <2>2. s = [i \in 1 .. Len(call.args) |-> s[i]]
    BY <2>1
  <2> HIDE DEF s
  <2> QED BY <2>1, <2>2, <1>2, SeqIs
<1> HIDE DEF s
<1>4. FlattenSeq(s) \in Tokens
  BY <1>3, FlatIs DEF Tokens
<1>6. (Mark("LeftParen") \o FlattenSeq(s)) \o Mark("RightParen") \in Tokens
  <2>1. Mark("LeftParen") \in Tokens /\ Mark("RightParen") \in Tokens
    BY MarkIs
  <2> QED BY <2>1, <1>4, Beside
<1>7. Word(call.name) \in Tokens /\ <<>> \in Tokens
  BY <1>1, MarkIs DEF Tokens
<1> QED BY <1>6, <1>7, Beside DEF CallTokens, s

\* Alternatives are written as tokens.
LEMMA AltTokensIs ==
    ASSUME NEW alts \in Seq(AnyList), NEW layout \in Layouts
    PROVE  AltTokens(alts, layout) \in Tokens
<1> DEFINE Stroke(i) == CASE i = 1 -> <<>>
                       [] i > 1 /\ layout.bars  -> LineEnd \o Indent(2) \o Mark("Pipe")
                       [] i > 1 /\ ~layout.bars -> Mark("Pipe")
           s == [i \in DOMAIN alts |-> Stroke(i) \o ListTokens(alts[i])]
<1>1. \A i \in DOMAIN alts : s[i] \in Seq(AnyToken)
  <2> TAKE i \in DOMAIN alts
  <2>1. ListTokens(alts[i]) \in Tokens
    BY ListTokensIs DEF AnyList
  <2>2. LineEnd \o Indent(2) \o Mark("Pipe") \in Tokens
    BY MarkIs, IndentIs, Beside
  <2>3. Stroke(i) \in Tokens
    <3>1. i \in Nat \ {0} /\ layout.bars \in BOOLEAN /\ Mark("Pipe") \in Tokens /\ <<>> \in Tokens
      BY MarkIs DEF Layouts, Tokens
    <3> QED BY <2>2, <3>1
  <2> HIDE DEF Stroke
  <2> QED BY <2>1, <2>3, Beside DEF Tokens
<1>2. s \in Seq(Seq(AnyToken))
  <2>1. DOMAIN alts = 1 .. Len(alts) /\ Len(alts) \in Nat
    OBVIOUS
  <2> HIDE DEF Stroke
  <2> QED BY <1>1, <2>1
<1>3. AltTokens(alts, layout) = FlattenSeq(s)
  BY DEF AltTokens
<1> HIDE DEF s
<1> QED BY <1>2, <1>3, FlatIs DEF Tokens

\* A block of actions is written as tokens.
LEMMA BlockTokensIs ==
    ASSUME NEW block \in Seq(AnyCall), NEW layout \in Layouts
    PROVE  BlockTokens(block, layout) \in Tokens
<1> DEFINE Opening(i) == IF i = 1 /\ layout.inline THEN <<>> ELSE LineEnd \o Gap(layout) \o Indent(2)
           s == [i \in DOMAIN block |-> Opening(i) \o CallTokens(block[i])]
<1>1. \A i \in DOMAIN block : s[i] \in Seq(AnyToken)
  <2> TAKE i \in DOMAIN block
  <2>2. LineEnd \o Gap(layout) \o Indent(2) \in Tokens
    BY MarkIs, GapIs, Beside, IndentIs
  <2>3. Opening(i) \in Tokens
    BY <2>2 DEF Tokens
  <2> HIDE DEF Opening
  <2> QED BY CallTokensIs, <2>3, Beside DEF Tokens
<1>2. s \in Seq(Seq(AnyToken))
  <2>1. DOMAIN block = 1 .. Len(block) /\ Len(block) \in Nat
    OBVIOUS
  <2> HIDE DEF Opening
  <2> QED BY <1>1, <2>1
<1>3. BlockTokens(block, layout) = FlattenSeq(s)
  BY DEF BlockTokens
<1> HIDE DEF s
<1> QED BY <1>2, <1>3, FlatIs DEF Tokens

\* A statement is written as tokens.
LEMMA StmtTokensIs ==
    ASSUME NEW stmt \in AnyStmt, NEW layout \in Layouts
    PROVE  StmtTokens(stmt, layout) \in Tokens
<1> DEFINE Leading == LineEnd \o Gap(layout) \o Indent(1)
           Rest == CASE stmt.kind = "Skip"   -> Mark("Skip") \o ListTokens(stmt.alts[1])
                     [] stmt.kind = "Action" -> CallTokens(stmt.actions[1])
                     [] OTHER -> Mark(stmt.kind) \o AltTokens(stmt.alts, layout) \o Mark("Colon")
                                 \o BlockTokens(stmt.actions, layout)
<1>1. Leading \in Tokens
  BY MarkIs, GapIs, Beside, IndentIs
<1>2. Rest \in Tokens
  <2>1. CASE stmt.kind = "Skip"
    <3>2. ListTokens(stmt.alts[1]) \in Tokens
      BY <2>1, ListTokensIs DEF AnyStmt, AnyList
    <3> QED BY <2>1, <3>2, MarkIs, Beside
  <2>2. CASE stmt.kind = "Action"
    BY <2>2, CallTokensIs DEF AnyStmt
  <2>3. CASE stmt.kind \in {"Match", "IMatch", "When"}
    <3>2. AltTokens(stmt.alts, layout) \in Tokens /\ BlockTokens(stmt.actions, layout) \in Tokens
      BY <2>3, AltTokensIs, BlockTokensIs DEF AnyStmt
    <3>3. Mark(stmt.kind) \in Tokens /\ Mark("Colon") \in Tokens
      BY <2>3, MarkIs
    <3>5. Mark(stmt.kind) \o AltTokens(stmt.alts, layout) \o Mark("Colon") \in Tokens
      BY <3>2, <3>3, Beside
    <3> QED BY <2>3, <3>5, <3>2, Beside
  <2> QED BY <2>1, <2>2, <2>3 DEF AnyStmt
<1>3. StmtTokens(stmt, layout) = Leading \o Rest
  BY DEF StmtTokens
<1> HIDE DEF Leading, Rest
<1> QED BY <1>1, <1>2, <1>3, Beside

\* A define is written as tokens.
LEMMA DefineTokensIs ==
    ASSUME NEW name \in Texts, NEW e \in AnyExpr
    PROVE  DefineTokens(name, e) \in Tokens
<1>1. Mark("Define") \in Tokens /\ Word(name) \in Tokens /\ ExprTokens(e) \in Tokens /\ LineEnd \in Tokens
  BY MarkIs, ExprTokensIs
<1>2. Mark("Define") \o Word(name) \in Tokens
  BY <1>1, Beside
<1> QED BY <1>1, <1>2, Beside DEF DefineTokens

\* A grammar is written as tokens.
LEMMA GrammarTokensIs ==
    ASSUME NEW name \in Texts, NEW grammar \in AnyGrammar, NEW layout \in Layouts
    PROVE  GrammarTokens(name, grammar, layout) \in Tokens
<1> DEFINE s == [i \in DOMAIN grammar.stmts |-> StmtTokens(grammar.stmts[i], layout)]
           heir == IF grammar.inherit = NoParent THEN <<>>
                   ELSE Mark("LeftParen") \o Word(grammar.inherit) \o Mark("RightParen")
<1>1. grammar.inherit \in Texts /\ grammar.stmts \in Seq(AnyStmt)
  BY DEF AnyGrammar
<1>2. \A i \in DOMAIN grammar.stmts : s[i] \in Seq(AnyToken)
  BY <1>1, StmtTokensIs DEF Tokens
<1>3. s \in Seq(Seq(AnyToken))
  <2>1. DOMAIN grammar.stmts = 1 .. Len(grammar.stmts) /\ Len(grammar.stmts) \in Nat
    BY <1>1
  <2>2. s = [i \in 1 .. Len(grammar.stmts) |-> s[i]]
    BY <2>1
  <2> HIDE DEF s
  <2>3. \A i \in 1 .. Len(grammar.stmts) : s[i] \in Seq(AnyToken)
    BY <1>2, <2>1
  <2> QED BY <2>1, <2>2, <2>3, SeqIs
<1>4. heir \in Tokens
  <2>1. Mark("LeftParen") \o Word(grammar.inherit) \in Tokens
    BY <1>1, MarkIs, Beside
  <2> QED BY <2>1, MarkIs, Beside DEF Tokens
<1>5. GrammarTokens(name, grammar, layout) = (((Mark("Grammar") \o Word(name)) \o heir) \o Mark("Colon")) \o FlattenSeq(s) \o LineEnd
  BY DEF GrammarTokens
<1> HIDE DEF s, heir
<1>6. FlattenSeq(s) \in Tokens
  BY <1>3, FlatIs DEF Tokens
<1>8. (Mark("Grammar") \o Word(name)) \o heir \in Tokens
  BY <1>4, MarkIs, Beside
<1>10. (((Mark("Grammar") \o Word(name)) \o heir) \o Mark("Colon")) \o FlattenSeq(s) \in Tokens
  BY <1>8, MarkIs, Beside, <1>6
<1> QED BY <1>10, <1>5, MarkIs, Beside

\* A document is written as tokens, in every layout.
LEMMA TokensOfIs ==
    ASSUME NEW doc, IsDoc(doc), NEW layout \in Layouts
    PROVE  TokensOf(doc, layout) \in Tokens
<1> DEFINE defines == SetToSeq(DOMAIN doc.defines)
           grammars == SetToSeq(DOMAIN doc.grammars)
           s == [i \in DOMAIN defines |-> DefineTokens(defines[i], doc.defines[defines[i]])]
           u == [i \in DOMAIN grammars |-> GrammarTokens(grammars[i], doc.grammars[grammars[i]], layout)]
<1>1. /\ IsFiniteSet(DOMAIN doc.defines) /\ \A n \in DOMAIN doc.defines : n \in Texts /\ doc.defines[n] \in AnyExpr
      /\ IsFiniteSet(DOMAIN doc.grammars) /\ \A n \in DOMAIN doc.grammars : n \in Texts /\ doc.grammars[n] \in AnyGrammar
  BY DEF IsDoc, IsMap
<1>2. defines \in Seq(DOMAIN doc.defines) /\ grammars \in Seq(DOMAIN doc.grammars)
  BY <1>1, ListOf
<1>3. TokensOf(doc, layout) = (FlattenSeq(s) \o FlattenSeq(u)) \o Mark("EOF")
  BY DEF TokensOf
<1> HIDE DEF defines, grammars
<1>4. \A i \in DOMAIN defines : s[i] \in Seq(AnyToken)
  <2> TAKE i \in DOMAIN defines
  <2> QED BY <1>1, <1>2, DefineTokensIs DEF Tokens
<1>5. \A i \in DOMAIN grammars : u[i] \in Seq(AnyToken)
  <2> TAKE i \in DOMAIN grammars
  <2> QED BY <1>1, <1>2, GrammarTokensIs DEF Tokens
<1>6. s \in Seq(Seq(AnyToken)) /\ u \in Seq(Seq(AnyToken))
  <2>1. /\ DOMAIN defines = 1 .. Len(defines) /\ Len(defines) \in Nat
        /\ DOMAIN grammars = 1 .. Len(grammars) /\ Len(grammars) \in Nat
    BY <1>2
  <2> QED BY <1>4, <1>5, <2>1
<1> HIDE DEF s, u
<1>8. FlattenSeq(s) \o FlattenSeq(u) \in Tokens
  BY <1>6, FlatIs, Beside DEF Tokens
<1> QED BY <1>3, <1>8, MarkIs, Beside

-----------------------------------------------------------------------------
(* What a variable stands for                                              *)

\* The chain of definitions that starts at a variable is what its unfolding
\* says.
LEMMA ResolveUnfolds ==
    ASSUME NEW defines, IsFiniteSet(DOMAIN defines), NEW e
    PROVE  \E f : /\ \A n \in DOMAIN defines, visited \in SUBSET DOMAIN defines :
                       /\ f[<<n, visited>>] =
                            IF n \in visited THEN e
                            ELSE IF defines[n].kind # "Variable" THEN defines[n]
                            ELSE IF NameOf(defines[n]) \in DOMAIN defines
                            THEN f[<<NameOf(defines[n]), visited \cup {n}>>] ELSE e
                       /\ f[<<n, visited>>] \in ChainEnds(defines, e)
                  /\ Resolve(defines, e) = IF e.kind = "Variable" /\ NameOf(e) \in DOMAIN defines
                                           THEN f[<<NameOf(e), {}>>] ELSE e
<1> DEFINE Names == DOMAIN defines
           n == Cardinality(Names)
           D == Names \X SUBSET Names
           V == ChainEnds(defines, e)
           Goes(x) == x[1] \notin x[2] /\ defines[x[1]].kind = "Variable" /\ NameOf(defines[x[1]]) \in Names
           Body(f, x) == IF x[1] \in x[2] THEN e
                         ELSE IF defines[x[1]].kind # "Variable" THEN defines[x[1]]
                         ELSE IF NameOf(defines[x[1]]) \in Names
                         THEN f[<<NameOf(defines[x[1]]), x[2] \cup {x[1]}>>] ELSE e
           M == [x \in D |-> Cardinality(x[2])]
           Stop == {x \in D : ~ Goes(x)}
           J == [x \in D |-> <<NameOf(defines[x[1]]), x[2] \cup {x[1]}>>]
           B == [x \in D |-> IF x[1] \in x[2] THEN e
                             ELSE IF defines[x[1]].kind # "Variable" THEN defines[x[1]] ELSE e]
           H == [x \in D \X V |-> x[2]]
           L == CHOOSE f : f = [x \in D |-> Body(f, x)]
<1>1. n \in Nat
  BY FS_CardinalityType
<1>2. \A s \in SUBSET Names : IsFiniteSet(s) /\ Cardinality(s) \in 0 .. n
  <2> TAKE s \in SUBSET Names
  <2>1. IsFiniteSet(s) /\ Cardinality(s) <= n
    BY FS_Subset
  <2> QED BY <2>1, FS_CardinalityType, <1>1
<1>3. M \in [D -> 0 .. n]
  <2>1. \A x \in D : x[2] \in SUBSET Names
    OBVIOUS
  <2> HIDE DEF D, n, Names
  <2> QED BY <2>1, <1>2
<1>4. \A x \in D : x \in Stop => B[x] \in V
  BY DEF ChainEnds
<1>5. ASSUME NEW x \in D, x \notin Stop PROVE J[x] \in D /\ M[J[x]] > M[x]
  <2> DEFINE s == x[2]
             y == <<NameOf(defines[x[1]]), x[2] \cup {x[1]}>>
  <2>1. x[1] \in Names /\ s \in SUBSET Names /\ x[1] \notin s /\ NameOf(defines[x[1]]) \in Names
    BY <1>5
  <2>2. y \in D /\ y[2] = s \cup {x[1]}
    BY <2>1
  <2>3. Cardinality(s \cup {x[1]}) = Cardinality(s) + 1 /\ Cardinality(s) \in Nat
    <3> HIDE DEF s
    <3> QED BY <2>1, <1>2, <1>1, FS_AddElement
  <2>4. M[y] = Cardinality(y[2]) /\ M[x] = Cardinality(s) /\ J[x] = y
    BY <2>2
  <2> HIDE DEF y, s, M, J
  <2> QED BY <2>2, <2>3, <2>4
<1>6. \A x \in D, v \in V : H[<<x, v>>] = v
  <2> HIDE DEF D, V
  <2> QED OBVIOUS
<1>7. \A x \in D : (x \in Stop => Body(J, x) = B[x]) /\ (x \notin Stop => \A f : Body(f, x) = f[J[x]])
  OBVIOUS
<1>8. \A f : \A x \in D : x \in Stop => Body(f, x) = B[x]
  OBVIOUS
<1>9. Resolve(defines, e) = IF e.kind = "Variable" /\ NameOf(e) \in Names THEN L[<<NameOf(e), {}>>] ELSE e
  BY DEF Resolve
<1>10. \A k \in Names, s \in SUBSET Names : <<k, s>> \in D
  OBVIOUS
<1> HIDE DEF n, D, V, M, Stop, J, B, H
<1>11. Recursion(D, n, V, M, Stop, J, B, H)
  BY <1>1, <1>3, <1>4, <1>5, <1>6 DEF Recursion
<1>12. PICK g \in [D -> V] : \A x \in D : g[x] = IF x \in Stop THEN B[x] ELSE H[<<x, g[J[x]]>>]
  BY <1>11, Unfolds
<1> HIDE DEF Body
<1>13. ASSUME NEW x \in D PROVE g[x] = Body(g, x)
  <2>1. x \notin Stop => J[x] \in D /\ g[J[x]] \in V
    BY <1>5, <1>12
  <2>2. x \notin Stop => H[<<x, g[J[x]]>>] = g[J[x]]
    BY <2>1, <1>6
  <2> QED BY <2>1, <2>2, <1>7, <1>8, <1>12
<1>14. L = [x \in D |-> Body(L, x)]
  BY <1>12, <1>13
<1> HIDE DEF L
<1>15. \A x \in D : L[x] = Body(L, x)
  BY <1>14
<1> DEFINE Good == {x \in D : L[x] \in V}
<1>16. ASSUME NEW x \in D, \A y \in D : M[y] > M[x] => y \in Good PROVE x \in Good
  <2>1. CASE x \in Stop
    BY <2>1, <1>4, <1>8, <1>15
  <2>2. CASE x \notin Stop
    <3>1. J[x] \in D /\ L[J[x]] \in V
      BY <2>2, <1>5, <1>16
    <3> QED BY <2>2, <3>1, <1>7, <1>15
  <2> QED BY <2>1, <2>2
<1> HIDE DEF Good
<1>17. \A x \in D : x \in Good
  BY <1>1, <1>3, <1>16, Descent
<1>18. \A x \in D : L[x] \in V
  BY <1>17 DEF Good
<1>19. \A k \in Names, s \in SUBSET Names :
         /\ L[<<k, s>>] = IF k \in s THEN e
                          ELSE IF defines[k].kind # "Variable" THEN defines[k]
                          ELSE IF NameOf(defines[k]) \in Names
                          THEN L[<<NameOf(defines[k]), s \cup {k}>>] ELSE e
         /\ L[<<k, s>>] \in V
  <2> TAKE k \in Names, s \in SUBSET Names
  <2> DEFINE x == <<k, s>>
  <2>1. x \in D /\ x[1] = k /\ x[2] = s
    BY <1>10
  <2> HIDE DEF x
  <2>2. L[x] = Body(L, x) /\ L[x] \in V
    BY <2>1, <1>15, <1>18
  <2> QED BY <2>1, <2>2 DEF Body, x
<1> QED BY <1>9, <1>19 DEF V

\* A chain ends in what is no variable, or leads back to where it started from.
LEMMA ResolveIs ==
    ASSUME NEW defines, IsFiniteSet(DOMAIN defines), NEW e
    PROVE  /\ \/ Resolve(defines, e) = e
              \/ \E m \in DOMAIN defines : Resolve(defines, e) = defines[m] /\ defines[m].kind # "Variable"
           /\ e.kind # "Variable" => Resolve(defines, e) = e
           /\ e.kind = "Variable" /\ NameOf(e) \in DOMAIN defines /\ defines[NameOf(e)].kind # "Variable"
                => Resolve(defines, e) = defines[NameOf(e)]
           /\ NameOf(e) \notin DOMAIN defines => Resolve(defines, e) = e
<1>1. PICK f : /\ \A n \in DOMAIN defines, visited \in SUBSET DOMAIN defines :
                    /\ f[<<n, visited>>] =
                         IF n \in visited THEN e
                         ELSE IF defines[n].kind # "Variable" THEN defines[n]
                         ELSE IF NameOf(defines[n]) \in DOMAIN defines
                         THEN f[<<NameOf(defines[n]), visited \cup {n}>>] ELSE e
                    /\ f[<<n, visited>>] \in ChainEnds(defines, e)
               /\ Resolve(defines, e) = IF e.kind = "Variable" /\ NameOf(e) \in DOMAIN defines
                                        THEN f[<<NameOf(e), {}>>] ELSE e
  BY ResolveUnfolds
<1>2. CASE e.kind = "Variable" /\ NameOf(e) \in DOMAIN defines
  <2>1. {} \in SUBSET DOMAIN defines
    OBVIOUS
  <2>2. f[<<NameOf(e), {}>>] \in ChainEnds(defines, e)
    BY <1>1, <1>2, <2>1
  <2>3. defines[NameOf(e)].kind # "Variable" => f[<<NameOf(e), {}>>] = defines[NameOf(e)]
    BY <1>1, <1>2, <2>1
  <2> DEFINE r == f[<<NameOf(e), {}>>]
  <2>4. r = e \/ \E m \in DOMAIN defines : r = defines[m] /\ defines[m].kind # "Variable"
    BY <2>2 DEF ChainEnds
  <2>5. Resolve(defines, e) = r /\ (defines[NameOf(e)].kind # "Variable" => r = defines[NameOf(e)])
    BY <1>1, <1>2, <2>3
  <2> HIDE DEF r
  <2> QED BY <1>2, <2>4, <2>5
<1>3. CASE ~ (e.kind = "Variable" /\ NameOf(e) \in DOMAIN defines)
  BY <1>1, <1>3
<1> QED BY <1>2, <1>3

\* A variable stands for an expression, perhaps itself.
LEMMA ResolvedIs ==
    ASSUME NEW defines, IsMap(defines, AnyExpr), NEW e \in AnyExpr
    PROVE  Resolve(defines, e) \in AnyExpr
BY ResolveIs DEF IsMap

-----------------------------------------------------------------------------
(* Regular expressions                                                     *)

\* Where the items end: each after the one before.
LEMMA EndOfIs ==
    ASSUME NEW n \in Nat, NEW taken \in [1 .. n -> Nat]
    PROVE  /\ EndOf(taken, 0) = 0
           /\ \A i \in 0 .. n : EndOf(taken, i) \in Nat
           /\ \A i \in 1 .. n : EndOf(taken, i) = EndOf(taken, i - 1) + taken[i]
           /\ \A i, j \in 0 .. n : i <= j => EndOf(taken, i) <= EndOf(taken, j)
<1> DEFINE H == [x \in (1 .. n) \X Nat |-> x[2] + taken[x[1]]]
           Body(f, j) == IF j = 0 THEN 0 ELSE f[j - 1] + taken[j]
           L == CHOOSE f : f = [j \in 0 .. n |-> Body(f, j)]
<1>1. taken \in Seq(Nat) /\ Len(taken) = n
  OBVIOUS
<1>2. \A i : EndOf(taken, i) = L[i]
  BY <1>1 DEF EndOf
<1>3. \A i \in 1 .. n, v \in Nat : H[<<i, v>>] = v + taken[i] /\ H[<<i, v>>] \in Nat
  OBVIOUS
<1> HIDE DEF H
<1>5. PICK g : Iterated(g, n, Nat, 0, H)
  BY <1>3, Iterates DEF Iteration
<1>5a. g \in [0 .. n -> Nat] /\ g[0] = 0 /\ \A i \in 1 .. n : g[i] = H[<<i, g[i - 1]>>]
  BY <1>5 DEF Iterated
<1>6. g = [j \in 0 .. n |-> Body(g, j)]
  <2>1. \A j \in 0 .. n : g[j] = Body(g, j)
    <3> TAKE j \in 0 .. n
    <3>1. j # 0 => j \in 1 .. n /\ g[j - 1] \in Nat
      BY <1>5a
    <3> QED BY <3>1, <1>3, <1>5a
  <2> HIDE DEF Body
  <2> QED BY <2>1, <1>5a
<1>7. L = [j \in 0 .. n |-> Body(L, j)]
  <2> HIDE DEF Body
  <2> QED BY <1>6
<1> HIDE DEF L
<1>8. L[0] = 0 /\ \A j \in 1 .. n : L[j] = L[j - 1] + taken[j]
  <2>1. \A j \in 0 .. n : L[j] = Body(L, j)
    <3> HIDE DEF Body
    <3> QED BY <1>7
  <2> QED BY <2>1
<1> DEFINE Good == {i \in 0 .. n : L[i] \in Nat}
<1>9. \A i \in 0 .. n : i \in Good
  <2>1. 0 \in Good
    BY <1>8
  <2>2. ASSUME NEW i \in 1 .. n, i - 1 \in Good PROVE i \in Good
    BY <2>2, <1>8
  <2> HIDE DEF Good
  <2> QED BY <2>1, <2>2, Ascent
<1>10. \A i \in 0 .. n : L[i] \in Nat
  BY <1>9
<1> DEFINE Up == {j \in 0 .. n : \A i \in 0 .. j : L[i] <= L[j]}
<1>11. \A j \in 0 .. n : j \in Up
  <2>1. 0 \in Up
    BY <1>8
  <2>2. ASSUME NEW j \in 1 .. n, j - 1 \in Up PROVE j \in Up
    <3>1. j - 1 \in 0 .. n /\ L[j] \in Nat /\ L[j - 1] \in Nat /\ taken[j] \in Nat /\ L[j] = L[j - 1] + taken[j]
      BY <1>8, <1>10
    <3>2. ASSUME NEW i \in 0 .. j PROVE L[i] <= L[j]
      <4>1. CASE i = j
        BY <4>1, <3>1
      <4>2. CASE i # j
        <5>1. i \in 0 .. j - 1 /\ i \in 0 .. n
          BY <4>2
        <5> QED BY <5>1, <2>2, <1>10, <3>1
      <4> QED BY <4>1, <4>2
    <3> QED BY <3>2
  <2> HIDE DEF Up
  <2> QED BY <2>1, <2>2, Ascent
<1>12. \A i, j \in 0 .. n : i <= j => L[i] <= L[j]
  BY <1>11
<1> QED BY <1>2, <1>8, <1>10, <1>12

\* Among the ways to divide there is a greediest one.
LEMMA Greediest ==
    ASSUME NEW n \in Nat, NEW m \in Nat, NEW D \in SUBSET Takes(n, m), D # {}
    PROVE  \E x \in D : \A y \in D \ {x} : Before(x, y)
<1> DEFINE Alike(x, y, k) == \A j \in 1 .. k : x[j] = y[j]
           Ahead(x, y, k) == \E i \in 1 .. k : x[i] > y[i] /\ Alike(x, y, i - 1)
           Good == {k \in 0 .. n : \E x \in D : \A y \in D : Alike(x, y, k) \/ Ahead(x, y, k)}
<1>1. 0 \in Good
  OBVIOUS
<1>2. ASSUME NEW k \in 1 .. n, k - 1 \in Good PROVE k \in Good
  <2>1. PICK x \in D : \A y \in D : Alike(x, y, k - 1) \/ Ahead(x, y, k - 1)
    BY <1>2
  <2> DEFINE T == {y[k] : y \in {z \in D : Alike(x, z, k - 1)}}
  <2>2. x[k] \in T /\ T \in SUBSET (0 .. m)
    BY DEF Takes
  <2>3. PICK v \in T : \A w \in T : w <= v
    <3> HIDE DEF T
    <3> QED BY <2>2, Largest
  <2>4. PICK u \in D : Alike(x, u, k - 1) /\ v = u[k]
    BY <2>3
  <2>5. ASSUME NEW y \in D PROVE Alike(u, y, k) \/ Ahead(u, y, k)
    <3>1. CASE Ahead(x, y, k - 1)
      <4>1. PICK i \in 1 .. k - 1 : x[i] > y[i] /\ Alike(x, y, i - 1)
        BY <3>1
      <4>3. Alike(u, y, i - 1)
        BY <2>4, <4>1
      <4> QED BY <4>1, <2>4, <4>3
    <3>2. CASE Alike(x, y, k - 1)
      <4>1. y[k] \in T /\ y[k] <= u[k]
        BY <3>2, <2>3, <2>4
      <4>2. y[k] \in 0 .. m /\ u[k] \in 0 .. m
        BY DEF Takes
      <4>3. Alike(u, y, k - 1)
        BY <3>2, <2>4
      <4>4. CASE y[k] = u[k]
        BY <4>3, <4>4
      <4>5. CASE y[k] # u[k]
        BY <4>1, <4>2, <4>5, <4>3
      <4> QED BY <4>4, <4>5
    <3> HIDE DEF Alike, Ahead
    <3> QED BY <2>1, <3>1, <3>2
  <2> HIDE DEF Alike, Ahead
  <2> QED BY <2>5
<1>3. n \in Good
  <2> HIDE DEF Good
  <2> QED BY <1>1, <1>2, Ascent
<1>4. PICK x \in D : \A y \in D : Alike(x, y, n) \/ Ahead(x, y, n)
  BY <1>3
<1>5. ASSUME NEW y \in D, y # x PROVE Before(x, y)
  <2>1. x \in [1 .. n -> 0 .. m] /\ y \in [1 .. n -> 0 .. m]
    BY DEF Takes
  <2>2. ~ Alike(x, y, n)
    BY <2>1, <1>5
  <2>3. DOMAIN x = 1 .. n
    BY <2>1
  <2> QED BY <2>2, <2>3, <1>4 DEF Before
<1> QED BY <1>5

\* The outcomes of an evaluation are such values.
LEMMA MatchIs ==
    /\ \A len \in Nat, caps \in Seq(Texts), names \in Seq(Texts) : Match(len, caps, names) \in AnyMatch
    /\ NoMatch \in AnyMatch /\ Overflow \in AnyMatch /\ Refused \in AnyMatch
    /\ NoMatch.is = "none" /\ Overflow.is = "overflow" /\ Refused.is = "error" /\ NoMatch.len = 0
<1>1. \A len \in Nat, caps \in Seq(Texts), names \in Seq(Texts) : Match(len, caps, names) \in AnyMatch
  BY DEF Match, AnyMatch
<1>3. \A is \in {"none", "overflow", "error"} : [is |-> is, len |-> 0, caps |-> <<>>, names |-> <<>>] \in AnyMatch
  BY DEF AnyMatch
<1> QED BY <1>1, <1>3 DEF NoMatch, Overflow, Refused

\* What the window shows of a text is a text.
LEMMA WindowIs == ASSUME NEW s \in Texts PROVE InWindow(s) \in Texts
<1>2. 1 \in Nat \ {0}
  OBVIOUS
<1> QED BY WindowAssumption, <1>2, PartIs DEF Texts, InWindow

\* The rest of a text is a text.
LEMMA RestIs == ASSUME NEW s \in Texts, NEW n \in Nat PROVE SubSeq(s, n + 1, Len(s)) \in Texts
BY PartIs DEF Texts

\* The divisions of a text, and the match made of one.
LEMMA DivisionsAre ==
    ASSUME NEW re, IsRe(re), NEW s \in Texts, NEW ci
    PROVE  /\ Len(re.items) \in Nat /\ DOMAIN re.items = 1 .. Len(re.items)
           /\ Divisions(re, s, ci) \in SUBSET Takes(Len(re.items), Len(s))
           /\ \A x \in Divisions(re, s, ci) : x \in [1 .. Len(re.items) -> Nat] /\ EndOf(x, Len(re.items)) <= Len(s)
                                              /\ Len(x) = Len(re.items)
<1>1. Len(re.items) \in Nat /\ DOMAIN re.items = 1 .. Len(re.items) /\ Len(s) \in Nat
  BY DEF IsRe, Texts
<1>2. ASSUME NEW x \in Divisions(re, s, ci)
      PROVE  x \in Takes(Len(re.items), Len(s)) /\ EndOf(x, Len(x)) <= Len(s)
  BY <1>1 DEF Divisions, Takes
<1>3. \A x \in Takes(Len(re.items), Len(s)) : x \in [1 .. Len(re.items) -> Nat] /\ Len(x) = Len(re.items)
  BY <1>1 DEF Takes
<1> QED BY <1>1, <1>2, <1>3

\* What a division matches and where it ends.
LEMMA TakingIs ==
    ASSUME NEW re, IsRe(re), NEW s \in Texts, NEW ci, NEW x \in Divisions(re, s, ci)
    PROVE  /\ Taking(re, s, x) \in AnyMatch /\ Taking(re, s, x).is = "match"
           /\ Taking(re, s, x).len = EndOf(x, Len(re.items)) /\ Taking(re, s, x).len \in 0 .. Len(s)
<1> DEFINE n == Len(re.items)
           k == Len(re.groups)
           caps == [i \in DOMAIN re.groups |->
                      SubSeq(s, EndOf(x, re.groups[i].from - 1) + 1, EndOf(x, re.groups[i].to))]
           names == [i \in DOMAIN re.groups |-> re.groups[i].name]
<1>1. n \in Nat /\ x \in [1 .. n -> Nat] /\ EndOf(x, n) <= Len(s) /\ Len(x) = n
  BY DivisionsAre
<1>2. k \in Nat /\ DOMAIN re.groups = 1 .. k /\ \A i \in 1 .. k : re.groups[i] \in AnyGroup
                /\ re.groups[i].from <= re.groups[i].to + 1 /\ re.groups[i].to <= n
  <2>1. re.groups \in Seq(AnyGroup)
    BY DEF IsRe, AnyGroup
  <2>2. k \in Nat /\ DOMAIN re.groups = 1 .. k /\ \A i \in 1 .. k : re.groups[i] \in AnyGroup
    BY <2>1
  <2> QED BY <2>2 DEF IsRe
<1>3. s \in Seq(Symbol) /\ Len(s) \in Nat
  BY DEF Texts
<1>4. Taking(re, s, x) = Match(EndOf(x, n), caps, names)
  BY <1>1 DEF Taking
<1> HIDE DEF n, k
<1>5. \A i \in 0 .. n : EndOf(x, i) \in 0 .. Len(s)
  <2> TAKE i \in 0 .. n
  <2>1. n \in 0 .. n /\ i <= n
    BY <1>1
  <2> QED BY <2>1, <1>1, EndOfIs, <1>3
<1>6. \A i \in 1 .. k : caps[i] \in Texts
  <2> TAKE i \in 1 .. k
  <2> DEFINE g == re.groups[i]
  <2>1. g.from \in Nat \ {0} /\ g.to \in Nat /\ g.to <= n /\ g.from <= g.to + 1
    BY <1>2 DEF AnyGroup
  <2> HIDE DEF g
  <2>2. g.from - 1 \in 0 .. n /\ g.to \in 0 .. n
    BY <2>1, <1>1
  <2> DEFINE a == EndOf(x, g.from - 1)
             b == EndOf(x, g.to)
  <2> HIDE DEF a, b
  <2>4. a + 1 \in Nat \ {0} /\ b \in 0 .. Len(s)
    BY <2>2, <1>5, <1>3 DEF a, b
  <2>5. SubSeq(s, a + 1, b) \in Texts
    BY <2>4, <1>3, PartIs DEF Texts
  <2>6. caps[i] = SubSeq(s, a + 1, b)
    BY <1>2 DEF a, b, g
  <2> HIDE DEF caps
  <2> QED BY <2>5, <2>6
<1>7. \A i \in 1 .. k : names[i] \in Texts
  BY <1>2 DEF AnyGroup
<1>8. caps = [i \in 1 .. k |-> caps[i]] /\ names = [i \in 1 .. k |-> names[i]]
  BY <1>2
<1> HIDE DEF caps, names
<1>9. caps \in Seq(Texts) /\ names \in Seq(Texts)
  BY <1>2, <1>6, <1>7, <1>8, SeqIs
<1>10. EndOf(x, n) \in 0 .. Len(s)
  BY <1>1, <1>5
<1>12. Match(EndOf(x, n), caps, names) \in AnyMatch
  BY <1>9, <1>10, <1>3, MatchIs
<1> QED BY <1>4, <1>10, <1>12 DEF Match, n

\* What is found is the first division in the order of the engine, if there is
\* one.
LEMMA FindIs ==
    ASSUME NEW re, IsRe(re), NEW s \in Texts, NEW ci
    PROVE  /\ Find(re, s, ci) \in AnyMatch /\ Find(re, s, ci).is \in {"none", "match"}
           /\ Divisions(re, s, ci) = {} => Find(re, s, ci) = NoMatch
           /\ Divisions(re, s, ci) # {} =>
                \E x \in Divisions(re, s, ci) : /\ \A y \in Divisions(re, s, ci) \ {x} : Before(x, y)
                                                /\ Find(re, s, ci) = Taking(re, s, x)
<1> DEFINE D == Divisions(re, s, ci)
<1>1. CASE D = {}
  BY <1>1, MatchIs DEF Find
<1>2. CASE D # {}
  <2> DEFINE x == CHOOSE x \in D : \A y \in D \ {x} : Before(x, y)
  <2>1. \E z \in D : \A y \in D \ {z} : Before(z, y)
    <3>1. Len(re.items) \in Nat /\ Len(s) \in Nat /\ D \in SUBSET Takes(Len(re.items), Len(s))
      BY DivisionsAre DEF Texts
    <3> HIDE DEF D
    <3> QED BY <3>1, <1>2, Greediest
  <2>2. x \in D /\ \A y \in D \ {x} : Before(x, y)
    <3> HIDE DEF D
    <3> QED BY <2>1
  <2>3. Find(re, s, ci) = Taking(re, s, x)
    BY <1>2 DEF Find
  <2> HIDE DEF x
  <2> QED BY <1>2, <2>2, <2>3, TakingIs
<1> QED BY <1>1, <1>2

-----------------------------------------------------------------------------
(* Expressions and lists of them                                           *)

\* A reference back is to one capture or to none.
LEMMA ReferredIs ==
    ASSUME NEW ref, NEW caps \in Seq(Texts), NEW names
    PROVE  Referred(ref, caps, names) = <<>> \/ \E u \in Texts : Referred(ref, caps, names) = <<u>>
<1> DEFINE i == IF AllDigits(ref) THEN IndexOf(ref) + 1
                ELSE SelectInSeq(names, LAMBDA n : n = ref)
<1>1. Referred(ref, caps, names) = IF i \in DOMAIN caps THEN <<caps[i]>> ELSE <<>>
  BY DEF Referred
<1> HIDE DEF i
<1>2. i \in DOMAIN caps => caps[i] \in Texts
  OBVIOUS
<1> QED BY <1>1, <1>2

\* A text compared in place matches or does not.
LEMMA MatchTextIs ==
    ASSUME NEW s \in Texts, NEW u \in Texts, NEW ci
    PROVE  MatchText(s, u, ci) \in AnyMatch /\ MatchText(s, u, ci).is \in {"none", "match"}
<1>1. Len(u) \in Nat /\ <<u>> \in Seq(Texts) /\ <<NoName>> \in Seq(Texts)
  BY DEF Texts, NoName
<1>2. Match(Len(u), <<u>>, <<NoName>>) \in AnyMatch /\ Match(Len(u), <<u>>, <<NoName>>).is = "match"
  <2>1. Match(Len(u), <<u>>, <<NoName>>).is = "match"
    BY DEF Match
  <2> QED BY <1>1, <2>1, MatchIs
<1> QED BY <1>2, MatchIs DEF MatchText

\* The whole match as the only capture.
LEMMA WithWholeIs ==
    ASSUME NEW s \in Texts, NEW m \in AnyMatch, m.len \in 0 .. Len(s)
    PROVE  WithWhole(s, m) \in AnyMatch /\ WithWhole(s, m).is = m.is
<1>1. CASE m.is = "match"
  <2>1. m.len \in Nat /\ m.caps \in Seq(Texts) /\ m.names \in Seq(Texts)
    BY DEF AnyMatch
  <2>2. SubSeq(s, 1, m.len) \in Texts
    BY PartIs DEF Texts
  <2> DEFINE u == SubSeq(s, 1, m.len)
  <2>3. WithWhole(s, m) = Match(m.len, <<u>> \o m.caps, <<NoName>> \o m.names)
    BY <1>1 DEF WithWhole
  <2> HIDE DEF u
  <2>4. <<u>> \o m.caps \in Seq(Texts)
    BY <2>1, <2>2 DEF u
  <2>5. <<NoName>> \o m.names \in Seq(Texts)
    <3> HIDE DEF NoName
    <3> QED BY <2>1 DEF Texts, NoName
  <2>6. Match(m.len, <<u>> \o m.caps, <<NoName>> \o m.names) \in AnyMatch
    BY <2>1, <2>4, <2>5, MatchIs
  <2> QED BY <1>1, <2>3, <2>6 DEF Match
<1>2. CASE m.is # "match"
  BY <1>2 DEF WithWhole
<1> QED BY <1>1, <1>2

\* What is found lies within the text.
LEMMA FindLen ==
    ASSUME NEW re, IsRe(re), NEW s \in Texts, NEW ci
    PROVE  Find(re, s, ci).len \in 0 .. Len(s)
<1>2. CASE Divisions(re, s, ci) = {}
  BY <1>2, FindIs, MatchIs DEF Texts
<1>3. CASE Divisions(re, s, ci) # {}
  <2>1. PICK x \in Divisions(re, s, ci) : Find(re, s, ci) = Taking(re, s, x)
    BY <1>3, FindIs
  <2> QED BY <2>1, TakingIs
<1> QED BY <1>2, <1>3

\* An expression evaluated: only a variable overflows.
LEMMA EvalExpressionIs ==
    ASSUME NEW defines, NEW e \in AnyExpr, NEW s \in Texts, NEW ci, NEW caps \in Seq(Texts), NEW names
    PROVE  /\ EvalExpression(defines, e, s, ci, caps, names) \in AnyMatch
           /\ EvalExpression(defines, e, s, ci, caps, names).is = "overflow" => e.kind = "Variable"
           /\ EvalExpression(defines, e, s, ci, caps, names).is # "error"
<1>0. e.val \in Texts /\ e.kind \in {"String", "Regex", "Number", "Variable", "Capture", "CaptureName"}
  BY DEF AnyExpr
<1> DEFINE r == EvalExpression(defines, e, s, ci, caps, names)
<1>1. CASE e.kind = "Regex"
  <2>1. CASE e.val \in DOMAIN Pattern
    <3> DEFINE w == InWindow(s)
               f == Find(Pattern[e.val], w, ci)
    <3>1. IsRe(Pattern[e.val]) /\ w \in Texts
      BY <2>1, PatternAssumption, WindowIs
    <3>2. r = WithWhole(s, f)
      BY <1>1, <2>1 DEF EvalExpression
    <3>3. f \in AnyMatch /\ f.is \in {"none", "match"} /\ f.len \in 0 .. Len(w)
      <4> HIDE DEF w
      <4> QED BY <3>1, FindIs, FindLen
    <3>4. Len(w) <= Len(s) /\ Len(w) \in Nat
      <4>2. 1 \in Nat \ {0}
        OBVIOUS
      <4> QED BY WindowAssumption, <4>2, PartIs DEF Texts, InWindow
    <3> HIDE DEF f, w, r
    <3>5. f.len \in 0 .. Len(s)
      BY <3>3, <3>4 DEF Texts
    <3>7. r \in AnyMatch /\ r.is \in {"none", "match"}
      BY <3>2, <3>3, <3>5, WithWholeIs
    <3> QED BY <3>7 DEF r
  <2>2. CASE e.val \notin DOMAIN Pattern
    BY <1>1, <2>2, MatchIs DEF EvalExpression
  <2> QED BY <2>1, <2>2
<1>2. CASE e.kind \in {"String", "Number"}
  <2>1. \/ r = MatchText(s, e.val, ci)
        \/ r = MatchText(s, e.val, FALSE)
    BY <1>2 DEF EvalExpression
  <2> HIDE DEF r
  <2>2. r \in AnyMatch /\ r.is \in {"none", "match"}
    BY <1>0, <2>1, MatchTextIs
  <2> QED BY <2>2 DEF r
<1>3. CASE e.kind = "Variable"
  BY <1>3, MatchIs DEF EvalExpression
<1>4. CASE e.kind \in {"Capture", "CaptureName"}
  <2> DEFINE u == Referred(e.val, caps, names)
  <2>1. r = IF u = <<>> THEN NoMatch ELSE MatchText(s, u[1], ci)
    BY <1>4 DEF EvalExpression
  <2>2. u = <<>> \/ \E v \in Texts : u = <<v>>
    BY ReferredIs
  <2> HIDE DEF r, u
  <2>3. r \in AnyMatch /\ r.is \in {"none", "match"}
    BY <2>1, <2>2, MatchIs, MatchTextIs
  <2> QED BY <2>3 DEF r
<1> QED BY <1>0, <1>1, <1>2, <1>3, <1>4

\* A match continued has the outcome of what continues it.
LEMMA JoinedIs ==
    ASSUME NEW m \in AnyMatch, NEW next \in AnyMatch
    PROVE  Joined(m, next) \in AnyMatch /\ Joined(m, next).is = next.is
<1>1. CASE next.is = "match"
  <2>1. m.len + next.len \in Nat /\ m.caps \o next.caps \in Seq(Texts) /\ m.names \o next.names \in Seq(Texts)
    BY DEF AnyMatch
  <2>3. Match(m.len + next.len, m.caps \o next.caps, m.names \o next.names) \in AnyMatch
    BY <2>1, MatchIs
  <2> QED BY <1>1, <2>3 DEF Match, Joined
<1>2. CASE next.is # "match"
  BY <1>2 DEF Joined
<1> QED BY <1>1, <1>2

\* One step of the batch engine along a list: only a variable overflows.
LEMMA StepOneIs ==
    ASSUME NEW defines, NEW e \in AnyExpr, NEW s \in Texts, NEW ci, NEW m \in AnyMatch
    PROVE  /\ StepOne(defines, s, ci, m, e) \in AnyMatch
           /\ StepOne(defines, s, ci, m, e).is = "overflow" => m.is = "overflow" \/ e.kind = "Variable"
<1>1. CASE m.is # "match"
  BY <1>1 DEF StepOne
<1>2. CASE m.is = "match"
  <2> DEFINE rest == SubSeq(s, m.len + 1, Len(s))
             x == EvalExpression(defines, e, rest, ci, m.caps, m.names)
  <2>1. m.len \in Nat /\ m.caps \in Seq(Texts)
    BY DEF AnyMatch
  <2>2. rest \in Texts
    BY <2>1, RestIs
  <2>3. StepOne(defines, s, ci, m, e) = Joined(m, x)
    BY <1>2 DEF StepOne
  <2> HIDE DEF rest
  <2>4. x \in AnyMatch /\ (x.is = "overflow" => e.kind = "Variable")
    BY <2>1, <2>2, EvalExpressionIs
  <2> HIDE DEF x
  <2> QED BY <2>3, <2>4, JoinedIs
<1> QED BY <1>1, <1>2

\* An expression evaluated by the streaming engine.
LEMMA EvalStreamingIs ==
    ASSUME NEW defines, IsMap(defines, AnyExpr), NEW e \in AnyExpr, NEW s \in Texts, NEW ci,
           NEW caps \in Seq(Texts), NEW names
    PROVE  EvalStreaming(defines, e, s, ci, caps, names) \in AnyMatch
<1> DEFINE q == Resolve(defines, e)
           r == EvalStreaming(defines, e, s, ci, caps, names)
<1>a. q.val \in Texts /\ q.kind \in {"String", "Regex", "Number", "Variable", "Capture", "CaptureName"}
  BY ResolvedIs DEF AnyExpr
<1>1. CASE q.kind = "Regex"
  <2>1. CASE q.val \in DOMAIN Pattern
    <3> DEFINE f == Find(Pattern[q.val], s, ci)
    <3>1. IsRe(Pattern[q.val])
      BY <2>1, PatternAssumption
    <3>2. r = WithWhole(s, f)
      BY <1>1, <2>1 DEF EvalStreaming
    <3> HIDE DEF q, r
    <3>3. f \in AnyMatch /\ f.len \in 0 .. Len(s)
      BY <3>1, FindIs, FindLen
    <3> HIDE DEF f
    <3>4. r \in AnyMatch
      BY <3>2, <3>3, WithWholeIs
    <3> QED BY <3>4 DEF r
  <2>2. CASE q.val \notin DOMAIN Pattern
    BY <1>1, <2>2, MatchIs DEF EvalStreaming
  <2> QED BY <2>1, <2>2
<1>2. CASE q.kind \in {"String", "Number"}
  <2>1. \/ r = MatchText(s, q.val, ci)
        \/ r = MatchText(s, q.val, FALSE)
    BY <1>2 DEF EvalStreaming
  <2> HIDE DEF r, q
  <2>2. r \in AnyMatch
    BY <1>a, <2>1, MatchTextIs
  <2> QED BY <2>2 DEF r
<1>3. CASE q.kind = "Variable"
  BY <1>3, MatchIs DEF EvalStreaming
<1>4. CASE q.kind \in {"Capture", "CaptureName"}
  <2> DEFINE u == Referred(q.val, caps, names)
  <2>1. r = IF u \in {<<>>, <<<<>>>>} THEN NoMatch ELSE MatchText(s, u[1], FALSE)
    BY <1>4 DEF EvalStreaming
  <2> HIDE DEF q, r
  <2>2. u = <<>> \/ \E v \in Texts : u = <<v>>
    BY ReferredIs
  <2> HIDE DEF u
  <2>3. r = NoMatch \/ \E v \in Texts : r = MatchText(s, v, FALSE)
    <3>1. CASE u = <<>>
      BY <3>1, <2>1
    <3>2. ASSUME NEW v \in Texts, u = <<v>> PROVE r = NoMatch \/ r = MatchText(s, v, FALSE)
      BY <3>2, <2>1
    <3> QED BY <3>1, <3>2, <2>2
  <2> QED BY <2>3, MatchIs, MatchTextIs DEF r
<1> QED BY <1>a, <1>1, <1>2, <1>3, <1>4

\* A step along a list by the streaming engine.
LEMMA StepStreamingIs ==
    ASSUME NEW defines, IsMap(defines, AnyExpr), NEW e \in AnyExpr, NEW s \in Texts, NEW ci, NEW m \in AnyMatch
    PROVE  StepStreaming(defines, s, ci, m, e) \in AnyMatch
<1>1. CASE m.is # "match"
  BY <1>1 DEF StepStreaming
<1>2. CASE m.is = "match"
  <2> DEFINE rest == SubSeq(s, m.len + 1, Len(s))
             x == EvalStreaming(defines, e, rest, ci, m.caps, m.names)
  <2>1. m.len \in Nat /\ m.caps \in Seq(Texts)
    BY DEF AnyMatch
  <2>2. rest \in Texts
    BY <2>1, RestIs
  <2>3. StepStreaming(defines, s, ci, m, e) = Joined(m, x)
    BY <1>2 DEF StepStreaming
  <2> HIDE DEF rest
  <2>4. x \in AnyMatch
    BY <2>1, <2>2, EvalStreamingIs
  <2> HIDE DEF x
  <2> QED BY <2>3, <2>4, JoinedIs
<1> QED BY <1>1, <1>2

\* A list evaluated one by one is what its steps say.
LEMMA OneByOneUnfolds ==
    ASSUME NEW defines, NEW exprs \in Seq(AnyExpr), NEW s \in Texts, NEW ci
    PROVE  \E g : OneByOneBy(g, defines, exprs, s, ci)
<1> DEFINE n == Len(exprs)
           b == Match(0, <<>>, <<>>)
           H == [x \in (1 .. n) \X AnyMatch |-> StepOne(defines, s, ci, x[2], exprs[x[1]])]
           Body(f, i) == IF i = 0 THEN Match(0, <<>>, <<>>) ELSE StepOne(defines, s, ci, f[i - 1], exprs[i])
           L == CHOOSE f : f = [i \in 0 .. n |-> Body(f, i)]
<1>1. n \in Nat /\ \A i \in 1 .. n : exprs[i] \in AnyExpr
  OBVIOUS
<1>2. b \in AnyMatch
  <2>1. <<>> \in Seq(Texts) /\ 0 \in Nat
    OBVIOUS
  <2> QED BY <2>1, MatchIs
<1>3. OneByOne(defines, exprs, s, ci) = L[n]
  BY DEF OneByOne, StepOne
<1>4. \A i \in 1 .. n, v \in AnyMatch : H[<<i, v>>] = StepOne(defines, s, ci, v, exprs[i])
  <2> HIDE DEF n
  <2> QED OBVIOUS
<1>6. \A f : Body(f, 0) = b /\ \A i \in 1 .. n : Body(f, i) = StepOne(defines, s, ci, f[i - 1], exprs[i])
  OBVIOUS
<1> HIDE DEF n, b, H, Body
<1>7. Iteration(n, AnyMatch, b, H)
  BY <1>1, <1>2, <1>4, StepOneIs DEF Iteration
<1>8. PICK g : Iterated(g, n, AnyMatch, b, H)
  BY <1>7, Iterates
<1>9. g \in [0 .. n -> AnyMatch] /\ g[0] = b /\ \A i \in 1 .. n : g[i] = H[<<i, g[i - 1]>>]
  BY <1>8 DEF Iterated
<1>10. \A i \in 1 .. n : g[i] = StepOne(defines, s, ci, g[i - 1], exprs[i])
  <2> TAKE i \in 1 .. n
  <2> QED BY <1>1, <1>9, <1>4
<1>11. \A i \in 0 .. n : g[i] = Body(g, i)
  <2> TAKE i \in 0 .. n
  <2> QED BY <1>1, <1>6, <1>9, <1>10
<1>12. L = [i \in 0 .. n |-> Body(L, i)]
  BY <1>9, <1>11
<1> HIDE DEF L
<1>13. L[0] = b /\ \A i \in 1 .. n : L[i] = StepOne(defines, s, ci, L[i - 1], exprs[i])
  <2>1. \A i \in 0 .. n : L[i] = Body(L, i)
    BY <1>12
  <2> QED BY <2>1, <1>1, <1>6
<1> DEFINE Good == {i \in 0 .. n : L[i] = g[i]}
<1>14. \A i \in 0 .. n : i \in Good
  <2>1. 0 \in Good
    BY <1>1, <1>9, <1>13
  <2>2. \A i \in 1 .. n : i - 1 \in Good => i \in Good
    <3> TAKE i \in 1 .. n
    <3> QED BY <1>1, <1>10, <1>13
  <2> HIDE DEF Good
  <2> QED BY <2>1, <2>2, <1>1, Ascent
<1>15. L[n] = g[n]
  BY <1>1, <1>14
<1>16. OneByOneBy(g, defines, exprs, s, ci)
  BY <1>3, <1>9, <1>10, <1>15 DEF n, b, OneByOneBy
<1> QED BY <1>16

\* A list evaluated by the streaming engine is what its steps say.
LEMMA StreamingUnfolds ==
    ASSUME NEW defines, IsMap(defines, AnyExpr), NEW exprs \in Seq(AnyExpr), NEW s \in Texts, NEW ci
    PROVE  \E g : StreamingBy(g, defines, exprs, s, ci)
<1> DEFINE n == Len(exprs)
           b == Match(0, <<>>, <<>>)
           H == [x \in (1 .. n) \X AnyMatch |-> StepStreaming(defines, s, ci, x[2], exprs[x[1]])]
           Body(f, i) == IF i = 0 THEN Match(0, <<>>, <<>>) ELSE StepStreaming(defines, s, ci, f[i - 1], exprs[i])
           L == CHOOSE f : f = [i \in 0 .. n |-> Body(f, i)]
<1>1. n \in Nat /\ \A i \in 1 .. n : exprs[i] \in AnyExpr
  OBVIOUS
<1>2. b \in AnyMatch
  <2>1. <<>> \in Seq(Texts) /\ 0 \in Nat
    OBVIOUS
  <2> QED BY <2>1, MatchIs
<1>3. EvalFieldListStreaming(defines, exprs, s, ci) = L[n]
  BY DEF EvalFieldListStreaming, StepStreaming
<1>4. \A i \in 1 .. n, v \in AnyMatch : H[<<i, v>>] = StepStreaming(defines, s, ci, v, exprs[i])
  <2> HIDE DEF n
  <2> QED OBVIOUS
<1>6. \A f : Body(f, 0) = b /\ \A i \in 1 .. n : Body(f, i) = StepStreaming(defines, s, ci, f[i - 1], exprs[i])
  OBVIOUS
<1> HIDE DEF n, b, H, Body
<1>7. Iteration(n, AnyMatch, b, H)
  BY <1>1, <1>2, <1>4, StepStreamingIs DEF Iteration
<1>8. PICK g : Iterated(g, n, AnyMatch, b, H)
  BY <1>7, Iterates
<1>9. g \in [0 .. n -> AnyMatch] /\ g[0] = b /\ \A i \in 1 .. n : g[i] = H[<<i, g[i - 1]>>]
  BY <1>8 DEF Iterated
<1>10. \A i \in 1 .. n : g[i] = StepStreaming(defines, s, ci, g[i - 1], exprs[i])
  <2> TAKE i \in 1 .. n
  <2>1. g[i - 1] \in AnyMatch
    BY <1>1, <1>9
  <2> QED BY <2>1, <1>4, <1>9
<1>11. \A i \in 0 .. n : g[i] = Body(g, i)
  <2> TAKE i \in 0 .. n
  <2> QED BY <1>1, <1>6, <1>9, <1>10
<1>12. L = [i \in 0 .. n |-> Body(L, i)]
  BY <1>9, <1>11
<1> HIDE DEF L
<1>13. L[0] = b /\ \A i \in 1 .. n : L[i] = StepStreaming(defines, s, ci, L[i - 1], exprs[i])
  <2>1. \A i \in 0 .. n : L[i] = Body(L, i)
    BY <1>12
  <2> QED BY <2>1, <1>1, <1>6
<1> DEFINE Good == {i \in 0 .. n : L[i] = g[i]}
<1>14. \A i \in 0 .. n : i \in Good
  <2>1. 0 \in Good
    BY <1>1, <1>9, <1>13
  <2>2. \A i \in 1 .. n : i - 1 \in Good => i \in Good
    <3> TAKE i \in 1 .. n
    <3> QED BY <1>1, <1>10, <1>13
  <2> HIDE DEF Good
  <2> QED BY <2>1, <2>2, <1>1, Ascent
<1>15. L[n] = g[n]
  BY <1>1, <1>14
<1>16. StreamingBy(g, defines, exprs, s, ci)
  BY <1>3, <1>9, <1>10, <1>15 DEF n, b, StreamingBy
<1> QED BY <1>16

\* A list evaluated one by one: only a variable overflows.
LEMMA OneByOneIs ==
    ASSUME NEW defines, NEW exprs \in Seq(AnyExpr), NEW s \in Texts, NEW ci
    PROVE  /\ OneByOne(defines, exprs, s, ci) \in AnyMatch
           /\ OneByOne(defines, exprs, s, ci).is = "overflow" => \E i \in DOMAIN exprs : exprs[i].kind = "Variable"
<1> DEFINE n == Len(exprs)
<1>1. n \in Nat /\ DOMAIN exprs = 1 .. n /\ \A i \in 1 .. n : exprs[i] \in AnyExpr
  OBVIOUS
<1>2a. PICK g : OneByOneBy(g, defines, exprs, s, ci)
  BY OneByOneUnfolds
<1>2. /\ g \in [0 .. n -> AnyMatch] /\ g[0] = Match(0, <<>>, <<>>)
      /\ \A i \in 1 .. n : g[i] = StepOne(defines, s, ci, g[i - 1], exprs[i])
      /\ OneByOne(defines, exprs, s, ci) = g[n]
  BY <1>2a DEF OneByOneBy
<1> HIDE DEF n
<1>4. ASSUME \A i \in DOMAIN exprs : exprs[i].kind # "Variable" PROVE g[n].is # "overflow"
  <2> DEFINE Good == {i \in 0 .. n : g[i].is # "overflow"}
  <2>1. 0 \in Good
    BY <1>2, <1>1 DEF Match
  <2>2. ASSUME NEW i \in 1 .. n, i - 1 \in Good PROVE i \in Good
    <3>1. g[i - 1] \in AnyMatch /\ i \in 0 .. n /\ exprs[i] \in AnyExpr /\ exprs[i].kind # "Variable"
      BY <1>1, <1>2, <1>4
    <3> QED BY <3>1, <1>2, StepOneIs, <2>2
  <2> HIDE DEF Good
  <2>4. n \in Good
    BY <2>1, <2>2, <1>1, Ascent
  <2> QED BY <2>4 DEF Good
<1> QED BY <1>2, <1>1, <1>4

-----------------------------------------------------------------------------
(* Lists compiled                                                          *)

\* The empty expression is one.
LEMMA EmptyRe == Re(<<>>, <<>>) \in AnyRe
<1>2. IsRe(Re(<<>>, <<>>))
  BY DEF Re, IsRe
<1> QED BY <1>2 DEF AnyRe, Re

\* A literal text, one item for each character.
LEMMA LiteralIs ==
    ASSUME NEW s \in Texts
    PROVE  /\ Literal(s) \in AnyRe /\ Literal(s).groups = <<>> /\ Len(Literal(s).items) = Len(s)
           /\ \A i \in 1 .. Len(s) : Literal(s).items[i] = Item({s[i]}, FALSE, FALSE)
<1> DEFINE n == Len(s)
           u == [i \in DOMAIN s |-> Item({s[i]}, FALSE, FALSE)]
<1>1. n \in Nat /\ DOMAIN s = 1 .. n /\ \A i \in 1 .. n : s[i] \in Symbol
  BY DEF Texts
<1>2. \A i \in 1 .. n : u[i] \in AnyItem /\ u[i] = Item({s[i]}, FALSE, FALSE)
  BY <1>1 DEF Item, AnyItem
<1>3. u = [i \in 1 .. n |-> u[i]]
  BY <1>1
<1>4. Literal(s) = Re(u, <<>>)
  BY DEF Literal
<1> HIDE DEF n, u
<1>5. u \in Seq(AnyItem) /\ Len(u) = n
  <2>1. u \in Seq(AnyItem)
    BY <1>1, <1>2, <1>3, SeqIs
  <2>2. DOMAIN u = 1 .. n
    BY <1>3
  <2> QED BY <2>1, <2>2, <1>1
<1>6. Re(u, <<>>) \in [items : Seq(AnyItem), groups : Seq(AnyGroup)] /\ Re(u, <<>>).items = u /\ Re(u, <<>>).groups = <<>>
  BY <1>5 DEF Re
<1>7. IsRe(Re(u, <<>>))
  <2>2. <<>> \in Seq([from : Nat \ {0}, to : Nat, name : Texts]) /\ DOMAIN <<>> = {}
    OBVIOUS
  <2> QED BY <1>6, <1>5, <2>2 DEF IsRe, AnyItem
<1> QED BY <1>2, <1>4, <1>5, <1>6, <1>7 DEF AnyRe, n

\* What an expression is made of.
LEMMA ReIs ==
    ASSUME NEW re, IsRe(re)
    PROVE  /\ re.items \in Seq(AnyItem) /\ re.groups \in Seq(AnyGroup) /\ Len(re.items) \in Nat /\ Len(re.groups) \in Nat
           /\ DOMAIN re.groups = 1 .. Len(re.groups)
           /\ \A i \in 1 .. Len(re.groups) : /\ re.groups[i] \in AnyGroup
                                             /\ re.groups[i].from <= re.groups[i].to + 1
                                             /\ re.groups[i].to <= Len(re.items)
<1>1. re.items \in Seq(AnyItem) /\ re.groups \in Seq(AnyGroup)
  BY DEF IsRe, AnyItem, AnyGroup
<1>3. DOMAIN re.groups = 1 .. Len(re.groups) /\ Len(re.groups) \in Nat /\ Len(re.items) \in Nat
  BY <1>1
<1>4. \A i \in 1 .. Len(re.groups) : re.groups[i] \in AnyGroup
  BY <1>1
<1> QED BY <1>1, <1>3, <1>4 DEF IsRe

\* What a part adds: its items, a group around them, and its own groups moved.
LEMMA ThenPartIs ==
    ASSUME NEW re \in AnyRe, NEW part, IsRe(part)
    PROVE  /\ ThenPart(re, part) \in AnyRe
           /\ ThenPart(re, part).items = re.items \o part.items
           /\ ThenPart(re, part).groups =
                Append(re.groups, Group(Len(re.items) + 1, Len(re.items) + Len(part.items), NoName))
                \o Shifted(part.groups, Len(re.items))
           /\ Shifted(part.groups, Len(re.items)) \in Seq(AnyGroup)
           /\ Len(Shifted(part.groups, Len(re.items))) = Len(part.groups)
<1> DEFINE n == Len(re.items)
           k == Len(part.items)
           a == re.groups
           w == Group(n + 1, n + k, NoName)
           b == Shifted(part.groups, n)
           items == re.items \o part.items
           all == Append(a, w) \o b
           GroupFits(g) == g \in AnyGroup /\ g.from <= g.to + 1 /\ g.to <= n + k
<1>1. IsRe(re)
  BY DEF AnyRe
<1>2. n \in Nat /\ k \in Nat /\ a \in Seq(AnyGroup) /\ Len(a) \in Nat /\ re.items \in Seq(AnyItem) /\ part.items \in Seq(AnyItem)
  BY <1>1, ReIs
<1>3. items \in Seq(AnyItem) /\ Len(items) = n + k
  BY <1>2
<1>3a. \A i \in 1 .. Len(a) : a[i] \in AnyGroup /\ a[i].from <= a[i].to + 1 /\ a[i].to <= n
  BY <1>1, ReIs
<1>3b. /\ DOMAIN part.groups = 1 .. Len(part.groups) /\ Len(part.groups) \in Nat
       /\ \A i \in 1 .. Len(part.groups) : /\ part.groups[i] \in AnyGroup
                                           /\ part.groups[i].from <= part.groups[i].to + 1
                                           /\ part.groups[i].to <= k
  BY ReIs
<1> HIDE DEF n, k, a
<1>4. \A i \in 1 .. Len(a) : GroupFits(a[i])
  <2> TAKE i \in 1 .. Len(a)
  <2>1. a[i] \in AnyGroup /\ a[i].from <= a[i].to + 1 /\ a[i].to <= n
    BY <1>3a
  <2>3. a[i].to <= n + k
    BY <2>1, <1>2 DEF AnyGroup
  <2> QED BY <2>1, <2>3
<1>5. GroupFits(w)
  <2>1. n + 1 \in Nat \ {0} /\ n + k \in Nat /\ NoName \in Texts /\ n + 1 <= n + k + 1
    BY <1>2 DEF NoName, Texts
  <2> QED BY <2>1, <1>2 DEF Group, AnyGroup
<1>6. /\ b = [i \in 1 .. Len(part.groups) |-> b[i]] /\ Len(part.groups) \in Nat
      /\ \A i \in 1 .. Len(part.groups) : GroupFits(b[i])
  <2>1. DOMAIN part.groups = 1 .. Len(part.groups) /\ Len(part.groups) \in Nat
    BY <1>3b
  <2>3. ASSUME NEW i \in 1 .. Len(part.groups) PROVE GroupFits(b[i])
    <3> DEFINE g == part.groups[i]
    <3>1. g \in AnyGroup /\ g.from <= g.to + 1 /\ g.to <= k
      BY <1>3b
    <3>2. g.from \in Nat \ {0} /\ g.to \in Nat /\ g.name \in Texts
      BY <3>1 DEF AnyGroup
    <3>3. b[i] = Group(g.from + n, g.to + n, g.name)
      BY <2>1 DEF Shifted
    <3> HIDE DEF g, b
    <3>4. g.from + n \in Nat \ {0} /\ g.to + n \in Nat /\ g.from + n <= g.to + n + 1 /\ g.to + n <= n + k
      <4> DEFINE x == g.from
                 y == g.to
      <4>1. x \in Nat \ {0} /\ y \in Nat /\ x <= y + 1 /\ y <= k /\ n \in Nat /\ k \in Nat
        BY <3>1, <3>2, <1>2
      <4> HIDE DEF x, y
      <4>2. x + n \in Nat \ {0} /\ y + n \in Nat /\ x + n <= y + n + 1 /\ y + n <= n + k
        BY <4>1
      <4> QED BY <4>2 DEF x, y
    <3> QED BY <3>4, <3>2, <3>3 DEF Group, AnyGroup
  <2> QED BY <2>1, <2>3 DEF Shifted
<1> HIDE DEF b, w
<1>7. b \in Seq(AnyGroup) /\ Len(b) = Len(part.groups)
  <2>1. b \in Seq(AnyGroup)
    BY <1>6, SeqIs
  <2> QED BY <2>1, <1>6
<1>8. all \in Seq(AnyGroup)
  BY <1>2, <1>5, <1>7
<1>9. \A i \in DOMAIN all : GroupFits(all[i])
  <2> DEFINE c == Append(a, w)
  <2>1. c \in Seq(AnyGroup) /\ Len(c) = Len(a) + 1 /\ \A i \in 1 .. Len(a) + 1 : c[i] = IF i <= Len(a) THEN a[i] ELSE w
    BY <1>2, <1>5
  <2>2. \A i \in 1 .. Len(c) : GroupFits(c[i])
    <3> HIDE DEF c, GroupFits
    <3> QED BY <2>1, <1>2, <1>4, <1>5
  <2> HIDE DEF c, GroupFits
  <2>3. DOMAIN (c \o b) = 1 .. Len(c) + Len(b) /\ \A i \in 1 .. Len(c) + Len(b) : (c \o b)[i] = IF i <= Len(c) THEN c[i] ELSE b[i - Len(c)]
    <3>1. c \in Seq(AnyGroup) /\ b \in Seq(AnyGroup)
      BY <2>1, <1>7
    <3> QED BY <3>1, ConcatProperties
  <2>4. \A i \in 1 .. Len(c) + Len(b) : GroupFits((c \o b)[i])
    <3> TAKE i \in 1 .. Len(c) + Len(b)
    <3>1. CASE i <= Len(c)
      BY <3>1, <2>1, <2>2, <2>3
    <3>2. CASE ~ (i <= Len(c))
      <4>1. Len(c) \in Nat /\ Len(b) \in Nat
        BY <2>1, <1>7
      <4>2. i - Len(c) \in 1 .. Len(part.groups)
        BY <3>2, <4>1, <1>7
      <4> QED BY <3>2, <4>2, <2>3, <1>6
    <3> QED BY <3>1, <3>2
  <2> QED BY <2>3, <2>4 DEF c
<1>10. ThenPart(re, part) = Re(items, all)
  BY DEF ThenPart, w, b, n, k, a
<1> HIDE DEF items, all
<1>10a. Len(items) = n + k
  BY <1>3
<1>11. /\ ThenPart(re, part).items = items /\ ThenPart(re, part).groups = all
       /\ ThenPart(re, part) \in [items : Seq(AnyItem), groups : Seq(AnyGroup)]
  BY <1>3, <1>8, <1>10 DEF Re
<1>12. IsRe(ThenPart(re, part))
  <2> DEFINE x == ThenPart(re, part)
  <2>1. x.items = items /\ x.groups = all
    BY <1>11
  <2> HIDE DEF x
  <2> QED BY <2>1, <1>3, <1>8, <1>9 DEF IsRe, AnyItem, AnyGroup, x
<1> QED BY <1>7, <1>11, <1>12 DEF AnyRe, items, all, w, b, n, k, a

\* An expression that can be compiled is.
LEMMA PatternOfIs ==
    ASSUME NEW e \in AnyExpr, Compilable(e)
    PROVE  IsRe(PatternOf(e))
<1>1. CASE e.kind = "Regex"
  BY <1>1, PatternAssumption DEF PatternOf, Compilable
<1>2. CASE e.kind # "Regex"
  <2>1. e.val \in Texts
    BY DEF AnyExpr
  <2> QED BY <1>2, <2>1, LiteralIs DEF PatternOf, AnyRe
<1> QED BY <1>1, <1>2

\* A combined expression is what its steps say.
LEMMA WholeUnfolds ==
    ASSUME NEW parts \in Seq(AnyExpr), \A i \in DOMAIN parts : Compilable(parts[i])
    PROVE  \E g : WholeBy(g, parts)
<1> DEFINE n == Len(parts)
           b == Re(<<>>, <<>>)
           H == [x \in (1 .. n) \X AnyRe |-> ThenPart(x[2], PatternOf(parts[x[1]]))]
           Body(f, i) == IF i = 0 THEN Re(<<>>, <<>>) ELSE ThenPart(f[i - 1], PatternOf(parts[i]))
           L == CHOOSE f : f = [i \in 0 .. n |-> Body(f, i)]
<1>1. n \in Nat /\ \A i \in 1 .. n : parts[i] \in AnyExpr /\ IsRe(PatternOf(parts[i]))
  BY PatternOfIs
<1>2. b \in AnyRe
  BY EmptyRe
<1>3. Whole(parts) = L[n]
  BY DEF Whole
<1>4. \A i \in 1 .. n, v \in AnyRe : H[<<i, v>>] = ThenPart(v, PatternOf(parts[i]))
  <2> HIDE DEF n
  <2> QED OBVIOUS
<1>5. \A i \in 1 .. n, v \in AnyRe : ThenPart(v, PatternOf(parts[i])) \in AnyRe
  BY <1>1, ThenPartIs
<1>6. \A f : Body(f, 0) = b /\ \A i \in 1 .. n : Body(f, i) = ThenPart(f[i - 1], PatternOf(parts[i]))
  OBVIOUS
<1> HIDE DEF n, b, H, Body
<1>7. Iteration(n, AnyRe, b, H)
  BY <1>1, <1>2, <1>4, <1>5 DEF Iteration
<1>8. PICK g : Iterated(g, n, AnyRe, b, H)
  BY <1>7, Iterates
<1>9. g \in [0 .. n -> AnyRe] /\ g[0] = b /\ \A i \in 1 .. n : g[i] = H[<<i, g[i - 1]>>]
  BY <1>8 DEF Iterated
<1>10. \A i \in 1 .. n : g[i] = ThenPart(g[i - 1], PatternOf(parts[i]))
  <2> TAKE i \in 1 .. n
  <2>1. g[i - 1] \in AnyRe
    BY <1>1, <1>9
  <2> QED BY <2>1, <1>4, <1>9
<1>11. \A i \in 0 .. n : g[i] = Body(g, i)
  <2> TAKE i \in 0 .. n
  <2>1. i = 0 \/ i \in 1 .. n
    BY <1>1
  <2> QED BY <2>1, <1>6, <1>9, <1>10
<1>12. L = [i \in 0 .. n |-> Body(L, i)]
  BY <1>9, <1>11
<1> HIDE DEF L
<1>13. L[0] = b /\ \A i \in 1 .. n : L[i] = ThenPart(L[i - 1], PatternOf(parts[i]))
  <2>1. \A i \in 0 .. n : L[i] = Body(L, i)
    BY <1>12
  <2> QED BY <2>1, <1>1, <1>6
<1> DEFINE Good == {i \in 0 .. n : L[i] = g[i]}
<1>14. \A i \in 0 .. n : i \in Good
  <2>1. 0 \in Good
    BY <1>1, <1>9, <1>13
  <2>2. \A i \in 1 .. n : i - 1 \in Good => i \in Good
    <3> TAKE i \in 1 .. n
    <3> QED BY <1>1, <1>10, <1>13
  <2> HIDE DEF Good
  <2> QED BY <2>1, <2>2, <1>1, Ascent
<1>15. L[n] = g[n]
  BY <1>1, <1>14
<1>16. WholeBy(g, parts)
  BY <1>3, <1>9, <1>10, <1>15 DEF n, b, WholeBy
<1> QED BY <1>16

\* A combined expression is an expression.
LEMMA WholeIs ==
    ASSUME NEW parts \in Seq(AnyExpr), \A i \in DOMAIN parts : Compilable(parts[i])
    PROVE  Whole(parts) \in AnyRe
<1>1. PICK g : WholeBy(g, parts)
  BY WholeUnfolds
<1> QED BY <1>1 DEF WholeBy

\* A list with its variables followed is a list.
LEMMA ResolvedList ==
    ASSUME NEW defines, IsMap(defines, AnyExpr), NEW exprs \in Seq(AnyExpr)
    PROVE  [i \in DOMAIN exprs |-> Resolve(defines, exprs[i])] \in Seq(AnyExpr)
<1> DEFINE s == [i \in DOMAIN exprs |-> Resolve(defines, exprs[i])]
<1>1. Len(exprs) \in Nat /\ s = [i \in 1 .. Len(exprs) |-> s[i]]
  OBVIOUS
<1>2. \A i \in 1 .. Len(exprs) : s[i] \in AnyExpr
  BY ResolvedIs
<1> HIDE DEF s
<1>3. s \in Seq(AnyExpr)
  BY <1>1, <1>2, SeqIs
<1> QED BY <1>3 DEF s

\* A list compiled.
LEMMA FieldListIs ==
    ASSUME NEW defines, IsMap(defines, AnyExpr), NEW exprs \in AnyList
    PROVE  FieldList(defines, exprs) \in AnyFieldList
<1> DEFINE parts == [i \in DOMAIN exprs |-> Resolve(defines, exprs[i])]
<1>1. exprs \in Seq(AnyExpr) /\ exprs # <<>>
  BY DEF AnyList
<1>2. parts \in Seq(AnyExpr)
  BY <1>1, ResolvedList
<1>3. Combined(defines, exprs) \in {<<>>} \cup {<<re>> : re \in AnyRe}
  <2>1. Combined(defines, exprs) = IF (\A i \in DOMAIN parts : Compilable(parts[i])) /\ NamesOnce(Whole(parts).groups)
                                   THEN <<Whole(parts)>> ELSE <<>>
    BY DEF Combined
  <2> HIDE DEF parts
  <2> QED BY <1>2, <2>1, WholeIs
<1>4. LiteralPrefix(defines, exprs) \in Texts
  <2>1. Head(exprs) \in AnyExpr
    BY <1>1
  <2>2. Resolve(defines, Head(exprs)) \in AnyExpr
    BY <2>1, ResolvedIs
  <2>3. <<>> \in Texts
    BY DEF Texts
  <2> QED BY <2>2, <2>3 DEF LiteralPrefix, AnyExpr
<1> HIDE DEF parts
<1> QED BY <1>2, <1>3, <1>4 DEF AnyFieldList, FieldList, parts

\* A combined expression matches or does not; it never overflows.
LEMMA AtOnceIs ==
    ASSUME NEW re \in AnyRe, NEW s \in Texts, NEW ci
    PROVE  AtOnce(re, s, ci) \in AnyMatch /\ AtOnce(re, s, ci).is \in {"none", "match"}
<1> DEFINE w == InWindow(s)
           f == Find(re, w, ci)
           names == [i \in DOMAIN f.names |-> NoName]
<1>1. w \in Texts
  BY WindowIs
<1>2. f \in AnyMatch /\ f.is \in {"none", "match"}
  <2> HIDE DEF w
  <2> QED BY <1>1, FindIs DEF AnyRe
<1>3. AtOnce(re, s, ci) = [f EXCEPT !.names = names]
  BY DEF AtOnce
<1> HIDE DEF f, w
<1>4. names \in Seq(Texts)
  <2>1. Len(f.names) \in Nat /\ names = [i \in 1 .. Len(f.names) |-> NoName]
    BY <1>2 DEF AnyMatch
  <2>2. NoName \in Texts
    BY DEF NoName, Texts
  <2> HIDE DEF names, NoName
  <2> QED BY <2>1, <2>2, SeqIs
<1> HIDE DEF names
<1> QED BY <1>2, <1>3, <1>4 DEF AnyMatch

\* A compiled list evaluated: only a variable in it overflows.
LEMMA EvalFieldListIs ==
    ASSUME NEW defines, NEW list \in AnyFieldList, NEW s \in Texts, NEW ci
    PROVE  /\ EvalFieldList(defines, list, s, ci) \in AnyMatch
           /\ EvalFieldList(defines, list, s, ci).is = "overflow" => \E i \in DOMAIN list.exprs : list.exprs[i].kind = "Variable"
<1>1. CASE ~ StartsWith(s, list.prefix, ci)
  BY <1>1, MatchIs DEF EvalFieldList
<1>2. CASE StartsWith(s, list.prefix, ci) /\ list.re # <<>>
  <2>1. PICK re \in AnyRe : list.re = <<re>>
    BY <1>2 DEF AnyFieldList
  <2> QED BY <1>2, <2>1, AtOnceIs DEF EvalFieldList
<1>3. CASE StartsWith(s, list.prefix, ci) /\ list.re = <<>>
  <2>2. list.exprs \in Seq(AnyExpr)
    BY DEF AnyFieldList
  <2> QED BY <1>3, <2>2, OneByOneIs DEF EvalFieldList
<1> QED BY <1>1, <1>2, <1>3

\* Alternatives evaluated: only a variable in one of them overflows.
LEMMA EvalAlternativesIs ==
    ASSUME NEW defines, NEW lists \in Seq(AnyFieldList), NEW s \in Texts, NEW ci
    PROVE  /\ EvalAlternatives(defines, lists, s, ci) \in AnyMatch
           /\ EvalAlternatives(defines, lists, s, ci).is = "overflow" =>
                \E i \in DOMAIN lists : \E j \in DOMAIN lists[i].exprs : lists[i].exprs[j].kind = "Variable"
<1> DEFINE hits == {i \in DOMAIN lists : EvalFieldList(defines, lists[i], s, ci) # NoMatch}
<1>1. EvalAlternatives(defines, lists, s, ci) = IF hits = {} THEN NoMatch ELSE EvalFieldList(defines, lists[Min(hits)], s, ci)
  BY DEF EvalAlternatives
<1>2. hits \in SUBSET Nat /\ \A i \in hits : i \in DOMAIN lists
  OBVIOUS
<1> HIDE DEF hits
<1>3. hits # {} => Min(hits) \in hits
  <2>1. SUFFICES ASSUME hits # {} PROVE Min(hits) \in hits
    OBVIOUS
  <2> QED BY <2>1, <1>2, Smallest DEF Min
<1>4. CASE hits = {}
  BY <1>1, <1>4, MatchIs
<1>5. CASE hits # {}
  <2> DEFINE k == Min(hits)
  <2>0. k \in DOMAIN lists
    BY <1>2, <1>3, <1>5
  <2>1. k \in DOMAIN lists /\ lists[k] \in AnyFieldList
    <3> HIDE DEF k
    <3> QED BY <2>0
  <2> HIDE DEF k
  <2> QED BY <1>1, <1>5, <2>1, EvalFieldListIs DEF k
<1> QED BY <1>4, <1>5

\* The fields of a statement.
LEMMA StmtIs ==
    ASSUME NEW stmt \in AnyStmt
    PROVE  /\ stmt.alts \in Seq(AnyList) /\ stmt.actions \in Seq(AnyCall)
           /\ stmt.kind = "Skip" => Len(stmt.alts) = 1 /\ Len(stmt.alts[1]) = 1
<1>1. CASE stmt.kind \in {"Match", "IMatch", "When"}
  BY <1>1 DEF AnyStmt
<1>2. CASE stmt.kind = "Skip"
  <2>1. stmt.alts \in Seq(AnyList) /\ Len(stmt.alts) = 1 /\ Len(stmt.alts[1]) = 1 /\ stmt.actions = <<>>
    BY <1>2 DEF AnyStmt
  <2> QED BY <2>1
<1>3. CASE stmt.kind = "Action"
  <2>1. stmt.alts = <<>> /\ stmt.actions \in Seq(AnyCall)
    BY <1>3 DEF AnyStmt
  <2> QED BY <2>1, <1>3
<1> QED BY <1>1, <1>2, <1>3 DEF AnyStmt

\* The statements of a document.
LEMMA StmtsIs ==
    ASSUME NEW doc, IsDoc(doc)
    PROVE  Stmts(doc) \subseteq AnyStmt
<1> SUFFICES ASSUME NEW stmt \in Stmts(doc) PROVE stmt \in AnyStmt
  OBVIOUS
<1>1. PICK g \in DOMAIN doc.grammars : stmt \in ToSet(doc.grammars[g].stmts)
  BY DEF Stmts
<1>2. doc.grammars[g] \in AnyGrammar
  BY DEF IsDoc, IsMap
<1> QED BY <1>1, <1>2 DEF ToSet, AnyGrammar

\* The calls of a document.
LEMMA CallsOfIs ==
    ASSUME NEW doc, IsDoc(doc)
    PROVE  CallsOf(doc) \subseteq AnyCall
<1> SUFFICES ASSUME NEW stmt \in Stmts(doc), NEW call \in Actions(stmt) PROVE call \in AnyCall
  BY DEF CallsOf
<1> QED BY StmtsIs, StmtIs DEF Actions, ToSet

\* The compiled form of a document, statement by statement.
LEMMA CompiledIs ==
    ASSUME NEW doc, IsDoc(doc), NEW stmt \in DOMAIN Compiled(doc)
    PROVE  /\ stmt \in Stmts(doc) /\ stmt \in AnyStmt
           /\ Compiled(doc)[stmt] \in Seq(AnyFieldList) /\ DOMAIN Compiled(doc)[stmt] = DOMAIN stmt.alts
           /\ \A i \in DOMAIN stmt.alts : Compiled(doc)[stmt][i] = FieldList(doc.defines, stmt.alts[i])
<1> DEFINE c == Compiled(doc)[stmt]
<1>1. stmt \in Stmts(doc) /\ c = [i \in DOMAIN stmt.alts |-> FieldList(doc.defines, stmt.alts[i])]
  BY DEF Compiled
<1>2. stmt \in AnyStmt
  BY <1>1, StmtsIs
<1>3. stmt.alts \in Seq(AnyList) /\ Len(stmt.alts) \in Nat /\ DOMAIN stmt.alts = 1 .. Len(stmt.alts)
  BY <1>2, StmtIs
<1>4. \A i \in 1 .. Len(stmt.alts) : c[i] \in AnyFieldList
  <2> TAKE i \in 1 .. Len(stmt.alts)
  <2> QED BY <1>1, <1>3, FieldListIs DEF IsDoc
<1> HIDE DEF c
<1>6. c \in Seq(AnyFieldList)
  BY <1>3, <1>4, <1>1, SeqIs
<1> QED BY <1>1, <1>2, <1>3, <1>6 DEF c

\* In a clean document everything leads to an expression.
LEMMA CleanIs ==
    ASSUME NEW doc, IsDoc(doc), Diagnostics(doc) = {}, Leads(doc.defines),
           NEW stmt \in Stmts(doc), NEW e \in VisitExpressions(stmt), e \in AnyExpr
    PROVE  /\ Resolve(doc.defines, e).kind # "Variable"
           /\ Resolve(doc.defines, e).kind = "Regex" => Resolve(doc.defines, e).val \in DOMAIN Pattern
<1> DEFINE d == doc.defines
           r == Resolve(d, e)
<1>1. e \in Visited(doc)
  BY DEF Visited
<1>2. \A x \in Visited(doc) \cup {d[n] : n \in DOMAIN d} : x.kind = "Regex" => x.val \in DOMAIN Pattern
  <2> SUFFICES ASSUME NEW x \in Visited(doc) \cup {d[n] : n \in DOMAIN d}, x.kind = "Regex", x.val \notin DOMAIN Pattern
               PROVE FALSE
    OBVIOUS
  <2> QED BY DEF Diagnostics, RegexSyntax
<1>3. e.kind = "Variable" => e.val \in DOMAIN d
  <2> SUFFICES ASSUME e.kind = "Variable", e.val \notin DOMAIN d PROVE FALSE
    OBVIOUS
  <2> QED BY <1>1 DEF Diagnostics, UndefinedVariables
<1>4. IsFiniteSet(DOMAIN d)
  BY DEF IsDoc, IsMap
<1>5. r = e \/ \E m \in DOMAIN d : r = d[m]
  BY <1>4, ResolveIs
<1>6. r.kind # "Variable"
  <2>1. CASE e.kind = "Variable"
    <3>1. e = Expr("Variable", e.val)
      BY <2>1 DEF AnyExpr, Expr
    <3>2. e.val \in DOMAIN d
      BY <2>1, <1>3
    <3> QED BY <3>1, <3>2 DEF Leads
  <2>2. CASE e.kind # "Variable"
    BY <2>2, <1>4, ResolveIs
  <2> QED BY <2>1, <2>2
<1> QED BY <1>2, <1>6, <1>1, <1>5

\* The characters and the sources are of their types.
LEMMA CharIs ==
    /\ Char \subseteq Symbol /\ Seq(Char) \subseteq Texts
    /\ \A src \in Sources \cup Loaded :
         IsDoc(src.doc) /\ src.layout \in Layouts /\ src.chars \subseteq Char /\ src.length \in Nat
<1>1. Char \subseteq Symbol
  BY SourceAssumption
<1>2. ASSUME NEW s \in Seq(Char) PROVE s \in Texts
  BY <1>1 DEF Texts
<1> QED BY <1>1, <1>2, SourceAssumption

\* What starts a run.
LEMMA StartsIs ==
    ASSUME NEW src \in Sources \cup Loaded, StartsFrom(src)
    PROVE  IsDoc(source.doc) /\ source.layout \in Layouts /\ source.input \in Inputs /\ source.doc = src.doc
<1>1. IsDoc(src.doc) /\ src.layout \in Layouts /\ src.chars \subseteq Char /\ src.length \in Nat
  BY CharIs
<1>2. PICK s \in BoundedSeq(src.chars, src.length) : Utf8(s) /\ source = [doc |-> src.doc, layout |-> src.layout, input |-> s]
  BY DEF StartsFrom
<1>3. s \in Seq(src.chars)
  <2>1. PICK n \in 0 .. src.length : s \in [1 .. n -> src.chars]
    BY <1>2 DEF BoundedSeq, SeqOf
  <2> QED BY <2>1, <1>1
<1> QED BY <1>1, <1>2, <1>3 DEF Inputs

\* The empty document is a document.
LEMMA NoDocIs == IsDoc(NoDoc)
<1>1. DOMAIN <<>> = {} /\ IsFiniteSet({})
  BY FS_EmptySet
<1>2. \A S : <<>> \in [{} -> S]
  OBVIOUS
<1> QED BY <1>1, <1>2 DEF NoDoc, IsDoc, IsMap

\* The initial states are of the invariant.
LEMMA InitIs == Init => IInv
<1> SUFFICES ASSUME Init PROVE IInv
  OBVIOUS
<1>1. pos = 0 /\ match = NoMatch /\ running = <<>> /\ calls = <<>> /\ effect = NoEffect
  BY DEF Init
<1>2. EffectOK
  BY <1>1 DEF EffectOK, NoEffect
<1>3. /\ phase = "source" \/ phase = "ready"
      /\ IsDoc(source.doc) /\ source.layout \in Layouts /\ source.input \in Inputs
      /\ IsDoc(ast)
      /\ compiled = IF phase \in Loading THEN <<>> ELSE Compiled(ast)
  <2>1. CASE (\E src \in Sources : StartsFrom(src)) /\ phase = "source" /\ ast = NoDoc /\ compiled = <<>>
    BY <2>1, StartsIs, NoDocIs DEF Loading
  <2>2. CASE (\E src \in Loaded : StartsFrom(src)) /\ phase = "ready" /\ ast = source.doc /\ compiled = Compiled(ast)
    BY <2>2, StartsIs DEF Loading
  <2> QED BY <2>1, <2>2 DEF Init
<1>4. DocumentOK
  BY <1>3 DEF DocumentOK
<1>5. ProgressOK
  <2>1. running \in Seq(Duties) /\ calls \in Seq([rest : Seq(Duties), from : Nat]) /\ pos \in Nat /\ match \in AnyMatch
    <3> DEFINE S == [rest : Seq(Duties), from : Nat]
    <3> HIDE DEF S
    <3>2. calls \in Seq(S)
      BY <1>1
    <3> QED BY <1>1, MatchIs, <3>2 DEF S
  <2> QED BY <2>1, <1>1, <1>3 DEF ProgressOK, Loading
<1>6. CleanOK
  BY <1>3 DEF CleanOK
<1> QED BY <1>2, <1>4, <1>5, <1>6 DEF IInv

\* What is left of a text from where no character is cut is a text.
LEMMA RestReadable ==
    ASSUME NEW s \in Inputs, NEW p \in Bounds(s)
    PROVE  SubSeq(s, p + 1, Len(s)) \in Inputs
<1> DEFINE n == Len(s)
           r == SubSeq(s, p + 1, n)
<1>1. s \in Seq(Char) /\ n \in Nat /\ p \in 0 .. n /\ (p = n \/ s[p + 1] # "c") /\ p + 1 \in Nat \ {0}
  BY DEF Inputs, Bounds
<1>2. \A i \in 1 .. n : (s[i] = "u" => i < n /\ s[i + 1] = "c") /\ (s[i] = "c" => i > 1 /\ s[i - 1] \in {"u", "c"})
  BY DEF Inputs, Utf8
<1>3. r \in Seq(Char) /\ Len(r) = n - p /\ \A i \in 1 .. Len(r) : r[i] = s[p + i]
  BY <1>1, PartIs
<1> HIDE DEF n, r
<1>4. ASSUME NEW i \in 1 .. Len(r), r[i] = "u" PROVE i < Len(r) /\ r[i + 1] = "c"
  <2>1. p + i \in 1 .. n /\ s[p + i] = "u"
    BY <1>1, <1>3, <1>4
  <2>2. p + i < n /\ s[(p + i) + 1] = "c"
    BY <1>2, <2>1
  <2>3. i + 1 \in 1 .. Len(r) /\ p + (i + 1) = (p + i) + 1
    BY <1>1, <1>3, <2>2
  <2> QED BY <1>3, <2>2, <2>3
<1>5. ASSUME NEW i \in 1 .. Len(r), r[i] = "c" PROVE i > 1 /\ r[i - 1] \in {"u", "c"}
  <2>1. p + i \in 1 .. n /\ s[p + i] = "c" /\ p # n
    BY <1>1, <1>3, <1>5
  <2>2. i # 1
    BY <1>1, <2>1
  <2>3. s[(p + i) - 1] \in {"u", "c"}
    BY <1>2, <2>1
  <2>4. i - 1 \in 1 .. Len(r) /\ p + (i - 1) = (p + i) - 1
    BY <1>1, <1>3, <2>2
  <2> QED BY <1>3, <2>2, <2>3, <2>4
<1>6. Utf8(r)
  <2>1. DOMAIN r = 1 .. Len(r)
    BY <1>3
  <2> QED BY <2>1, <1>4, <1>5 DEF Utf8
<1>7. r \in Inputs
  BY <1>3, <1>6 DEF Inputs
<1> QED BY <1>7 DEF n, r

\* What is known of a state.
LEMMA StateIs ==
    ASSUME IInv
    PROVE  /\ Remaining \in Texts /\ (Readable => Remaining \in Inputs)
           /\ IsDoc(ast) /\ IsMap(ast.defines, AnyExpr)
           /\ pos \in Nat /\ match \in AnyMatch /\ running \in Seq(Duties)
           /\ calls \in Seq([rest : Seq(Duties), from : Nat])
           /\ phase = "ready" => compiled = Compiled(ast)
           /\ phase \notin Loading => compiled = Compiled(ast)
           /\ \A stmt \in DOMAIN compiled : phase \notin Loading
<1>1. source.input \in Inputs /\ source.input \in Seq(Char) /\ pos \in Nat
  BY DEF IInv, DocumentOK, ProgressOK, Inputs
<1>2. Remaining \in Seq(Char)
  <2> DEFINE s == source.input
  <2> HIDE DEF s
  <2> QED BY <1>1, PartIs DEF Remaining
<1>3. DOMAIN <<>> = {}
  OBVIOUS
<1>4. ASSUME Readable PROVE Remaining \in Inputs
  <2> DEFINE s == source.input
  <2>1. s \in Inputs /\ pos \in Bounds(s)
    BY <1>1, <1>4 DEF Readable
  <2> HIDE DEF s
  <2>2. SubSeq(s, pos + 1, Len(s)) \in Inputs
    BY <2>1, RestReadable
  <2> QED BY <2>2 DEF s, Remaining
<1> QED BY <1>1, <1>2, <1>3, <1>4, CharIs DEF IInv, DocumentOK, ProgressOK, IsDoc, Loading

\* What is due after a match are calls of the document.
LEMMA DueIs ==
    ASSUME NEW m \in AnyMatch, NEW stmt \in Stmts(ast), stmt \in AnyStmt
    PROVE  Due(stmt.actions, m) \in Seq(Duties)
<1> DEFINE b == stmt.actions
           d == Due(b, m)
<1>2. DOMAIN b = 1 .. Len(b) /\ Len(b) \in Nat
  BY StmtIs
<1>3. d = [i \in 1 .. Len(b) |-> d[i]]
  BY <1>2 DEF Due
<1>4. \A i \in 1 .. Len(b) : d[i] \in Duties
  <2> TAKE i \in 1 .. Len(b)
  <2>1. d[i] = [call |-> b[i], of |-> m]
    BY <1>2 DEF Due
  <2>2. b[i] \in CallsOf(ast)
    BY <1>2 DEF CallsOf, Actions, ToSet
  <2> QED BY <2>1, <2>2 DEF Duties
<1> HIDE DEF d, b
<1> QED BY <1>2, <1>3, <1>4, SeqIs DEF d, b

\* A match that follows a definition for ever is of a document that is not clean.
LEMMA CleanMatch ==
    ASSUME IInv, Clean, NEW stmt \in DOMAIN compiled
    PROVE  \A i \in DOMAIN compiled[stmt] : \A j \in DOMAIN compiled[stmt][i].exprs :
             /\ compiled[stmt][i].exprs[j].kind # "Variable"
             /\ compiled[stmt][i].exprs[j].kind = "Regex" => compiled[stmt][i].exprs[j].val \in DOMAIN Pattern
<1> SUFFICES ASSUME NEW i \in DOMAIN compiled[stmt], NEW j \in DOMAIN compiled[stmt][i].exprs
             PROVE  /\ compiled[stmt][i].exprs[j].kind # "Variable"
                    /\ compiled[stmt][i].exprs[j].kind = "Regex" => compiled[stmt][i].exprs[j].val \in DOMAIN Pattern
  OBVIOUS
<1>1. compiled = Compiled(ast) /\ IsDoc(ast)
  BY StateIs
<1>2. stmt \in Stmts(ast) /\ stmt \in AnyStmt /\ i \in DOMAIN stmt.alts /\ compiled[stmt][i] = FieldList(ast.defines, stmt.alts[i])
  BY <1>1, CompiledIs
<1>3. stmt.alts \in Seq(AnyList)
  BY <1>2, StmtIs
<1>5. j \in DOMAIN stmt.alts[i] /\ compiled[stmt][i].exprs[j] = Resolve(ast.defines, stmt.alts[i][j])
  BY <1>2 DEF FieldList
<1> DEFINE e == stmt.alts[i][j]
<1>6. e \in AnyExpr
  BY <1>2, <1>3, <1>5 DEF AnyList
<1>7. e \in VisitExpressions(stmt)
  BY <1>2, <1>5 DEF VisitExpressions, Matched, ToSet
<1> HIDE DEF e
<1> QED BY <1>1, <1>2, <1>5, <1>6, <1>7, CleanIs DEF Clean, e

\* In a clean document no argument that is due is a circular variable.
LEMMA CleanArgs ==
    ASSUME IInv, Clean, NEW due \in Duties, NEW arg \in ToSet(due.call.args)
    PROVE  ~ Circular(arg)
<1>1. IsDoc(ast)
  BY StateIs
<1>2. due.call \in CallsOf(ast)
  BY DEF Duties
<1>3. PICK stmt \in Stmts(ast) : due.call \in Actions(stmt)
  BY <1>2 DEF CallsOf
<1>4. arg \in VisitExpressions(stmt)
  BY <1>3 DEF VisitExpressions, Arguments
<1>5. due.call \in AnyCall
  BY <1>1, <1>2, CallsOfIs
<1>6. arg \in AnyExpr
  BY <1>5 DEF AnyCall, ToSet
<1> QED BY <1>1, <1>3, <1>4, <1>6, CleanIs DEF Clean, Circular

\* What a step leaves alone.
LEMMA SameDocument ==
    ASSUME IInv, UNCHANGED <<source, ast, compiled>>, phase \notin Loading, phase' \notin Loading
    PROVE  DocumentOK' /\ Duties' = Duties /\ Clean' = Clean
BY DEF IInv, DocumentOK, Duties, Clean

\* A step that leaves the effect alone keeps what is said of it.
LEMMA SameEffect ==
    ASSUME IInv, UNCHANGED <<ast, match, effect>>
    PROVE  EffectOK'
<1>1. Duties' = Duties
  BY DEF Duties
<1>2. \A a : Effect(a, match)' = Effect(a, match)
  BY DEF Effect, EffectBy
<1> SUFFICES ASSUME effect'.at.node # "none"
             PROVE  effect'.action \in Duties' /\ OnTree(effect'.action.call) /\ effect' = Effect(effect.action, match)'
  BY DEF EffectOK
<1> QED BY <1>1, <1>2 DEF IInv, EffectOK

\* No effect is an effect.
LEMMA NoEffectOK == ASSUME effect' = NoEffect PROVE EffectOK'
BY DEF EffectOK, NoEffect

\* A document is parsed.
LEMMA ParseKeeps == ASSUME IInv, Parse PROVE IInv'
<1> DEFINE doc == Document(TokensOf(source.doc, source.layout))
<1>1. /\ phase = "source" /\ phase' = (IF doc.ok THEN "parsed" ELSE "refused") /\ ast' = IF doc.ok THEN doc.val ELSE NoDoc
      /\ UNCHANGED <<source, compiled, pos, match, running, calls, effect>>
  BY DEF Parse
<1>2. doc.ok => IsDoc(doc.val)
  BY TokensOfIs, DocumentIs DEF IInv, DocumentOK
<1> HIDE DEF doc
<1>3. running = <<>> /\ calls = <<>> /\ effect = NoEffect /\ compiled = <<>> /\ phase' \in Loading
  BY <1>1 DEF IInv, ProgressOK, DocumentOK, Loading
<1>4. IsDoc(ast')
  BY <1>1, <1>2, NoDocIs
<1>5. DocumentOK'
  BY <1>1, <1>3, <1>4 DEF IInv, DocumentOK
<1>6. ProgressOK'
  <2> DEFINE S == [rest : Seq(Duties'), from : Nat]
  <2>1. <<>> \in Seq(S) /\ <<>> \in Seq(Duties')
    <3> HIDE DEF S
    <3> QED OBVIOUS
  <2> QED BY <2>1, <1>1, <1>3 DEF ProgressOK, IInv
<1>7. EffectOK'
  BY <1>1, <1>3, NoEffectOK
<1>8. CleanOK'
  BY <1>1 DEF CleanOK
<1> QED BY <1>5, <1>6, <1>7, <1>8 DEF IInv

\* A document is validated.
LEMMA CheckKeeps == ASSUME IInv, Check PROVE IInv'
<1>1. phase = "parsed" /\ phase' \in {"refused", "valid"} /\ UNCHANGED <<source, ast, compiled, pos, match, running, calls, effect>>
  BY DEF Check
<1>2. phase \in Loading /\ phase' \in Loading
  BY <1>1 DEF Loading
<1>3. DocumentOK'
  BY <1>1, <1>2 DEF IInv, DocumentOK
<1>4. Duties' = Duties
  BY <1>1 DEF Duties
<1>5. ProgressOK'
  BY <1>1, <1>2, <1>4 DEF IInv, ProgressOK
<1>6. EffectOK'
  BY <1>1, SameEffect
<1>7. CleanOK'
  BY <1>1 DEF CleanOK
<1> QED BY <1>3, <1>5, <1>6, <1>7 DEF IInv

\* A document is compiled.
LEMMA CompileKeeps == ASSUME IInv, Compile PROVE IInv'
<1>1. phase = "valid" /\ phase' = "ready" /\ compiled' = Compiled(ast) /\ UNCHANGED <<source, ast, pos, match, running, calls, effect>>
  BY DEF Compile
<1>2. phase' \notin Loading /\ Compiled(ast)' = Compiled(ast)
  BY <1>1 DEF Loading
<1>3. DocumentOK'
  BY <1>1, <1>2 DEF IInv, DocumentOK
<1>4. Duties' = Duties
  BY <1>1 DEF Duties
<1>5. ProgressOK'
  BY <1>1, <1>2, <1>4 DEF IInv, ProgressOK
<1>6. EffectOK'
  BY <1>1, SameEffect
<1>7. CleanOK'
  BY <1>1 DEF CleanOK
<1> QED BY <1>3, <1>5, <1>6, <1>7 DEF IInv

\* A statement that was tried.
LEMMA RunKeeps ==
    ASSUME IInv, phase = "ready", NEW stmt \in DOMAIN compiled, NEW m \in AnyMatch, NEW at \in Nat, Run(stmt, m, at),
           Clean => m.is # "overflow"
    PROVE  IInv'
<1>1. /\ phase' = (CASE m.is = "match" -> "matched" [] m.is = "overflow" -> "overflow" [] OTHER -> "done")
      /\ match' = (IF m.is = "match" THEN m ELSE match) /\ pos' = at
      /\ running' = (IF m.is = "match" THEN Due(stmt.actions, m) ELSE <<>>)
      /\ effect' = NoEffect /\ UNCHANGED <<source, ast, compiled, calls>>
  BY DEF Run
<1>2. phase' \in {"matched", "overflow", "done"} /\ (phase' = "overflow" => m.is = "overflow")
  BY <1>1
<1>3. phase \notin Loading /\ phase' \notin Loading
  BY <1>2 DEF Loading
<1>4. DocumentOK' /\ Duties' = Duties /\ Clean' = Clean
  BY <1>1, <1>3, SameDocument
<1>5. running' \in Seq(Duties)
  <2>2. Due(stmt.actions, m) \in Seq(Duties)
    BY StateIs, CompiledIs, DueIs
  <2> QED BY <2>2, <1>1
<1>6. ProgressOK'
  <2>1. match' \in AnyMatch /\ calls' \in Seq([rest : Seq(Duties), from : Nat])
    BY <1>1 DEF IInv, ProgressOK
  <2> QED BY <2>1, <1>1, <1>2, <1>3, <1>4, <1>5 DEF ProgressOK
<1>7. EffectOK'
  BY <1>1, NoEffectOK
<1>8. CleanOK'
  BY <1>2, <1>4 DEF CleanOK
<1> QED BY <1>4, <1>6, <1>7, <1>8 DEF IInv

\* The alternatives of a statement of the document: a clean one never
\* overflows.
LEMMA AlternativesClean ==
    ASSUME IInv, phase = "ready", NEW stmt \in DOMAIN compiled, NEW ci
    PROVE  LET m == EvalAlternatives(ast.defines, compiled[stmt], Remaining, ci)
           IN  m \in AnyMatch /\ m.len \in Nat /\ (Clean => m.is # "overflow")
<1> DEFINE m == EvalAlternatives(ast.defines, compiled[stmt], Remaining, ci)
<1>2. /\ m \in AnyMatch
      /\ m.is = "overflow" => \E i \in DOMAIN compiled[stmt] : \E j \in DOMAIN compiled[stmt][i].exprs : compiled[stmt][i].exprs[j].kind = "Variable"
  <2> DEFINE lists == compiled[stmt]
             s == Remaining
  <2>1. lists \in Seq(AnyFieldList) /\ s \in Texts
    BY StateIs, CompiledIs
  <2> HIDE DEF lists, s
  <2> QED BY <2>1, EvalAlternativesIs DEF lists, s
<1> HIDE DEF m
<1>3. m.len \in Nat
  BY <1>2 DEF AnyMatch
<1> QED BY <1>2, <1>3, CleanMatch DEF m

\* A match statement is evaluated.
LEMMA EvalMatchKeeps == ASSUME IInv, NEW stmt \in DOMAIN compiled, EvalMatch(stmt) PROVE IInv'
<1> DEFINE m == EvalAlternatives(ast.defines, compiled[stmt], Remaining, stmt.kind = "IMatch")
<1>1. phase = "ready" /\ Run(stmt, m, pos + m.len)
  BY DEF EvalMatch
<1>2. m \in AnyMatch /\ m.len \in Nat /\ (Clean => m.is # "overflow")
  BY <1>1, AlternativesClean
<1> HIDE DEF m
<1> QED BY <1>1, <1>2, StateIs, RunKeeps

\* A when statement is evaluated.
LEMMA EvalWhenKeeps == ASSUME IInv, NEW stmt \in DOMAIN compiled, EvalWhen(stmt) PROVE IInv'
<1> DEFINE m == EvalAlternatives(ast.defines, compiled[stmt], Remaining, FALSE)
<1>1. phase = "ready" /\ Run(stmt, m, pos)
  BY DEF EvalWhen
<1>2. m \in AnyMatch /\ (Clean => m.is # "overflow")
  BY <1>1, AlternativesClean
<1> HIDE DEF m
<1> QED BY <1>1, <1>2, StateIs, RunKeeps

\* A step of a run that leaves the last match and the effect alone.
LEMMA MoveKeeps ==
    ASSUME IInv, phase \notin Loading, phase' \in {"ready", "matched", "done", "overflow", "panicked"},
           Clean => phase' # "overflow", UNCHANGED <<source, ast, compiled, match, effect>>,
           pos' \in Nat, running' \in Seq(Duties), calls' \in Seq([rest : Seq(Duties), from : Nat])
    PROVE  IInv'
<1>1. phase' \notin Loading
  BY DEF Loading
<1>2. DocumentOK' /\ Duties' = Duties /\ Clean' = Clean
  BY <1>1, SameDocument
<1>3. ProgressOK'
  BY <1>1, <1>2 DEF IInv, ProgressOK
<1>4. EffectOK'
  BY SameEffect
<1>5. CleanOK'
  BY <1>2 DEF CleanOK
<1> QED BY <1>2, <1>3, <1>4, <1>5 DEF IInv

\* A call on its own is evaluated.
LEMMA EvalActionKeeps == ASSUME IInv, NEW stmt \in DOMAIN compiled, EvalAction(stmt) PROVE IInv'
<1>1. /\ phase = "ready" /\ phase' = "matched" /\ running' = Due(stmt.actions, NoMatch)
      /\ UNCHANGED <<source, ast, compiled, pos, match, calls, effect>>
  BY DEF EvalAction
<1>2. running' \in Seq(Duties)
  BY <1>1, StateIs, CompiledIs, DueIs, MatchIs
<1> QED BY <1>1, <1>2, StateIs, MoveKeeps

\* The fast path stays in the text.
LEMMA FastIs ==
    ASSUME NEW s \in Inputs, NEW k \in Kinds
    PROVE  Fast(k, s) \in 0 .. Len(s)
<1>0. Len(s) \in Nat /\ 0 \in 0 .. Len(s)
  BY DEF Inputs
<1>1. CASE s = <<>>
  BY <1>1, <1>0 DEF Fast
<1>2. CASE s # <<>>
  <2>1. Fast(k, s) = ByKind(k, s) /\ 1 \in 0 .. Len(s)
    BY <1>2, <1>0 DEF Fast
  <2>2. \A C : \A i \in 0 .. Len(s) : RunEnd(s, i, C) \in 0 .. Len(s)
    <3> TAKE C
    <3> TAKE i \in 0 .. Len(s)
    <3> QED BY <1>0, RunEndIs
  <2>3. \A C : \A i \in Nat \ {0} : First(s, i, C) \in 0 .. Len(s)
    <3> TAKE C
    <3> TAKE i \in Nat \ {0}
    <3> QED BY <1>0, FirstIs
  <2>4. \A i \in 0 .. Len(s) : EolsEnd(s, i) \in 0 .. Len(s)
    <3> TAKE i \in 0 .. Len(s)
    <3>1. PICK g : g[i] = EolsEnd(s, i) /\ LeadsOn(s, i, g)
      BY <1>0, EolsEndIs
    <3>2. \A p \in i .. Len(s) : g[p] = (IF EolStep(s, p) = p THEN p ELSE g[EolStep(s, p)]) /\ EolStep(s, p) \in p .. Len(s)
      <4> TAKE p \in i .. Len(s)
      <4> QED BY <3>1, <1>0, StepType DEF LeadsOn
    <3> DEFINE D == i .. Len(s)
               M == [p \in D |-> p]
               Good == {p \in D : g[p] \in 0 .. Len(s)}
    <3>3. M \in [D -> 0 .. Len(s)]
      BY <1>0
    <3>4. \A p \in D : (\A q \in D : M[q] > M[p] => q \in Good) => p \in Good
      <4> TAKE p \in D
      <4>1. CASE EolStep(s, p) = p
        BY <4>1, <3>2, <1>0
      <4>2. CASE EolStep(s, p) # p
        BY <4>2, <3>2, <1>0
      <4> QED BY <4>1, <4>2
    <3> HIDE DEF M, Good
    <3>5. \A p \in D : p \in Good
      <4> HIDE DEF D
      <4> QED BY <3>3, <3>4, <1>0, Descent
    <3> QED BY <3>1, <3>5, <1>0 DEF Good
  <2>5. \A C, n : To(s, C, n) \in 0 .. Len(s)
    BY <2>3, <1>0 DEF To
  <2>6. \A C, D : CommentEnd(s, C, D) \in 0 .. Len(s)
    BY <2>3, <1>0 DEF CommentEnd
  <2>7. \A e \in 0 .. Len(s) : AfterSpaces(s, e) \in 0 .. Len(s)
    BY <1>0 DEF AfterSpaces
  <2>8. ToOptCrNlPlus(s) \in 0 .. Len(s)
    BY <2>3, <1>0 DEF ToOptCrNlPlus
  <2>9. \A C : HashComment(s, C) \in 0 .. Len(s)
    BY <2>2, <2>4, <2>6, <1>0 DEF HashComment
  <2>10. OptCrNl(s) \in 0 .. Len(s) /\ \A C : One(s, C) \in 0 .. Len(s)
    BY <1>0, <2>1 DEF OptCrNl, One
  <2>11. ByKind(k, s) \in 0 .. Len(s)
    BY <1>0, <2>1, <2>2, <2>4, <2>5, <2>6, <2>7, <2>8, <2>9, <2>10 DEF ByKind, Kinds, Unicode, CrSafe
  <2> QED BY <2>1, <2>11
<1> QED BY <1>1, <1>2

\* What a skip statement consumes: in a clean document it never overflows.
LEMMA SkippedIs ==
    ASSUME IInv, phase = "ready", Readable, NEW stmt \in DOMAIN compiled, stmt.kind = "Skip"
    PROVE  LET m == Skipped(compiled[stmt][1].exprs[1]) IN m.len \in Nat /\ (Clean => m.is # "overflow")
<1> DEFINE e == compiled[stmt][1].exprs[1]
           m == Skipped(e)
<1>1. compiled[stmt] \in Seq(AnyFieldList) /\ DOMAIN compiled[stmt] = DOMAIN stmt.alts /\ stmt \in AnyStmt
      /\ \A i \in DOMAIN stmt.alts : compiled[stmt][i] = FieldList(ast.defines, stmt.alts[i])
  BY StateIs, CompiledIs
<1>2. stmt.alts \in Seq(AnyList) /\ Len(stmt.alts) = 1 /\ Len(stmt.alts[1]) = 1
  BY <1>1, StmtIs
<1>3. 1 \in DOMAIN compiled[stmt] /\ 1 \in DOMAIN stmt.alts[1]
  BY <1>2, <1>1 DEF AnyList
<1>4. 1 \in DOMAIN compiled[stmt][1].exprs
  <2>1. 1 \in DOMAIN stmt.alts /\ compiled[stmt][1] = FieldList(ast.defines, stmt.alts[1])
    BY <1>1, <1>3
  <2> QED BY <2>1, <1>3 DEF FieldList
<1>5. e \in AnyExpr
  <2>1. compiled[stmt][1] \in AnyFieldList
    BY <1>1, <1>3
  <2> QED BY <2>1, <1>4 DEF AnyFieldList
<1>6. Clean => e.kind # "Variable"
  BY <1>3, <1>4, CleanMatch
<1> HIDE DEF e
<1>7. CASE FastKind(e) # {}
  <2> DEFINE n == Fast(CHOOSE k \in FastKind(e) : TRUE, Remaining)
  <2>1. m = IF n > 0 THEN Match(n, <<>>, <<>>) ELSE NoMatch
    BY <1>7 DEF Skipped
  <2>2. n \in Nat
    <3> DEFINE k == CHOOSE x \in FastKind(e) : TRUE
    <3>1. k \in Kinds
      BY <1>7 DEF FastKind
    <3> QED BY <3>1, StateIs, FastIs
  <2> HIDE DEF n, m
  <2>3. m.len \in Nat /\ m.is # "overflow"
    BY <2>1, <2>2 DEF Match, NoMatch
  <2> QED BY <2>3 DEF m, e
<1>8. CASE FastKind(e) = {}
  <2>1. m = EvalExpression(ast.defines, e, Remaining, FALSE, <<>>, <<>>)
    BY <1>8 DEF Skipped
  <2>2. <<>> \in Seq(Texts)
    OBVIOUS
  <2>3. m \in AnyMatch /\ (m.is = "overflow" => e.kind = "Variable")
    <3>1. Remaining \in Texts
      BY StateIs
    <3> HIDE DEF m
    <3> QED BY <1>5, <2>1, <2>2, <3>1, EvalExpressionIs
  <2> HIDE DEF m
  <2>4. m.len \in Nat
    BY <2>3 DEF AnyMatch
  <2> QED BY <2>3, <2>4, <1>6 DEF m, e
<1> QED BY <1>7, <1>8

\* A skip statement is evaluated.
LEMMA EvalSkipKeeps == ASSUME IInv, NEW stmt \in DOMAIN compiled, EvalSkip(stmt) PROVE IInv'
<1> DEFINE m == Skipped(compiled[stmt][1].exprs[1])
<1>1. /\ phase = "ready" /\ Readable /\ stmt.kind = "Skip" /\ pos' = pos + m.len
      /\ phase' = (CASE m.len > 0 -> "ready" [] m.is = "overflow" -> "overflow" [] OTHER -> "done")
      /\ UNCHANGED <<source, ast, compiled, match, running, calls, effect>>
  BY DEF EvalSkip
<1>2. m.len \in Nat /\ (Clean => m.is # "overflow")
  BY <1>1, SkippedIs
<1> HIDE DEF m
<1>3. pos' \in Nat /\ phase' \in {"ready", "overflow", "done"} /\ (phase' = "overflow" => m.is = "overflow")
  BY <1>1, <1>2, StateIs
<1> QED BY <1>1, <1>2, <1>3, StateIs, MoveKeeps

\* An action is taken.
LEMMA ActKeeps == ASSUME IInv, Act PROVE IInv'
<1> DEFINE a == running[1]
<1>1. /\ phase = "matched" /\ running # <<>> /\ running' = Tail(running)
      /\ UNCHANGED <<source, ast, compiled, pos, match, calls>>
  BY DEF Act
<1>2. \/ UNCHANGED <<phase, effect>>
      \/ phase' = "overflow" /\ UNCHANGED effect /\ \E arg \in ToSet(a.call.args) : Circular(arg)
      \/ OnTree(a.call) /\ effect' = Effect(a, match) /\ phase' \in {"panicked", phase}
  BY DEF Act
<1>3. phase \notin Loading /\ phase' \notin Loading /\ phase' \in {"matched", "overflow", "panicked"}
  BY <1>1, <1>2 DEF Loading
<1>4. DocumentOK' /\ Duties' = Duties /\ Clean' = Clean
  BY <1>1, <1>3, SameDocument
<1>6. a \in Duties /\ running' \in Seq(Duties)
  BY <1>1, StateIs
<1> HIDE DEF a
<1>7. ProgressOK'
  BY <1>1, <1>3, <1>4, <1>6 DEF IInv, ProgressOK
<1>8. EffectOK'
  <2>1. CASE UNCHANGED effect
    BY <1>1, <2>1, SameEffect
  <2>2. CASE OnTree(a.call) /\ effect' = Effect(a, match)
    <3>1. effect'.action = a
      BY <2>2 DEF Effect, EffectBy
    <3>3. effect' = Effect(effect'.action, match)
      BY <2>2, <3>1
    <3>4. Effect(effect.action, match)' = Effect(effect'.action, match)
      BY <1>1 DEF Effect, EffectBy
    <3> QED BY <2>2, <3>1, <3>3, <3>4, <1>4, <1>6 DEF EffectOK
  <2> QED BY <1>2, <2>1, <2>2
<1>9. CleanOK'
  <2>1. CASE Clean
    <3>1. phase' # "overflow"
      BY <2>1, <1>1, <1>2, <1>6, CleanArgs
    <3> QED BY <3>1 DEF CleanOK
  <2> QED BY <2>1, <1>4 DEF CleanOK
<1> QED BY <1>4, <1>7, <1>8, <1>9 DEF IInv

\* A grammar is called.
LEMMA RunInlineGrammarKeeps == ASSUME IInv, RunInlineGrammar PROVE IInv'
<1>1. /\ phase = "matched" /\ running # <<>> /\ phase' = "ready" /\ running' = <<>>
      /\ calls' = Append(calls, [rest |-> Tail(running), from |-> pos])
      /\ UNCHANGED <<source, ast, compiled, pos, match, effect>>
  BY DEF RunInlineGrammar
<1>2. running' \in Seq(Duties) /\ calls' \in Seq([rest : Seq(Duties), from : Nat])
  <2> DEFINE S == [rest : Seq(Duties), from : Nat]
             c == [rest |-> Tail(running), from |-> pos]
  <2>1. Tail(running) \in Seq(Duties) /\ pos \in Nat /\ calls \in Seq(S)
    BY <1>1, StateIs
  <2>2. c \in S
    BY <2>1
  <2> HIDE DEF S, c
  <2>3. Append(calls, c) \in Seq(S)
    BY <2>1, <2>2
  <2> QED BY <1>1, <2>3 DEF S, c
<1> QED BY <1>1, <1>2, StateIs, MoveKeeps DEF Loading

\* A grammar returns.
LEMMA ReturnKeeps == ASSUME IInv, Return PROVE IInv'
<1>1. /\ phase \in {"ready", "done"} /\ calls # <<>> /\ phase' = "matched"
      /\ running' = (IF pos > Last(calls).from THEN <<>> ELSE Last(calls).rest)
      /\ calls' = Front(calls) /\ UNCHANGED <<source, ast, compiled, pos, match, effect>>
  BY DEF Return
<1>2. running' \in Seq(Duties) /\ calls' \in Seq([rest : Seq(Duties), from : Nat])
  <2> DEFINE S == [rest : Seq(Duties), from : Nat]
  <2>1. calls \in Seq(S)
    BY StateIs
  <2>2. Last(calls) \in S /\ Front(calls) \in Seq(S)
    <3> HIDE DEF S
    <3>1. Len(calls) \in Nat \ {0}
      BY <2>1, <1>1
    <3>2. calls[Len(calls)] \in S
      BY <2>1, <3>1
    <3>3. Len(calls) - 1 \in 0 .. Len(calls)
      BY <3>1
    <3>4. SubSeq(calls, 1, Len(calls) - 1) \in Seq(S)
      BY <2>1, <3>3, PartIs
    <3> QED BY <3>2, <3>4 DEF Last, Front
  <2> QED BY <1>1, <2>2
<1> QED BY <1>1, <1>2, StateIs, MoveKeeps DEF Loading

\* The statements are tried again, or a position inside a character is read.
LEMMA RestartKeeps == ASSUME IInv, Restart \/ \E stmt \in DOMAIN compiled : ReadInside(stmt) PROVE IInv'
<1>1. /\ phase \in {"matched", "ready"} /\ phase' \in {"ready", "panicked"}
      /\ UNCHANGED <<source, ast, compiled, pos, match, running, calls, effect>>
  BY DEF Restart, ReadInside
<1> QED BY <1>1, StateIs, MoveKeeps DEF Loading

\* Nothing happens.
LEMMA StutterKeeps == ASSUME IInv, UNCHANGED vars PROVE IInv'
<1>1. UNCHANGED <<source, phase, ast, compiled, pos, match, running, calls, effect>>
  BY DEF vars
<1>2. Duties' = Duties /\ Clean' = Clean
  BY <1>1 DEF Duties, Clean
<1>3. DocumentOK'
  BY <1>1 DEF IInv, DocumentOK
<1>4. ProgressOK'
  BY <1>1, <1>2 DEF IInv, ProgressOK
<1>5. EffectOK'
  BY <1>1, SameEffect
<1>6. CleanOK'
  BY <1>1, <1>2 DEF IInv, CleanOK
<1> QED BY <1>3, <1>4, <1>5, <1>6 DEF IInv

\* Every step keeps the invariant.
LEMMA StepKeeps == IInv /\ [Next]_vars => IInv'
<1> SUFFICES ASSUME IInv, [Next]_vars PROVE IInv'
  OBVIOUS
<1>1. CASE Parse BY <1>1, ParseKeeps
<1>2. CASE Check BY <1>2, CheckKeeps
<1>3. CASE Compile BY <1>3, CompileKeeps
<1>4. CASE Act BY <1>4, ActKeeps
<1>5. CASE RunInlineGrammar BY <1>5, RunInlineGrammarKeeps
<1>6. CASE Return BY <1>6, ReturnKeeps
<1>7. CASE Restart BY <1>7, RestartKeeps
<1>8. ASSUME NEW stmt \in DOMAIN compiled, EvalMatch(stmt) \/ EvalWhen(stmt) \/ EvalAction(stmt) \/ EvalSkip(stmt)
                                              \/ ReadInside(stmt)
      PROVE  IInv'
  BY <1>8, EvalMatchKeeps, EvalWhenKeeps, EvalActionKeeps, EvalSkipKeeps, RestartKeeps
<1>9. CASE UNCHANGED vars BY <1>9, StutterKeeps
<1> QED BY <1>1, <1>2, <1>3, <1>4, <1>5, <1>6, <1>7, <1>8, <1>9 DEF Next

\* The document in hand is one the parser can return, what is compiled is
\* compiled from it, what is due are calls of it with matches they may refer
\* to, the effect is of a call and a match, and a clean document has not
\* overflowed: in every state (parse_gel_document, compile_regexes,
\* execute_runtime_actions).
THEOREM TypeCorrect == Spec => []IInv
<1>1. Init => IInv
  BY InitIs
<1>2. IInv /\ [Next]_vars => IInv'
  BY StepKeeps
<1> QED BY <1>1, <1>2, PTL DEF Spec

\* CleanRuns: what the validator lets through without a word leads to no
\* failure in matching or in arguments, if its definitions lead somewhere.
THEOREM CleanDocumentsRun == Spec => []CleanRuns
<1>1. IInv => CleanRuns
  <2> SUFFICES ASSUME IInv, Clean
               PROVE  /\ phase # "overflow"
                      /\ \A stmt \in DOMAIN compiled :
                           /\ \A list \in ToSet(compiled[stmt]) : \A e \in ToSet(list.exprs) :
                                e.kind # "Variable" /\ (e.kind = "Regex" => e.val \in DOMAIN Pattern)
                           /\ \A call \in Actions(stmt) :
                                call.args = <<>> => call.name \in Builtin \cup DOMAIN ast.grammars
    BY DEF CleanRuns, Clean
  <2>2. ASSUME NEW stmt \in DOMAIN compiled, NEW list \in ToSet(compiled[stmt]), NEW e \in ToSet(list.exprs)
        PROVE  e.kind # "Variable" /\ (e.kind = "Regex" => e.val \in DOMAIN Pattern)
    <3>1. PICK i \in DOMAIN compiled[stmt] : list = compiled[stmt][i]
      BY DEF ToSet
    <3>2. PICK j \in DOMAIN list.exprs : e = list.exprs[j]
      BY DEF ToSet
    <3> QED BY <3>1, <3>2, CleanMatch
  <2>3. ASSUME NEW stmt \in DOMAIN compiled, NEW call \in Actions(stmt), call.args = <<>>,
               call.name \notin Builtin \cup DOMAIN ast.grammars
        PROVE  FALSE
    <3>1. stmt \in Stmts(ast)
      BY StateIs, CompiledIs
    <3> QED BY <3>1, <2>3 DEF Clean, Diagnostics, UndefinedGrammarRefs
  <2> QED BY <2>2, <2>3 DEF IInv, CleanOK
<1> QED BY <1>1, TypeCorrect, PTL

\* FastIsRegex: where the text can be read and is ordinary for its kind, a skip
\* consumes by the fast path the bytes of the characters that its regular
\* expression matches, wherever it is tried.
THEOREM FastPathIsRegex == Spec => []FastIsRegex
<1>1. IInv => FastIsRegex
  <2> SUFFICES ASSUME IInv, Readable, NEW stmt \in {s \in DOMAIN compiled : s.kind = "Skip"},
                      NEW k \in FastKind(compiled[stmt][1].exprs[1]), Ordinary(k, Remaining)
               PROVE  Fast(k, Remaining) = Regex(k, Remaining)
    BY DEF FastIsRegex
  <2> QED BY StateIs, FastEqualsRegex DEF FastKind, Inputs
<1> QED BY <1>1, TypeCorrect, PTL

-----------------------------------------------------------------------------
(* The two engines.                                                        *)

\* One expression in the two engines, on a text within one window: where the
\* streaming engine matches the other does too, and the other way around but for
\* references to captures.
LEMMA SameExpression ==
    ASSUME NEW defines, IsMap(defines, AnyExpr), NEW e \in AnyExpr, NEW s \in Texts, Len(s) <= Window,
           NEW ci \in BOOLEAN, NEW caps \in Seq(Texts), NEW names
    PROVE  LET one == EvalExpression(defines, Resolve(defines, e), s, ci, caps, names)
               streamed == EvalStreaming(defines, e, s, ci, caps, names)
           IN  \/ streamed.is = "match"
               \/ one.is = "match" /\ Resolve(defines, e).kind \notin {"Capture", "CaptureName"}
               => streamed = one
<1> DEFINE r == Resolve(defines, e)
           one == EvalExpression(defines, r, s, ci, caps, names)
           streamed == EvalStreaming(defines, e, s, ci, caps, names)
           u == Referred(r.val, caps, names)
<1>1. r \in AnyExpr
  BY ResolvedIs
<1>2. InWindow(s) = s
  <2>2. InWindow(s) = SubSeq(s, 1, Len(s))
    BY WindowAssumption DEF InWindow, Texts
  <2> QED BY <2>2 DEF Texts
<1>3. CASE r.kind \in {"String", "Number", "Variable"}
  BY <1>3 DEF EvalStreaming, EvalExpression
<1>4. CASE r.kind = "Regex" /\ r.val \in DOMAIN Pattern
  BY <1>2, <1>4 DEF EvalStreaming, EvalExpression
<1>5. CASE r.kind = "Regex" /\ r.val \notin DOMAIN Pattern
  <2>2. streamed.is # "match" /\ one.is # "match"
    BY <1>5, MatchIs DEF EvalStreaming, EvalExpression
  <2> QED BY <2>2
<1>6. CASE r.kind \in {"Capture", "CaptureName"}
  <2>1. /\ streamed = IF u \in {<<>>, <<<<>>>>} THEN NoMatch ELSE MatchText(s, u[1], FALSE)
        /\ one = IF u = <<>> THEN NoMatch ELSE MatchText(s, u[1], ci)
    BY <1>6 DEF EvalStreaming, EvalExpression
  <2>2. ASSUME NEW t \in Texts, MatchText(s, t, FALSE).is = "match" PROVE MatchText(s, t, ci) = MatchText(s, t, FALSE)
    <3>1. StartsWith(s, t, FALSE)
      BY <2>2, MatchIs DEF MatchText
    <3> QED BY <3>1 DEF MatchText, StartsWith, Same
  <2>3. u = <<>> \/ \E v \in Texts : u = <<v>>
    BY ReferredIs
  <2> HIDE DEF u, one, streamed
  <2>4. streamed.is = "match" => streamed = one
    <3> SUFFICES ASSUME streamed.is = "match" PROVE streamed = one
      OBVIOUS
    <3>1. u \notin {<<>>, <<<<>>>>}
      BY <2>1, MatchIs
    <3>2. u[1] \in Texts /\ streamed = MatchText(s, u[1], FALSE) /\ one = MatchText(s, u[1], ci)
      BY <2>1, <2>3, <3>1
    <3> QED BY <3>2, <2>2
  <2> QED BY <2>4, <1>6 DEF one, streamed
<1> QED BY <1>1, <1>3, <1>4, <1>5, <1>6 DEF AnyExpr

\* A list in the two engines: the one goes through the expressions it compiled,
\* the other follows the variables as it meets them.
LEMMA SameList ==
    ASSUME NEW defines, IsMap(defines, AnyExpr), NEW exprs \in Seq(AnyExpr), NEW s \in Texts, Len(s) <= Window,
           NEW ci \in BOOLEAN
    PROVE  LET resolved == [i \in DOMAIN exprs |-> Resolve(defines, exprs[i])]
               single == OneByOne(defines, resolved, s, ci)
               streamed == EvalFieldListStreaming(defines, exprs, s, ci)
           IN  \/ streamed.is = "match"
               \/ single.is = "match" /\ ~RefersBack(resolved)
               => streamed = single
<1> DEFINE resolved == [i \in DOMAIN exprs |-> Resolve(defines, exprs[i])]
           single == OneByOne(defines, resolved, s, ci)
           streamed == EvalFieldListStreaming(defines, exprs, s, ci)
           n == Len(exprs)
<1>1. resolved \in Seq(AnyExpr)
  BY ResolvedList
<1>2. n \in Nat /\ DOMAIN exprs = 1 .. n /\ \A i \in 1 .. n : exprs[i] \in AnyExpr
  OBVIOUS
<1>3. Len(resolved) = n /\ \A i \in 1 .. n : resolved[i] = Resolve(defines, exprs[i])
  <2>1. DOMAIN resolved = 1 .. n
    BY <1>2
  <2> HIDE DEF n
  <2>2. \A i \in 1 .. n : resolved[i] = Resolve(defines, exprs[i])
    BY <1>2
  <2> HIDE DEF resolved
  <2> QED BY <2>1, <2>2, <1>1, <1>2
<1>4. ~RefersBack(resolved) => \A i \in 1 .. n : Resolve(defines, exprs[i]).kind \notin {"Capture", "CaptureName"}
  <2> HIDE DEF resolved, n
  <2> QED BY <1>3, <1>2 DEF RefersBack, ToSet
<1> HIDE DEF resolved
<1>5. PICK f : OneByOneBy(f, defines, resolved, s, ci)
  BY <1>1, OneByOneUnfolds
<1>6. PICK g : StreamingBy(g, defines, exprs, s, ci)
  BY StreamingUnfolds
<1> HIDE DEF n
<1>7. /\ f \in [0 .. n -> AnyMatch] /\ f[0] = Match(0, <<>>, <<>>) /\ single = f[n]
      /\ \A i \in 1 .. n : f[i] = StepOne(defines, s, ci, f[i - 1], resolved[i])
  BY <1>3, <1>5 DEF OneByOneBy
<1>8. /\ g \in [0 .. n -> AnyMatch] /\ g[0] = Match(0, <<>>, <<>>) /\ streamed = g[n]
      /\ \A i \in 1 .. n : g[i] = StepStreaming(defines, s, ci, g[i - 1], exprs[i])
  BY <1>6 DEF StreamingBy, n
<1> DEFINE back == IF RefersBack(resolved) THEN "yes" ELSE "no"
           Hit(j) == g[j].is = "match" \/ (f[j].is = "match" /\ back = "no")
           Good == {j \in 0 .. n : Hit(j) => g[j] = f[j]}
<1>8a. back = "no" <=> ~RefersBack(resolved)
  OBVIOUS
<1> HIDE DEF back
<1>9. 0 \in Good
  BY <1>2, <1>7, <1>8
<1>10. ASSUME NEW i \in 1 .. n, i - 1 \in Good PROVE i \in Good
  <2> DEFINE m == g[i - 1]
             rest == SubSeq(s, m.len + 1, Len(s))
             one == EvalExpression(defines, resolved[i], rest, ci, m.caps, m.names)
             two == EvalStreaming(defines, exprs[i], rest, ci, m.caps, m.names)
  <2>0. i \in 0 .. n /\ i - 1 \in 0 .. n
    BY <1>2
  <2>1. f[i] = StepOne(defines, s, ci, f[i - 1], resolved[i]) /\ g[i] = StepStreaming(defines, s, ci, m, exprs[i])
    BY <1>7, <1>8
  <2>2. m \in AnyMatch /\ f[i - 1] \in AnyMatch
    BY <2>0, <1>7, <1>8
  <2> HIDE DEF m
  <2>2b. Hit(i - 1) => g[i - 1] = f[i - 1]
    BY <1>10
  <2>3. SUFFICES ASSUME g[i].is = "match" \/ (f[i].is = "match" /\ back = "no")
                 PROVE  g[i] = f[i]
    BY <2>0
  <2>4. m.is = "match" \/ (f[i - 1].is = "match" /\ back = "no")
    <3>1. m.is # "match" => g[i] = m
      BY <2>1 DEF StepStreaming
    <3> QED BY <2>3, <3>1, <2>1 DEF StepOne
  <2>5. m = f[i - 1] /\ m.is = "match"
    BY <2>4, <2>2b DEF m
  <2>6. m.len \in Nat /\ m.caps \in Seq(Texts)
    BY <2>2 DEF AnyMatch
  <2>7. rest \in Texts /\ Len(rest) <= Window
    <3>1. Len(s) \in Nat /\ s \in Seq(Symbol) /\ Window \in Nat /\ Len(s) \in 0 .. Len(s) /\ m.len + 1 \in Nat \ {0}
      BY <2>6, WindowAssumption DEF Texts
    <3>2. rest \in Seq(Symbol) /\ Len(rest) = IF m.len + 1 <= Len(s) THEN Len(s) - (m.len + 1) + 1 ELSE 0
      BY <3>1, PartIs
    <3> HIDE DEF rest
    <3> QED BY <3>1, <3>2, <2>6 DEF Texts
  <2>8. f[i] = Joined(m, one) /\ g[i] = Joined(m, two)
    BY <2>1, <2>5 DEF StepOne, StepStreaming
  <2>9. \/ two.is = "match"
        \/ one.is = "match" /\ Resolve(defines, exprs[i]).kind \notin {"Capture", "CaptureName"}
        => two = one
    <3> HIDE DEF rest
    <3> QED BY <1>2, <1>3, <2>6, <2>7, SameExpression
  <2>10. one \in AnyMatch /\ two \in AnyMatch
    <3>1. exprs[i] \in AnyExpr /\ resolved[i] \in AnyExpr
      BY <1>2, <1>3, ResolvedIs
    <3> HIDE DEF rest
    <3> QED BY <3>1, <2>6, <2>7, EvalExpressionIs, EvalStreamingIs
  <2> HIDE DEF one, two
  <2>11. g[i].is = two.is /\ f[i].is = one.is
    BY <2>2, <2>8, <2>10, JoinedIs
  <2> QED BY <2>3, <2>8, <2>9, <2>11, <1>4, <1>8a
<1>11. \A i \in 0 .. n : i \in Good
  <2> HIDE DEF Good
  <2> QED BY <1>2, <1>9, <1>10, Ascent
<1>12. n \in Good
  BY <1>2, <1>11
<1> QED BY <1>7, <1>8, <1>8a, <1>12 DEF resolved

\* A text without characters that are encoded is its own encoding.
LEMMA EncodeIs ==
    ASSUME NEW s \in Texts, ToSet(s) \cap DOMAIN Hex = {}
    PROVE  Encode(s) = s
<1> DEFINE n == Len(s)
           x == [i \in DOMAIN s |-> <<s[i]>>]
<1>1. n \in Nat /\ DOMAIN s = 1 .. n /\ s \in Seq(Symbol) /\ \A i \in 1 .. n : s[i] \in Symbol
  BY DEF Texts
<1>2. Encode(s) = FlattenSeq(x)
  <2>1. \A i \in DOMAIN s : s[i] \notin DOMAIN Hex
    BY DEF ToSet
  <2> QED BY <2>1 DEF Encode
<1>3. x \in Seq(Seq(Symbol)) /\ Len(x) = n /\ \A i \in 1 .. n : x[i] = <<s[i]>>
  <2>1. x = [i \in 1 .. n |-> x[i]]
    BY <1>1
  <2>2. \A i \in 1 .. n : x[i] = <<s[i]>>
    BY <1>1
  <2>3. \A i \in 1 .. n : x[i] \in Seq(Symbol)
    BY <1>1, <2>2
  <2>4. DOMAIN x = 1 .. n
    BY <1>1
  <2> HIDE DEF x, n
  <2>5. x \in Seq(Seq(Symbol))
    BY <1>1, <2>1, <2>3, SeqIs
  <2> QED BY <2>2, <2>5, <2>4, <1>1
<1> HIDE DEF x
<1>4. PICK g \in [0 .. Len(x) -> Seq(Symbol)] :
        g[0] = <<>> /\ (\A i \in 1 .. Len(x) : g[i] = g[i - 1] \o x[i]) /\ FlattenSeq(x) = g[Len(x)]
  BY <1>3, Flat
<1> DEFINE Good == {i \in 0 .. n : g[i] = SubSeq(s, 1, i)}
<1>5. 0 \in Good
  BY <1>1, <1>4
<1>6. ASSUME NEW i \in 1 .. n, i - 1 \in Good PROVE i \in Good
  <2>1. g[i - 1] = SubSeq(s, 1, i - 1) /\ g[i] = g[i - 1] \o <<s[i]>>
    BY <1>3, <1>4, <1>6
  <2>2. SubSeq(s, 1, i) = SubSeq(s, 1, i - 1) \o <<s[i]>>
    <3> HIDE DEF n
    <3> QED BY <1>1 DEF n
  <2> QED BY <2>1, <2>2, <1>1
<1>7. \A i \in 0 .. n : i \in Good
  <2> HIDE DEF Good
  <2> QED BY <1>1, <1>5, <1>6, Ascent
<1>8. g[n] = SubSeq(s, 1, n)
  BY <1>1, <1>7
<1> QED BY <1>1, <1>2, <1>3, <1>4, <1>8

\* Where nothing is escaped and nothing encoded, texts are filled in as they are,
\* and whatever the names if they refer to captures by numbers only.
LEMMA FillSame ==
    ASSUME NEW s \in Texts, NEW caps, NEW names, NEW others, \A i \in DOMAIN caps : Encode(caps[i]) = caps[i],
           (\A i \in DOMAIN s : s[i] # "\\") \/ (\A i \in DOMAIN s : s[i] # "$"),
           names = others \/ NumbersOnly(s)
    PROVE  Fill(s, caps, names, TRUE, Encode) = Fill(s, caps, others, FALSE, LAMBDA text : text)
<1> DEFINE NameEnd(i) == CHOOSE e \in i .. Len(s) : /\ \A j \in i + 1 .. e : s[j] \in NameChar
                                                    /\ e = Len(s) \/ s[e + 1] \notin NameChar
           R1(ref) == Referred(ref, caps, names)
           R2(ref) == Referred(ref, caps, others)
           Put1(ref) == IF ref = <<>> THEN <<"$">> ELSE IF R1(ref) = <<>> THEN <<>> ELSE Encode(R1(ref)[1])
           Put2(ref) == IF ref = <<>> THEN <<"$">> ELSE IF R2(ref) = <<>> THEN <<>> ELSE R2(ref)[1]
           Body1(f, i) == IF i > Len(s) THEN <<>>
                          ELSE IF s[i] = "\\" /\ i < Len(s) /\ s[i + 1] = "$" THEN <<"$">> \o f[i + 2]
                          ELSE IF s[i] = "$" THEN Put1(SubSeq(s, i + 1, NameEnd(i))) \o f[NameEnd(i) + 1]
                          ELSE <<s[i]>> \o f[i + 1]
           Body2(f, i) == IF i > Len(s) THEN <<>>
                          ELSE IF s[i] = "$" THEN Put2(SubSeq(s, i + 1, NameEnd(i))) \o f[NameEnd(i) + 1]
                          ELSE <<s[i]>> \o f[i + 1]
           L1 == CHOOSE f : f = [i \in 1 .. Len(s) + 1 |-> Body1(f, i)]
           L2 == CHOOSE f : f = [i \in 1 .. Len(s) + 1 |-> Body2(f, i)]
<1>0. Len(s) \in Nat /\ DOMAIN s = 1 .. Len(s) /\ s \in Seq(Symbol)
  BY DEF Texts
<1>1. Fill(s, caps, names, TRUE, Encode) = L1[1]
  BY DEF Fill
<1>2. Fill(s, caps, others, FALSE, LAMBDA text : text) = L2[1]
  BY DEF Fill
<1>3. ASSUME NEW i \in 1 .. Len(s), s[i] = "$"
      PROVE  Put1(SubSeq(s, i + 1, NameEnd(i))) = Put2(SubSeq(s, i + 1, NameEnd(i)))
  <2> DEFINE e == RunEnd(s, i, NameChar)
             ref == SubSeq(s, i + 1, e)
  <2>1. NameEnd(i) = e
    BY DEF RunEnd
  <2>2. e \in i .. Len(s) /\ \A j \in i + 1 .. e : s[j] \in NameChar
    BY <1>0, RunEndIs
  <2> HIDE DEF e, NameEnd
  <2>3. ASSUME NumbersOnly(s) PROVE R1(ref) = R2(ref)
    <3>1. \A j \in i + 1 .. e : s[j] \in Digits
      BY <1>0, <1>3, <2>2, <2>3 DEF NumbersOnly
    <3>2. i + 1 \in Nat \ {0} /\ e \in 0 .. Len(s)
      BY <1>0, <2>2
    <3>3. /\ ref \in Seq(Symbol) /\ Len(ref) = (IF i + 1 <= e THEN e - (i + 1) + 1 ELSE 0)
          /\ \A j \in 1 .. Len(ref) : ref[j] = s[(i + 1) + j - 1]
      BY <1>0, <3>2, PartIs
    <3> HIDE DEF ref
    <3>4. ASSUME NEW j \in 1 .. Len(ref) PROVE ref[j] \in Digits
      <4>1. (i + 1) + j - 1 \in i + 1 .. e
        BY <1>0, <2>2, <3>3
      <4> QED BY <4>1, <3>1, <3>3
    <3>5. AllDigits(ref)
      BY <3>3, <3>4 DEF AllDigits
    <3> QED BY <3>5 DEF Referred
  <2>4. R1(ref) = R2(ref)
    BY <2>3
  <2> HIDE DEF ref
  <2>5. R1(ref) = <<>> \/ \E k \in DOMAIN caps : R1(ref) = <<caps[k]>>
    BY DEF Referred
  <2>6. R1(ref) # <<>> => Encode(R1(ref)[1]) = R1(ref)[1]
    <3> HIDE DEF R1
    <3> QED BY <2>5
  <2> HIDE DEF R1, R2
  <2> QED BY <2>1, <2>4, <2>6 DEF ref
<1> HIDE DEF Put1, Put2, NameEnd
<1>4. ASSUME NEW f, NEW i \in 1 .. Len(s) + 1 PROVE Body1(f, i) = Body2(f, i)
  <2>1. ~ (i <= Len(s) /\ s[i] = "\\" /\ i < Len(s) /\ s[i + 1] = "$")
    BY <1>0
  <2>2. i > Len(s) \/ i \in 1 .. Len(s)
    BY <1>0
  <2> QED BY <2>1, <2>2, <1>3
<1> HIDE DEF Body1, Body2
<1>5. ASSUME NEW f
      PROVE  (f = [i \in 1 .. Len(s) + 1 |-> Body1(f, i)]) <=> (f = [i \in 1 .. Len(s) + 1 |-> Body2(f, i)])
  BY <1>4
<1>6. L1 = L2
  BY <1>5
<1> QED BY <1>1, <1>2, <1>6

\* A number is filled in as it is.
LEMMA FillNumber ==
    ASSUME NEW s \in Seq(Digits), NEW caps, NEW names
    PROVE  Fill(s, caps, names, FALSE, LAMBDA text : text) = s
<1> DEFINE NameEnd(i) == CHOOSE e \in i .. Len(s) : /\ \A j \in i + 1 .. e : s[j] \in NameChar
                                                    /\ e = Len(s) \/ s[e + 1] \notin NameChar
           R(ref) == Referred(ref, caps, names)
           Put2(ref) == IF ref = <<>> THEN <<"$">> ELSE IF R(ref) = <<>> THEN <<>> ELSE R(ref)[1]
           Body2(f, i) == IF i > Len(s) THEN <<>>
                          ELSE IF s[i] = "$" THEN Put2(SubSeq(s, i + 1, NameEnd(i))) \o f[NameEnd(i) + 1]
                          ELSE <<s[i]>> \o f[i + 1]
           L2 == CHOOSE f : f = [i \in 1 .. Len(s) + 1 |-> Body2(f, i)]
           n == Len(s)
           D == 1 .. n + 1
           g == [i \in D |-> SubSeq(s, i, n)]
<1>1. Fill(s, caps, names, FALSE, LAMBDA text : text) = L2[1]
  BY DEF Fill
<1>2. n \in Nat /\ \A i \in 1 .. n : s[i] \in Digits /\ s[i] # "$"
  <2>2. "$" \notin Digits
    BY DEF Digits
  <2> QED BY <2>2
<1>3. \A f : \A i \in D : Body2(f, i) = IF i > n THEN <<>> ELSE <<s[i]>> \o f[i + 1]
  BY <1>2
<1> HIDE DEF Body2, n
<1>4. \A i \in D : i > n => SubSeq(s, i, n) = <<>>
  BY <1>2
<1>5. \A i \in 1 .. n : SubSeq(s, i, n) = <<s[i]>> \o SubSeq(s, i + 1, n)
  BY <1>2 DEF n
<1>5a. g = [i \in D |-> g[i]] /\ \A i \in D : g[i] = SubSeq(s, i, n)
  OBVIOUS
<1> HIDE DEF g
<1>6. \A i \in D : g[i] = Body2(g, i)
  <2> TAKE i \in D
  <2>1. CASE i > n
    BY <2>1, <1>3, <1>4, <1>5a
  <2>2. CASE ~ (i > n)
    <3>1. i \in 1 .. n /\ i + 1 \in D
      BY <2>2, <1>2
    <3> QED BY <3>1, <2>2, <1>3, <1>5, <1>5a
  <2> QED BY <2>1, <2>2
<1>7. L2 = [i \in D |-> Body2(L2, i)]
  <2>2. D = 1 .. Len(s) + 1
    BY DEF n
  <2> HIDE DEF D
  <2> QED BY <1>5a, <1>6, <2>2
<1> HIDE DEF L2
<1>8. \A i \in D : L2[i] = IF i > n THEN <<>> ELSE <<s[i]>> \o L2[i + 1]
  BY <1>3, <1>7
<1> DEFINE M == [i \in D |-> i]
           Good == {i \in D : L2[i] = SubSeq(s, i, n)}
<1>9. M \in [D -> 0 .. n + 1] /\ n + 1 \in Nat
  BY <1>2
<1>10. \A i \in D : (\A j \in D : M[j] > M[i] => j \in Good) => i \in Good
  <2> SUFFICES ASSUME NEW i \in D, \A j \in D : M[j] > M[i] => j \in Good PROVE i \in Good
    OBVIOUS
  <2>1. CASE i > n
    BY <2>1, <1>4, <1>8
  <2>2. CASE ~ (i > n)
    <3>1. i \in 1 .. n /\ i + 1 \in D /\ M[i + 1] > M[i]
      BY <2>2, <1>2
    <3> QED BY <3>1, <2>2, <1>5, <1>8
  <2> QED BY <2>1, <2>2
<1>11. \A i \in D : i \in Good
  <2> HIDE DEF D, M, Good
  <2> QED BY <1>9, <1>10, Descent
<1>12. L2[1] = SubSeq(s, 1, n)
  BY <1>2, <1>11
<1>13. SubSeq(s, 1, n) = s
  BY DEF n
<1> QED BY <1>1, <1>12, <1>13

\* Captures that need no encoding are the same encoded, and have no reference
\* in them.
LEMMA PlainCapsIs ==
    ASSUME NEW m \in AnyMatch, PlainCaps(m)
    PROVE  /\ \A i \in DOMAIN m.caps : Encode(m.caps[i]) = m.caps[i]
           /\ \A i \in DOMAIN m.caps : m.caps[i] \in Texts /\ \A j \in DOMAIN m.caps[i] : m.caps[i][j] # "$"
<1>2. \A i \in DOMAIN m.caps : m.caps[i] \in Texts /\ ToSet(m.caps[i]) \cap DOMAIN Hex = {}
  BY DEF PlainCaps, ToSet, AnyMatch
<1>3. "$" \in DOMAIN Hex
  BY DEF Hex
<1> QED BY <1>2, <1>3, EncodeIs DEF ToSet

\* What an argument is in either engine when it needs no encoding.
LEMMA SameArgument ==
    ASSUME NEW defines, IsMap(defines, AnyExpr), NEW arg \in AnyExpr,
           NEW m \in AnyMatch, PlainCaps(m), NEW others,
           Resolve(defines, arg).kind = "String" => "\\" \notin ToSet(Resolve(defines, arg).val),
           \/ m.names = others
           \/ /\ arg.kind # "CaptureName"
              /\ Resolve(defines, arg).kind = "String" => NumbersOnly(Resolve(defines, arg).val)
    PROVE  TextOf(defines, Substitute(arg, m.caps, m.names), m.caps, m.names)
             = TextStreaming(defines, SubstituteStreaming(defines, arg, m.caps, others), m.caps, others)
<1> DEFINE Text1(e) == TextOf(defines, e, m.caps, m.names)
           Text2(e) == TextStreaming(defines, e, m.caps, others)
           Filled(s) == Fill(s, m.caps, others, FALSE, LAMBDA text : text)
<1>0. IsFiniteSet(DOMAIN defines)
  BY DEF IsMap
<1>1. \A s \in Texts : /\ (\A i \in DOMAIN s : s[i] # "\\") \/ (\A i \in DOMAIN s : s[i] # "$")
                       /\ m.names = others \/ NumbersOnly(s)
                       => Interpolate(s, m.caps, m.names) = Filled(s)
  <2>1. \A i \in DOMAIN m.caps : Encode(m.caps[i]) = m.caps[i]
    BY PlainCapsIs
  <2> QED BY <2>1, FillSame DEF Interpolate
<1>2. \A s : Resolve(defines, Expr("String", s)) = Expr("String", s) /\ Expr("String", s).kind = "String" /\ Expr("String", s).val = s
  BY <1>0, ResolveIs DEF Expr
<1>3. \A s : Text1(Expr("String", s)) = Interpolate(s, m.caps, m.names) /\ Text2(Expr("String", s)) = Filled(s)
  BY <1>2 DEF TextOf, TextStreaming
<1>5. \A e : Resolve(defines, e).kind = "String" =>
        /\ Text1(e) = Interpolate(Resolve(defines, e).val, m.caps, m.names)
        /\ Text2(e) = Filled(Resolve(defines, e).val)
  BY DEF TextOf, TextStreaming
<1>6. Resolve(defines, arg) \in AnyExpr /\ Resolve(defines, arg).val \in Texts
  BY ResolvedIs DEF AnyExpr
<1>7. \A e : Resolve(defines, e) = Resolve(defines, arg) => Text1(e) = Text2(e)
  <2> TAKE e
  <2> HAVE Resolve(defines, e) = Resolve(defines, arg)
  <2>1. CASE Resolve(defines, e).kind # "String"
    BY <2>1 DEF TextOf, TextStreaming
  <2>2. CASE Resolve(defines, e).kind = "String"
    <3> DEFINE s == Resolve(defines, arg).val
    <3>1. \A i \in DOMAIN s : s[i] # "\\"
      BY <2>2 DEF ToSet
    <3>2. Text1(e) = Interpolate(s, m.caps, m.names) /\ Text2(e) = Filled(s)
      BY <2>2, <1>5
    <3>3. s \in Texts /\ (m.names = others \/ NumbersOnly(s))
      BY <1>6, <2>2
    <3> HIDE DEF s, Text1, Text2, Filled
    <3> QED BY <3>1, <3>2, <3>3, <1>1
  <2> QED BY <2>1, <2>2
<1> HIDE DEF Text1, Text2, Filled
<1>8. CASE arg.kind \in {"Capture", "CaptureName"}
  <2> DEFINE u == Referred(arg.val, m.caps, m.names)
  <2>0. Referred(arg.val, m.caps, others) = u
    <3>1. arg.kind = "Capture" => AllDigits(arg.val)
      BY DEF AnyExpr
    <3> QED BY <1>8, <3>1 DEF Referred
  <2>1. /\ Substitute(arg, m.caps, m.names) = Expr("String", IF u = <<>> THEN <<>> ELSE Encode(u[1]))
        /\ SubstituteStreaming(defines, arg, m.caps, others) = Expr("String", IF u = <<>> THEN <<>> ELSE u[1])
    BY <1>8, <2>0 DEF Substitute, SubstituteStreaming
  <2>2. u = <<>> \/ \E i \in DOMAIN m.caps : u = <<m.caps[i]>>
    BY DEF Referred
  <2> HIDE DEF u
  <2>3. PICK s \in Texts : /\ \A i \in DOMAIN s : s[i] # "$"
                           /\ Substitute(arg, m.caps, m.names) = Expr("String", s)
                           /\ SubstituteStreaming(defines, arg, m.caps, others) = Expr("String", s)
    <3>1. CASE u = <<>>
      <4>1. <<>> \in Texts /\ DOMAIN <<>> = {}
        BY DEF Texts
      <4> QED BY <4>1, <3>1, <2>1
    <3>2. ASSUME NEW i \in DOMAIN m.caps, u = <<m.caps[i]>>
          PROVE  \E s \in Texts : /\ \A j \in DOMAIN s : s[j] # "$"
                                  /\ Substitute(arg, m.caps, m.names) = Expr("String", s)
                                  /\ SubstituteStreaming(defines, arg, m.caps, others) = Expr("String", s)
      <4>1. u # <<>> /\ u[1] = m.caps[i]
        BY <3>2
      <4> QED BY <4>1, PlainCapsIs, <2>1
    <3> QED BY <3>1, <3>2, <2>2
  <2>4. NumbersOnly(s)
    BY <2>3 DEF NumbersOnly
  <2> QED BY <2>3, <2>4, <1>1, <1>3 DEF Text1, Text2
<1>9. CASE arg.kind = "Variable" /\ arg.val \in DOMAIN defines /\ defines[arg.val].kind \in {"String", "Number"}
  <2> DEFINE d == defines[arg.val]
  <2>2. Resolve(defines, arg) = d
    BY <1>0, <1>9, ResolveIs DEF NameOf
  <2>3. Text1(arg) = Text2(Expr("String", d.val))
    <3>1. CASE d.kind = "String"
      <4>1. Text1(arg) = Text2(arg)
        BY <1>7
      <4>2. Text2(arg) = Filled(d.val)
        BY <3>1, <2>2, <1>5
      <4> QED BY <4>1, <4>2, <1>3
    <3>2. CASE d.kind = "Number"
      <4>1. d.val \in Seq(Digits)
        BY <3>2, <2>2, <1>6 DEF AnyExpr
      <4>2. Text1(arg) = d.val
        BY <3>2, <2>2 DEF TextOf, Text1
      <4>3. Filled(d.val) = d.val
        BY <4>1, FillNumber DEF Filled
      <4> QED BY <4>2, <4>3, <1>3
    <3> QED BY <3>1, <3>2, <1>9
  <2> QED BY <1>9, <2>3 DEF Text1, Text2, Substitute, SubstituteStreaming
<1>10. CASE arg.kind \notin {"Capture", "CaptureName"} /\
            ~ (arg.kind = "Variable" /\ arg.val \in DOMAIN defines /\ defines[arg.val].kind \in {"String", "Number"})
  <2>2. Text1(arg) = Text2(arg)
    BY <1>7
  <2> QED BY <1>10, <2>2 DEF Text1, Text2, Substitute, SubstituteStreaming
<1> QED BY <1>8, <1>9, <1>10

\* The argument that is the value, if there is one.
LEMMA ValueIs ==
    ASSUME NEW call \in AnyCall, OnTree(call)
    PROVE  /\ call.args[1] \in AnyExpr /\ call.args[1] \in ToSet(call.args)
           /\ \A i \in DOMAIN Value(call) : Value(call)[i] \in AnyExpr /\ Value(call)[i] \in ToSet(call.args)
<1> DEFINE a == call.args
           n == Len(a)
<1>1. a \in Seq(AnyExpr) /\ n \in Nat /\ DOMAIN a = 1 .. n
  BY DEF AnyCall
<1>2. n >= 1 /\ (call.name = <<"out.add_attribute">> => n >= 3)
  BY <1>1 DEF OnTree, Needs
<1>3. Min({2, n}) \in 0 .. n
  <2> DEFINE x == IF n <= 2 THEN n ELSE 2
  <2>1. x \in {2, n} /\ x \in 0 .. n /\ \A y \in {2, n} : x <= y
    BY <1>1, <1>2
  <2> HIDE DEF x
  <2>3. Min({2, n}) = x
    BY <2>1, <1>1 DEF Min
  <2> QED BY <2>1, <2>3
<1>4. (Value(call) = SubSeq(a, 3, 3) /\ n >= 3) \/ Value(call) = <<>> \/ Value(call) = SubSeq(a, 2, Min({2, n}))
  <2>1. CASE call.name = <<"out.add_attribute">>
    BY <2>1, <1>2 DEF Value
  <2>2. CASE call.name \in {<<"out.open">>, <<"out.enter">>}
    BY <2>2 DEF Value
  <2>3. CASE call.name # <<"out.add_attribute">> /\ call.name \notin {<<"out.open">>, <<"out.enter">>}
    BY <2>3 DEF Value
  <2> QED BY <2>1, <2>2, <2>3
<1> HIDE DEF a, n
<1>5. \A x \in Nat \ {0}, y \in 0 .. n : \A i \in DOMAIN SubSeq(a, x, y) : SubSeq(a, x, y)[i] \in ToSet(a)
  <2> TAKE x \in Nat \ {0}, y \in 0 .. n
  <2>1. /\ SubSeq(a, x, y) \in Seq(AnyExpr) /\ Len(SubSeq(a, x, y)) = (IF x <= y THEN y - x + 1 ELSE 0)
        /\ \A i \in 1 .. Len(SubSeq(a, x, y)) : SubSeq(a, x, y)[i] = a[x + i - 1]
    BY <1>1, PartIs DEF n
  <2> DEFINE b == SubSeq(a, x, y)
  <2> HIDE DEF b
  <2>3. ASSUME NEW i \in DOMAIN b PROVE b[i] \in ToSet(a)
    <3>1. i \in 1 .. Len(b) /\ x <= y /\ Len(b) = y - x + 1 /\ b[i] = a[x + i - 1]
      BY <2>1, <2>3 DEF b
    <3> QED BY <3>1, <1>1 DEF ToSet
  <2> QED BY <2>3 DEF b
<1>6. \A e \in ToSet(a) : e \in AnyExpr
  BY <1>1 DEF ToSet
<1>7. 1 \in 1 .. n /\ a[1] \in ToSet(a)
  BY <1>1, <1>2 DEF ToSet
<1>8. \A i \in DOMAIN Value(call) : Value(call)[i] \in ToSet(a)
  <2>1. CASE Value(call) = SubSeq(a, 3, 3) /\ n >= 3
    <3>1. 3 \in Nat \ {0} /\ 3 \in 0 .. n
      BY <2>1, <1>1
    <3> QED BY <2>1, <3>1, <1>5
  <2>2. CASE Value(call) = <<>>
    BY <2>2
  <2>3. CASE Value(call) = SubSeq(a, 2, Min({2, n}))
    BY <2>3, <1>3, <1>5
  <2> QED BY <2>1, <2>2, <2>3, <1>4
<1> QED BY <1>6, <1>7, <1>8 DEF a

\* A call writes the same after either match, if the captures are the same and
\* need no encoding, and the names are the same or not used.
LEMMA SameWrites ==
    ASSUME IInv, NEW call \in CallsOf(ast), OnTree(call), NEW used \in AnyMatch, NEW streamed \in AnyMatch,
           used.caps = streamed.caps, PlainArgs(call, used), used.names = streamed.names \/ ByNumber(call)
    PROVE  SameWrite(call, used, streamed)
<1> DEFINE d == ast.defines
           Text1(arg) == TextOf(d, Substitute(arg, used.caps, used.names), used.caps, used.names)
           Text2(arg) == TextStreaming(d, SubstituteStreaming(d, arg, streamed.caps, streamed.names),
                                       streamed.caps, streamed.names)
           Value1 == FlattenSeq([i \in DOMAIN Value(call) |-> Text1(Value(call)[i])])
           Value2 == FlattenSeq([i \in DOMAIN Value(call) |-> Text2(Value(call)[i])])
           due == [call |-> call, of |-> used]
           other == [call |-> call, of |-> streamed]
<1>1. IsMap(d, AnyExpr) /\ call \in AnyCall
  BY StateIs, CallsOfIs
<1>2. PlainCaps(used)
  BY DEF PlainArgs, PlainCaps
<1>3. ASSUME NEW arg \in ToSet(call.args), arg \in AnyExpr PROVE Text1(arg) = Text2(arg)
  <2>1. Resolve(d, arg).kind = "String" => "\\" \notin ToSet(Resolve(d, arg).val)
    BY DEF PlainArgs
  <2>2. \/ used.names = streamed.names
        \/ arg.kind # "CaptureName" /\ (Resolve(d, arg).kind = "String" => NumbersOnly(Resolve(d, arg).val))
    BY DEF ByNumber
  <2> HIDE DEF d
  <2> QED BY <1>1, <1>2, <1>3, <2>1, <2>2, SameArgument
<1>4. /\ Effect(due, used) = [action |-> due, at |-> Target(call.name, Text1(call.args[1])),
                              text |-> IF call.name = <<"out.add_attribute">> THEN Value1 ELSE Decode(Value1)]
      /\ EffectStreaming(other, streamed) =
           [action |-> other, at |-> Target(call.name, Text2(call.args[1])),
            text |-> IF call.name = <<"out.add_attribute">> THEN Value2 ELSE Decode(Value2)]
  BY DEF Effect, EffectStreaming, EffectBy
<1> HIDE DEF Text1, Text2, d
<1>5. Text1(call.args[1]) = Text2(call.args[1])
  BY <1>1, <1>3, ValueIs
<1>6. [i \in DOMAIN Value(call) |-> Text1(Value(call)[i])] = [i \in DOMAIN Value(call) |-> Text2(Value(call)[i])]
  BY <1>1, <1>3, ValueIs
<1>7. Value1 = Value2
  BY <1>6
<1> HIDE DEF Value1, Value2
<1>8. SameWrite(call, used, streamed) <=>
        Effect(due, used).at = EffectStreaming(other, streamed).at /\ Effect(due, used).text = EffectStreaming(other, streamed).text
  BY DEF SameWrite
<1> HIDE DEF due, other
<1> QED BY <1>4, <1>5, <1>7, <1>8

\* EnginesAgree: on a text within one window the streaming engine matches nothing
\* that the other does not without a combined expression, and misses nothing but
\* references back; and where each engine's own match has the same captures, and
\* none needs encoding, a call writes the same in both, if their names are the
\* same or it uses none.
THEOREM EnginesDoTheSame == Spec => []EnginesAgree
<1>1. IInv => EnginesAgree
  <2> SUFFICES ASSUME IInv, phase = "ready", Len(Remaining) <= Window,
                      NEW stmt \in {s \in DOMAIN compiled : s.kind \in {"Match", "IMatch", "When"}}, NEW i \in DOMAIN stmt.alts
               PROVE  LET ci == stmt.kind = "IMatch"
                          single == OneByOne(ast.defines, compiled[stmt][i].exprs, Remaining, ci)
                          used == EvalFieldList(ast.defines, compiled[stmt][i], Remaining, ci)
                          streamed == EvalFieldListStreaming(ast.defines, stmt.alts[i], Remaining, ci)
                      IN  /\ \/ streamed.is = "match"
                             \/ single.is = "match" /\ ~RefersBack(compiled[stmt][i].exprs)
                             => streamed = single
                          /\ used.is = "match" /\ streamed.is = "match" /\ used.caps = streamed.caps =>
                               \A call \in {c \in ToSet(stmt.actions) : OnTree(c) /\ PlainArgs(c, used)} :
                                 used.names = streamed.names \/ ByNumber(call) => SameWrite(call, used, streamed)
    BY DEF EnginesAgree
  <2> DEFINE d == ast.defines
             s == Remaining
             ci == stmt.kind = "IMatch"
             exprs == stmt.alts[i]
             list == compiled[stmt][i]
             single == OneByOne(d, list.exprs, s, ci)
             used == EvalFieldList(d, list, s, ci)
             streamed == EvalFieldListStreaming(d, exprs, s, ci)
  <2>1. /\ stmt \in Stmts(ast) /\ stmt \in AnyStmt /\ list = FieldList(d, exprs)
        /\ compiled[stmt] \in Seq(AnyFieldList) /\ DOMAIN compiled[stmt] = DOMAIN stmt.alts
    BY StateIs, CompiledIs
  <2>2. list \in AnyFieldList /\ list.exprs = [j \in DOMAIN exprs |-> Resolve(d, exprs[j])]
    BY <2>1 DEF FieldList
  <2>3. exprs \in Seq(AnyExpr)
    <3>2. exprs \in AnyList
      BY <2>1, StmtIs
    <3> QED BY <3>2 DEF AnyList
  <2>4. s \in Texts /\ Len(s) <= Window /\ IsMap(d, AnyExpr) /\ ci \in BOOLEAN
    BY StateIs
  <2> HIDE DEF d, s, ci, exprs, list
  <2>5. \/ streamed.is = "match"
        \/ single.is = "match" /\ ~RefersBack(list.exprs)
        => streamed = single
    BY <2>2, <2>3, <2>4, SameList
  <2>6. used \in AnyMatch /\ single \in AnyMatch
    <3>1. list.exprs \in Seq(AnyExpr)
      BY <2>2 DEF AnyFieldList
    <3> QED BY <3>1, <2>2, <2>4, EvalFieldListIs, OneByOneIs
  <2> HIDE DEF single, used, streamed
  <2>7. ASSUME streamed.is = "match", used.caps = streamed.caps,
               NEW call \in ToSet(stmt.actions), OnTree(call), PlainArgs(call, used),
               used.names = streamed.names \/ ByNumber(call)
        PROVE  SameWrite(call, used, streamed)
    <3>1. streamed \in AnyMatch
      BY <2>5, <2>6, <2>7
    <3>2. call \in CallsOf(ast)
      BY <2>1 DEF CallsOf, Actions
    <3> QED BY <2>6, <2>7, <3>1, <3>2, SameWrites
  <2> QED BY <2>5, <2>7 DEF d, s, ci, exprs, list, single, used, streamed
<1> QED BY <1>1, TypeCorrect, PTL

-----------------------------------------------------------------------------
(* One expression after the other, and all at once.                        *)

\* A division, by the places where items end.
LEMMA DivisionIs ==
    ASSUME NEW re, IsRe(re), NEW s \in Texts, NEW ci, NEW x
    PROVE  x \in Divisions(re, s, ci) <=>
             /\ x \in [1 .. Len(re.items) -> Nat] /\ EndOf(x, Len(re.items)) <= Len(s)
             /\ \A i \in 1 .. Len(re.items) : Piece(re.items[i], s, EndOf(x, i - 1), EndOf(x, i), ci)
<1> DEFINE n == Len(re.items)
<1>1. n \in Nat /\ DOMAIN re.items = 1 .. n /\ Len(s) \in Nat
  BY ReIs DEF Texts
<1> HIDE DEF n
<1>2. ASSUME x \in [1 .. n -> Nat]
      PROVE  /\ Len(x) = n
             /\ \A i \in 1 .. n : /\ EndOf(x, i - 1) \in Nat /\ EndOf(x, i) \in Nat
                                  /\ EndOf(x, i) = EndOf(x, i - 1) + x[i]
                                  /\ EndOf(x, i) <= EndOf(x, n) /\ EndOf(x, n) \in Nat
  <2>2. ASSUME NEW i \in 1 .. n
        PROVE  /\ EndOf(x, i - 1) \in Nat /\ EndOf(x, i) \in Nat
               /\ EndOf(x, i) = EndOf(x, i - 1) + x[i]
               /\ EndOf(x, i) <= EndOf(x, n) /\ EndOf(x, n) \in Nat
    <3>1. i \in 0 .. n /\ i - 1 \in 0 .. n /\ n \in 0 .. n /\ i <= n
      BY <1>1
    <3> QED BY <3>1, <1>1, <1>2, EndOfIs
  <2> QED BY <1>1, <1>2, <2>2
<1>3. ASSUME x \in [1 .. n -> Nat], NEW i \in 1 .. n
      PROVE  Piece(re.items[i], s, EndOf(x, i - 1), EndOf(x, i), ci) <=>
               /\ x[i] = 0 => re.items[i].opt
               /\ x[i] > 1 => re.items[i].many
               /\ \A j \in EndOf(x, i - 1) + 1 .. EndOf(x, i) : \E c \in re.items[i].set : Same(<<c>>, <<s[j]>>, ci)
  <2> DEFINE a == EndOf(x, i - 1)
             b == EndOf(x, i)
  <2>1. a \in Nat /\ b = a + x[i] /\ x[i] \in Nat
    BY <1>2, <1>3
  <2> HIDE DEF a, b
  <2>2. (a = b <=> x[i] = 0) /\ (b > a + 1 <=> x[i] > 1)
    BY <2>1
  <2> QED BY <2>2 DEF a, b, Piece
<1>4. x \in Divisions(re, s, ci) <=>
        /\ x \in [1 .. n -> 0 .. Len(s)] /\ EndOf(x, Len(x)) <= Len(s)
        /\ \A i \in 1 .. n :
             /\ x[i] = 0 => re.items[i].opt
             /\ x[i] > 1 => re.items[i].many
             /\ \A j \in EndOf(x, i - 1) + 1 .. EndOf(x, i) : \E c \in re.items[i].set : Same(<<c>>, <<s[j]>>, ci)
  BY <1>1 DEF Divisions
<1>6. x \in [1 .. n -> Nat] /\ EndOf(x, n) <= Len(s) => x \in [1 .. n -> 0 .. Len(s)]
  <2> SUFFICES ASSUME x \in [1 .. n -> Nat], EndOf(x, n) <= Len(s) PROVE \A i \in 1 .. n : x[i] \in 0 .. Len(s)
    BY <1>1
  <2> TAKE i \in 1 .. n
  <2> DEFINE a == EndOf(x, i - 1)
             b == EndOf(x, i)
             e == EndOf(x, n)
  <2> HIDE DEF a, b, e
  <2> QED BY <1>2, <1>1
<1>7. CASE x \in [1 .. n -> Nat]
  BY <1>2, <1>3, <1>4, <1>6, <1>7 DEF n
<1>8. CASE x \notin [1 .. n -> Nat]
  BY <1>4, <1>1, <1>8 DEF n
<1> QED BY <1>7, <1>8

\* Where the items of a concatenation end.
LEMMA CatEnds ==
    ASSUME NEW n \in Nat, NEW k \in Nat, NEW z, NEW d, NEW c, Catted(z, d, c, n, k)
    PROVE  /\ \A i \in 0 .. n : EndOf(z, i) = EndOf(d, i)
           /\ \A i \in 0 .. k : EndOf(z, n + i) = EndOf(d, n) + EndOf(c, i)
<1>1. /\ d \in [1 .. n -> Nat] /\ c \in [1 .. k -> Nat] /\ z \in [1 .. n + k -> Nat]
      /\ \A i \in 1 .. n : z[i] = d[i]
      /\ \A i \in 1 .. k : z[n + i] = c[i]
  BY DEF Catted
<1>2. n + k \in Nat
  OBVIOUS
<1>3. EndOf(d, 0) = 0 /\ (\A i \in 0 .. n : EndOf(d, i) \in Nat) /\ \A i \in 1 .. n : EndOf(d, i) = EndOf(d, i - 1) + d[i]
  BY <1>1, EndOfIs
<1>4. EndOf(c, 0) = 0 /\ (\A i \in 0 .. k : EndOf(c, i) \in Nat) /\ \A i \in 1 .. k : EndOf(c, i) = EndOf(c, i - 1) + c[i]
  BY <1>1, EndOfIs
<1>5. EndOf(z, 0) = 0 /\ (\A i \in 0 .. n + k : EndOf(z, i) \in Nat) /\ \A i \in 1 .. n + k : EndOf(z, i) = EndOf(z, i - 1) + z[i]
  BY <1>1, <1>2, EndOfIs
<1> DEFINE Good == {i \in 0 .. n : EndOf(z, i) = EndOf(d, i)}
           Fine == {i \in 0 .. k : EndOf(z, n + i) = EndOf(d, n) + EndOf(c, i)}
<1>6. \A i \in 0 .. n : i \in Good
  <2>1. 0 \in Good
    BY <1>3, <1>5
  <2>2. ASSUME NEW i \in 1 .. n, i - 1 \in Good PROVE i \in Good
    <3>1. i \in 1 .. n + k /\ i \in 0 .. n
      OBVIOUS
    <3>2. EndOf(z, i - 1) = EndOf(d, i - 1)
      BY <2>2
    <3> QED BY <3>1, <3>2, <1>1, <1>3, <1>5
  <2> HIDE DEF Good
  <2> QED BY <2>1, <2>2, Ascent
<1>7. EndOf(z, n) = EndOf(d, n) /\ EndOf(d, n) \in Nat
  BY <1>3, <1>6
<1>8. \A i \in 0 .. k : i \in Fine
  <2>1. 0 \in Fine
    BY <1>7, <1>4
  <2>2. ASSUME NEW i \in 1 .. k, i - 1 \in Fine PROVE i \in Fine
    <3> DEFINE x == EndOf(z, n + i)
               a == EndOf(z, n + (i - 1))
               b == EndOf(c, i - 1)
               o == EndOf(d, n)
    <3>1. n + i \in 1 .. n + k /\ i \in 0 .. k /\ (n + i) - 1 = n + (i - 1) /\ i - 1 \in 0 .. k
      OBVIOUS
    <3>2. a = o + b /\ o \in Nat /\ b \in Nat
      BY <2>2, <3>1, <1>4, <1>7
    <3>3. x = a + z[n + i]
      BY <3>1, <1>5
    <3>4. EndOf(c, i) = b + c[i] /\ z[n + i] = c[i] /\ c[i] \in Nat
      BY <1>1, <1>4
    <3> HIDE DEF x, a, b, o
    <3>5. x = o + EndOf(c, i)
      BY <3>2, <3>3, <3>4
    <3> QED BY <3>1, <3>5 DEF x, o
  <2> HIDE DEF Fine
  <2> QED BY <2>1, <2>2, Ascent
<1> QED BY <1>6, <1>8

\* Any two put together, and any one taken apart.
LEMMA CatIs ==
    ASSUME NEW n \in Nat, NEW k \in Nat
    PROVE  /\ \A d \in [1 .. n -> Nat], c \in [1 .. k -> Nat] : \E z : Catted(z, d, c, n, k)
           /\ \A z \in [1 .. n + k -> Nat] : \E d, c : Catted(z, d, c, n, k)
           /\ \A y, z, d, c : Catted(y, d, c, n, k) /\ Catted(z, d, c, n, k) => y = z
<1>1. ASSUME NEW d \in [1 .. n -> Nat], NEW c \in [1 .. k -> Nat] PROVE \E z : Catted(z, d, c, n, k)
  <2> DEFINE z == [i \in 1 .. n + k |-> IF i <= n THEN d[i] ELSE c[i - n]]
  <2>1. z \in [1 .. n + k -> Nat]
    <3> SUFFICES ASSUME NEW i \in 1 .. n + k PROVE (IF i <= n THEN d[i] ELSE c[i - n]) \in Nat
      OBVIOUS
    <3>1. CASE i <= n
      BY <3>1
    <3>2. CASE ~ (i <= n)
      BY <3>2
    <3> QED BY <3>1, <3>2
  <2>2. \A i \in 1 .. n : z[i] = d[i]
    OBVIOUS
  <2>3. \A i \in 1 .. k : z[n + i] = c[i]
    <3> TAKE i \in 1 .. k
    <3> QED OBVIOUS
  <2> HIDE DEF z
  <2> QED BY <2>1, <2>2, <2>3 DEF Catted
<1>2. ASSUME NEW z \in [1 .. n + k -> Nat] PROVE \E d, c : Catted(z, d, c, n, k)
  <2> DEFINE d == [i \in 1 .. n |-> z[i]]
             c == [i \in 1 .. k |-> z[n + i]]
  <2>1. d \in [1 .. n -> Nat] /\ c \in [1 .. k -> Nat]
    OBVIOUS
  <2>2. Catted(z, d, c, n, k)
    BY <2>1 DEF Catted
  <2> QED BY <2>2
<1>3. ASSUME NEW y, NEW z, NEW d, NEW c, Catted(y, d, c, n, k), Catted(z, d, c, n, k) PROVE y = z
  <2>3. ASSUME NEW i \in 1 .. n + k PROVE y[i] = z[i]
    <3>1. CASE i \in 1 .. n
      BY <3>1, <1>3 DEF Catted
    <3>2. CASE i - n \in 1 .. k /\ n + (i - n) = i
      <4>1. y[n + (i - n)] = c[i - n] /\ z[n + (i - n)] = c[i - n]
        BY <3>2, <1>3 DEF Catted
      <4> QED BY <4>1, <3>2
    <3> QED BY <3>1, <3>2
  <2> QED BY <1>3, <2>3 DEF Catted
<1> QED BY <1>1, <1>2, <1>3

\* Which of two comes before the other is decided by the first expression in
\* which they differ.
LEMMA BeforeCat ==
    ASSUME NEW n \in Nat, NEW k \in Nat, NEW y, NEW z, NEW d, NEW c, NEW u, NEW v,
           Catted(z, d, c, n, k), Catted(y, u, v, n, k), Before(d, u) \/ (d = u /\ Before(c, v))
    PROVE  Before(z, y)
<1>1. /\ d \in [1 .. n -> Nat] /\ c \in [1 .. k -> Nat] /\ z \in [1 .. n + k -> Nat]
      /\ (\A i \in 1 .. n : z[i] = d[i]) /\ \A i \in 1 .. k : z[n + i] = c[i]
      /\ u \in [1 .. n -> Nat] /\ v \in [1 .. k -> Nat] /\ y \in [1 .. n + k -> Nat]
      /\ (\A i \in 1 .. n : y[i] = u[i]) /\ \A i \in 1 .. k : y[n + i] = v[i]
  BY DEF Catted
<1>2. CASE Before(d, u)
  <2>1. PICK i \in 1 .. n : d[i] > u[i] /\ \A j \in 1 .. i - 1 : d[j] = u[j]
    BY <1>1, <1>2 DEF Before
  <2>3. z[i] > y[i] /\ \A j \in 1 .. i - 1 : z[j] = y[j]
    BY <2>1, <1>1
  <2> QED BY <1>1, <2>3 DEF Before
<1>3. CASE d = u /\ Before(c, v)
  <2>1. PICK i \in 1 .. k : c[i] > v[i] /\ \A j \in 1 .. i - 1 : c[j] = v[j]
    BY <1>1, <1>3 DEF Before
  <2>2. n + i \in DOMAIN z
    BY <1>1
  <2>3. z[n + i] > y[n + i]
    BY <1>1, <2>1
  <2>4. \A j \in 1 .. n + i - 1 : z[j] = y[j]
    <3> TAKE j \in 1 .. n + i - 1
    <3>1. CASE j <= n
      BY <3>1, <1>1, <1>3
    <3>2. CASE ~ (j <= n)
      <4>1. j - n \in 1 .. i - 1 /\ j - n \in 1 .. k /\ n + (j - n) = j
        BY <3>2
      <4>2. c[j - n] = v[j - n] /\ z[n + (j - n)] = c[j - n] /\ y[n + (j - n)] = v[j - n]
        BY <4>1, <2>1, <1>1
      <4> QED BY <4>1, <4>2
    <3> QED BY <3>1, <3>2
  <2> QED BY <2>2, <2>3, <2>4 DEF Before
<1> QED BY <1>2, <1>3

\* There is one best division.
LEMMA BestIs ==
    ASSUME NEW re, IsRe(re), NEW s \in Texts, NEW ci, NEW d, NEW e, Best(re, s, ci, d), Best(re, s, ci, e)
    PROVE  d = e
<1> SUFFICES ASSUME d # e PROVE FALSE
  OBVIOUS
<1> DEFINE n == Len(re.items)
<1>1. d \in [1 .. n -> Nat] /\ e \in [1 .. n -> Nat]
  BY DivisionIs DEF Best
<1>2. Before(d, e) /\ Before(e, d)
  BY DEF Best
<1> HIDE DEF n
<1>3. PICK i \in 1 .. n : d[i] > e[i] /\ \A j \in 1 .. i - 1 : d[j] = e[j]
  BY <1>1, <1>2 DEF Before
<1>4. PICK k \in 1 .. n : e[k] > d[k] /\ \A j \in 1 .. k - 1 : e[j] = d[j]
  BY <1>1, <1>2 DEF Before
<1>5. d[i] \in Nat /\ e[i] \in Nat /\ d[k] \in Nat /\ e[k] \in Nat
  BY <1>1
<1>6. i < k \/ k < i \/ i = k
  OBVIOUS
<1>7. ~ (i < k)
  <2> SUFFICES ASSUME i < k PROVE FALSE
    OBVIOUS
  <2> QED BY <1>3, <1>4, <1>5
<1>8. ~ (k < i)
  <2> SUFFICES ASSUME k < i PROVE FALSE
    OBVIOUS
  <2> QED BY <1>3, <1>4, <1>5
<1> QED BY <1>3, <1>4, <1>5, <1>6, <1>7, <1>8

\* The window shows the first characters of a text.
LEMMA InWindowIs ==
    ASSUME NEW s \in Texts
    PROVE  /\ InWindow(s) \in Texts /\ Len(InWindow(s)) = IF Len(s) < Window THEN Len(s) ELSE Window
           /\ \A j \in 1 .. Len(InWindow(s)) : InWindow(s)[j] = s[j]
<1> DEFINE b == IF Len(s) < Window THEN Len(s) ELSE Window
<1>1. s \in Seq(Symbol) /\ Len(s) \in Nat /\ Window \in Nat
  BY WindowAssumption DEF Texts
<1>2. b \in 0 .. Len(s) /\ 1 \in Nat \ {0}
  BY <1>1
<1>3. InWindow(s) = SubSeq(s, 1, b)
  BY DEF InWindow
<1>4. b = IF Len(s) < Window THEN Len(s) ELSE Window
  OBVIOUS
<1> HIDE DEF b
<1>5. /\ SubSeq(s, 1, b) \in Seq(Symbol) /\ Len(SubSeq(s, 1, b)) = (IF 1 <= b THEN b - 1 + 1 ELSE 0)
      /\ \A i \in 1 .. Len(SubSeq(s, 1, b)) : SubSeq(s, 1, b)[i] = s[1 + i - 1]
  BY <1>1, <1>2, PartIs
<1> DEFINE w == SubSeq(s, 1, b)
<1> HIDE DEF w
<1>6. w \in Seq(Symbol) /\ Len(w) = b /\ \A i \in 1 .. Len(w) : w[i] = s[i]
  <2>1. Len(w) = b
    BY <1>1, <1>2, <1>5 DEF w
  <2> QED BY <2>1, <1>1, <1>2, <1>5 DEF w
<1> QED BY <1>3, <1>4, <1>6 DEF w, Texts

\* The window over the rest of a text is the window over the text, moved.
LEMMA AlignedIs ==
    ASSUME NEW s \in Texts, NEW off \in Nat, off <= Len(InWindow(s))
    PROVE  Aligned(InWindow(s), InWindow(SubSeq(s, off + 1, Len(s))), off)
<1> DEFINE w == InWindow(s)
           r == SubSeq(s, off + 1, Len(s))
           v == InWindow(r)
<1>1. w \in Texts /\ Len(w) = (IF Len(s) < Window THEN Len(s) ELSE Window) /\ \A j \in 1 .. Len(w) : w[j] = s[j]
  BY InWindowIs
<1>2. Len(s) \in Nat /\ s \in Seq(Symbol) /\ Window \in Nat
  BY WindowAssumption DEF Texts
<1>3. Len(s) \in 0 .. Len(s) /\ off + 1 \in Nat \ {0} /\ off <= Len(s)
  BY <1>1, <1>2
<1>4. /\ r \in Seq(Symbol) /\ Len(r) = (IF off + 1 <= Len(s) THEN Len(s) - (off + 1) + 1 ELSE 0)
      /\ \A j \in 1 .. Len(r) : r[j] = s[(off + 1) + j - 1]
  BY <1>2, <1>3, PartIs
<1> HIDE DEF r
<1>5. r \in Texts /\ Len(r) = Len(s) - off /\ \A j \in 1 .. Len(r) : r[j] = s[off + j]
  <2>1. Len(r) = Len(s) - off
    BY <1>2, <1>3, <1>4
  <2> QED BY <1>4, <2>1, <1>2 DEF Texts
<1>6. v \in Texts /\ Len(v) = (IF Len(r) < Window THEN Len(r) ELSE Window) /\ \A j \in 1 .. Len(v) : v[j] = r[j]
  BY <1>5, InWindowIs
<1> HIDE DEF w, v
<1>7. Len(w) - off <= Len(v) /\ Len(v) <= Len(r) /\ Len(w) \in Nat /\ Len(v) \in Nat
  BY <1>1, <1>2, <1>3, <1>5, <1>6
<1>8. \A j \in 1 .. Len(w) - off : w[off + j] = v[j]
  <2> TAKE j \in 1 .. Len(w) - off
  <2>2. w[off + j] = s[off + j] /\ v[j] = r[j] /\ r[j] = s[off + j]
    BY <1>2, <1>5, <1>7, <1>1, <1>6
  <2> QED BY <2>2
<1>9. off <= Len(w)
  BY DEF w
<1>10. Aligned(w, v, off)
  BY <1>1, <1>6, <1>7, <1>8, <1>9 DEF Aligned
<1> QED BY <1>10 DEF w, v, r

\* An item takes the same piece in either window.
LEMMA PieceAligned ==
    ASSUME NEW item, NEW w, NEW v, NEW off \in Nat, NEW a \in Nat, NEW b \in Nat, NEW ci, Aligned(w, v, off), off + b <= Len(w)
    PROVE  Piece(item, w, off + a, off + b, ci) <=> Piece(item, v, a, b, ci)
<1>2. \A j \in a + 1 .. b : off + j \in off + a + 1 .. off + b /\ w[off + j] = v[j]
  <2> TAKE j \in a + 1 .. b
  <2>1. j \in 1 .. Len(w) - off
    BY DEF Aligned, Texts
  <2> QED BY <2>1 DEF Aligned
<1> DEFINE Sees(x) == \E c \in item.set : Same(<<c>>, <<x>>, ci)
<1>4. (\A l \in off + a + 1 .. off + b : Sees(w[l])) <=> (\A j \in a + 1 .. b : Sees(v[j]))
  <2> HIDE DEF Sees
  <2>1. ASSUME \A l \in off + a + 1 .. off + b : Sees(w[l]), NEW j \in a + 1 .. b PROVE Sees(v[j])
    <3>2. w[off + j] = v[j]
      BY <1>2
    <3> QED BY <2>1, <1>2, <3>2
  <2>2. ASSUME \A j \in a + 1 .. b : Sees(v[j]), NEW l \in off + a + 1 .. off + b PROVE Sees(w[l])
    <3>1. l - off \in a + 1 .. b /\ off + (l - off) = l
      OBVIOUS
    <3>2. Sees(v[l - off])
      BY <2>2, <3>1
    <3> QED BY <3>1, <3>2, <1>2
  <2> QED BY <2>1, <2>2
<1> QED BY <1>4 DEF Piece

\* A group cuts the same text out of either window.
LEMMA PartAligned ==
    ASSUME NEW w, NEW v, NEW off, NEW a, NEW b, NEW p, NEW q, NEW m, Moved(w, v, off, a, b, p, q, m)
    PROVE  Cut(w, p, q) = Cut(v, m, b)
<1>0. /\ Aligned(w, v, off) /\ off \in Nat /\ a \in Nat /\ b \in Nat
      /\ p = off + a + 1 /\ q = off + b /\ m = a + 1 /\ q <= Len(w)
  BY DEF Moved
<1>1. w \in Seq(Symbol) /\ v \in Seq(Symbol) /\ Len(w) \in Nat /\ Len(v) \in Nat /\ Len(w) - off <= Len(v)
  BY <1>0 DEF Aligned, Texts
<1> DEFINE x == SubSeq(w, p, q)
           y == SubSeq(v, m, b)
<1>2. p \in Nat \ {0} /\ q \in 0 .. Len(w) /\ m \in Nat \ {0} /\ b \in 0 .. Len(v)
  BY <1>0, <1>1
<1>3. /\ x \in Seq(Symbol) /\ Len(x) = (IF p <= q THEN q - p + 1 ELSE 0)
      /\ \A i \in 1 .. Len(x) : x[i] = w[p + i - 1]
  BY <1>1, <1>2, PartIs
<1>4. /\ y \in Seq(Symbol) /\ Len(y) = (IF m <= b THEN b - m + 1 ELSE 0)
      /\ \A i \in 1 .. Len(y) : y[i] = v[m + i - 1]
  BY <1>1, <1>2, PartIs
<1> HIDE DEF x, y
<1>5. Len(x) = Len(y) /\ Len(x) = IF a < b THEN b - a ELSE 0
  <2>2. off \in Nat /\ a \in Nat /\ b \in Nat /\ p = off + a + 1 /\ q = off + b /\ m = a + 1
    BY <1>0
  <2> QED BY <1>3, <1>4, <2>2
<1>6. ASSUME NEW i \in 1 .. Len(x) PROVE x[i] = y[i]
  <2>1. a + i \in 1 .. Len(w) - off /\ p + i - 1 = off + (a + i) /\ m + i - 1 = a + i
    BY <1>0, <1>1, <1>5
  <2>3. w[off + (a + i)] = v[a + i]
    BY <1>0, <2>1 DEF Aligned
  <2> QED BY <2>1, <1>3, <1>4, <1>5, <2>3
<1>7. x = y
  BY <1>3, <1>4, <1>5, <1>6
<1> QED BY <1>7 DEF Cut, x, y

\* The greediest division of an expression followed by another.
LEMMA ThenBest ==
    ASSUME NEW re \in AnyRe, NEW part, IsRe(part), NEW s \in Texts, NEW ci,
           NEW d, Best(re, InWindow(s), ci, d),
           NEW off, off = EndOf(d, Len(re.items)),
           NEW c, Best(part, InWindow(SubSeq(s, off + 1, Len(s))), ci, c),
           off + EndOf(c, Len(part.items)) <= Len(InWindow(s))
    PROVE  \E z : /\ Catted(z, d, c, Len(re.items), Len(part.items))
                  /\ Best(ThenPart(re, part), InWindow(s), ci, z)
<1> DEFINE n == Len(re.items)
           k == Len(part.items)
           w == InWindow(s)
           v == InWindow(SubSeq(s, off + 1, Len(s)))
           both == ThenPart(re, part)
<1>1. IsRe(re) /\ both \in AnyRe /\ IsRe(both) /\ both.items = re.items \o part.items
  BY ThenPartIs DEF AnyRe
<1>2. n \in Nat /\ k \in Nat /\ re.items \in Seq(AnyItem) /\ part.items \in Seq(AnyItem)
  BY <1>1, ReIs
<1>3. /\ Len(both.items) = n + k
      /\ \A i \in 1 .. n : both.items[i] = re.items[i]
      /\ \A i \in 1 .. k : both.items[n + i] = part.items[i]
  <2> DEFINE a == re.items
             b == part.items
  <2>1. a \in Seq(AnyItem) /\ b \in Seq(AnyItem) /\ both.items = a \o b
    BY <1>1, <1>2
  <2> HIDE DEF a, b, both
  <2>2. /\ Len(a \o b) = Len(a) + Len(b)
        /\ \A i \in 1 .. Len(a) + Len(b) : (a \o b)[i] = IF i <= Len(a) THEN a[i] ELSE b[i - Len(a)]
    BY <2>1, ConcatProperties
  <2>3. n = Len(a) /\ k = Len(b)
    BY DEF a, b
  <2> HIDE DEF n, k
  <2>4. \A i \in 1 .. n : i \in 1 .. n + k /\ i <= n
    BY <1>2
  <2>5. \A i \in 1 .. k : n + i \in 1 .. n + k /\ ~ (n + i <= n) /\ (n + i) - n = i
    BY <1>2
  <2>6. /\ Len(both.items) = n + k
        /\ \A i \in 1 .. n : both.items[i] = a[i]
        /\ \A i \in 1 .. k : both.items[n + i] = b[i]
    BY <2>1, <2>2, <2>3, <2>4, <2>5
  <2> QED BY <2>6 DEF a, b
<1> HIDE DEF n, k, w, v, both
<1>4. w \in Texts /\ Len(w) \in Nat
  BY InWindowIs DEF Texts, w
<1>5. d \in Divisions(re, w, ci) /\ \A y \in Divisions(re, w, ci) \ {d} : Before(d, y)
  BY DEF Best, w
<1>6. d \in [1 .. n -> Nat] /\ EndOf(d, n) <= Len(w) /\ \A i \in 1 .. n : Piece(re.items[i], w, EndOf(d, i - 1), EndOf(d, i), ci)
  BY <1>1, <1>4, <1>5, DivisionIs DEF n
<1>7. off \in Nat /\ off <= Len(w) /\ off = EndOf(d, n)
  <2>1. n \in 0 .. n
    BY <1>2
  <2> QED BY <2>1, <1>2, <1>6, EndOfIs DEF n
<1>8. Aligned(w, v, off)
  BY <1>7, AlignedIs DEF w, v
<1>9. v \in Texts /\ Len(v) \in Nat /\ Len(w) - off <= Len(v)
  BY <1>8 DEF Aligned, Texts
<1>10. c \in Divisions(part, v, ci) /\ \A y \in Divisions(part, v, ci) \ {c} : Before(c, y)
  BY DEF Best, v
<1>11. c \in [1 .. k -> Nat] /\ EndOf(c, k) <= Len(v) /\ \A i \in 1 .. k : Piece(part.items[i], v, EndOf(c, i - 1), EndOf(c, i), ci)
  BY <1>9, <1>10, DivisionIs DEF k
<1>12. off + EndOf(c, k) <= Len(w)
  BY DEF w, k
<1>13. PICK z : Catted(z, d, c, n, k)
  <2>1. \A x1 \in [1 .. n -> Nat], x2 \in [1 .. k -> Nat] : \E z : Catted(z, x1, x2, n, k)
    BY <1>2, CatIs
  <2>2. d \in [1 .. n -> Nat] /\ c \in [1 .. k -> Nat]
    BY <1>6, <1>11
  <2> QED BY <2>1, <2>2
\* Places in the second part are places from where the first ends.
<1>14. ASSUME NEW y, NEW e, NEW x, Catted(y, e, x, n, k), EndOf(e, n) = off, EndOf(y, n + k) <= Len(w)
       PROVE  /\ EndOf(x, k) \in Nat /\ EndOf(x, k) <= Len(v)
              /\ \A i \in 1 .. k : Piece(both.items[n + i], w, EndOf(y, n + i - 1), EndOf(y, n + i), ci)
                                     <=> Piece(part.items[i], v, EndOf(x, i - 1), EndOf(x, i), ci)
  <2>2. (\A i \in 0 .. k : EndOf(x, i) \in Nat) /\ \A i, j \in 0 .. k : i <= j => EndOf(x, i) <= EndOf(x, j)
    BY <1>14, <1>2, EndOfIs DEF Catted
  <2>3. \A i \in 0 .. k : EndOf(y, n + i) = off + EndOf(x, i)
    BY <1>2, <1>14, CatEnds
  <2>4. k \in 0 .. k /\ EndOf(x, k) \in Nat /\ off + EndOf(x, k) <= Len(w)
    BY <2>2, <2>3, <1>2, <1>14
  <2>5. EndOf(x, k) <= Len(v)
    <3> DEFINE e1 == EndOf(x, k)
    <3>1. e1 \in Nat /\ off + e1 <= Len(w)
      BY <2>4
    <3> HIDE DEF e1
    <3>2. e1 <= Len(v)
      BY <3>1, <1>4, <1>7, <1>9
    <3> QED BY <3>2 DEF e1
  <2>6. ASSUME NEW i \in 1 .. k
        PROVE  Piece(both.items[n + i], w, EndOf(y, n + i - 1), EndOf(y, n + i), ci)
                 <=> Piece(part.items[i], v, EndOf(x, i - 1), EndOf(x, i), ci)
    <3> DEFINE a == EndOf(x, i - 1)
               b == EndOf(x, i)
    <3>1. i \in 0 .. k /\ i - 1 \in 0 .. k /\ n + i - 1 = n + (i - 1) /\ i <= k
      BY <1>2
    <3>2. EndOf(y, n + i - 1) = off + a /\ EndOf(y, n + i) = off + b
      BY <3>1, <2>3
    <3>3. a \in Nat /\ b \in Nat /\ b <= EndOf(x, k)
      BY <3>1, <2>2, <2>4
    <3> HIDE DEF a, b
    <3>4. off + b <= Len(w)
      <4> DEFINE e1 == EndOf(x, k)
      <4>1. e1 \in Nat /\ off + e1 <= Len(w) /\ b <= e1
        BY <2>4, <3>3
      <4> HIDE DEF e1
      <4> QED BY <4>1, <3>3, <1>4, <1>7
    <3>5. Piece(part.items[i], w, off + a, off + b, ci) <=> Piece(part.items[i], v, a, b, ci)
      BY <3>3, <3>4, <1>7, <1>8, PieceAligned
    <3>6. both.items[n + i] = part.items[i]
      BY <1>3
    <3> QED BY <3>2, <3>5, <3>6 DEF a, b
  <2> QED BY <2>4, <2>5, <2>6
<1>15. \A y, e, x : Catted(y, e, x, n, k) =>
         /\ \A i \in 1 .. n : EndOf(y, i - 1) = EndOf(e, i - 1) /\ EndOf(y, i) = EndOf(e, i)
         /\ EndOf(y, n) = EndOf(e, n) /\ EndOf(y, n + k) = EndOf(e, n) + EndOf(x, k)
  <2> SUFFICES ASSUME NEW y, NEW e, NEW x, Catted(y, e, x, n, k)
               PROVE  /\ \A i \in 1 .. n : EndOf(y, i - 1) = EndOf(e, i - 1) /\ EndOf(y, i) = EndOf(e, i)
                      /\ EndOf(y, n) = EndOf(e, n) /\ EndOf(y, n + k) = EndOf(e, n) + EndOf(x, k)
    OBVIOUS
  <2>2. n \in 0 .. n /\ k \in 0 .. k /\ \A i \in 1 .. n : i \in 0 .. n /\ i - 1 \in 0 .. n
    BY <1>2
  <2> QED BY <1>2, CatEnds, <2>2
<1>16. z \in Divisions(both, w, ci)
  <2>1. z \in [1 .. n + k -> Nat]
    BY <1>13 DEF Catted
  <2>2. EndOf(z, n + k) <= Len(w)
    BY <1>7, <1>12, <1>13, <1>15
  <2>3. ASSUME NEW i \in 1 .. n + k PROVE Piece(both.items[i], w, EndOf(z, i - 1), EndOf(z, i), ci)
    <3>1. CASE i \in 1 .. n
      <4>2. Piece(re.items[i], w, EndOf(d, i - 1), EndOf(d, i), ci)
        BY <3>1, <1>6
      <4> QED BY <3>1, <1>3, <1>13, <1>15, <4>2
    <3>2. CASE i \notin 1 .. n
      <4>1. i - n \in 1 .. k /\ n + (i - n) = i
        BY <3>2, <1>2
      <4>2. Piece(part.items[i - n], v, EndOf(c, (i - n) - 1), EndOf(c, i - n), ci)
        BY <4>1, <1>11
      <4> DEFINE l == n + (i - n)
                 h == n + (i - n) - 1
      <4>5. Piece(both.items[l], w, EndOf(z, h), EndOf(z, l), ci)
        BY <4>1, <4>2, <2>2, <1>7, <1>13, <1>14
      <4>6. l = i /\ h = i - 1
        BY <4>1, <1>2
      <4> HIDE DEF l, h
      <4> QED BY <4>5, <4>6
    <3> QED BY <3>1, <3>2
  <2> QED BY <2>1, <2>2, <2>3, <1>1, <1>3, <1>4, DivisionIs
<1>17. ASSUME NEW y \in Divisions(both, w, ci) \ {z} PROVE Before(z, y)
  <2>1. y \in [1 .. n + k -> Nat] /\ EndOf(y, n + k) <= Len(w) /\ \A i \in 1 .. n + k : Piece(both.items[i], w, EndOf(y, i - 1), EndOf(y, i), ci)
    BY <1>1, <1>3, <1>4, DivisionIs
  <2>2. PICK e, x : Catted(y, e, x, n, k)
    BY <2>1, <1>2, CatIs
  <2>3. e \in [1 .. n -> Nat] /\ x \in [1 .. k -> Nat]
    BY <2>2 DEF Catted
  <2>4. e \in Divisions(re, w, ci)
    <3>1. EndOf(e, n) <= Len(w)
      <4> DEFINE p == EndOf(e, n)
                 q == EndOf(x, k)
      <4>1. p \in Nat /\ q \in Nat
        <5>1. n \in 0 .. n /\ k \in 0 .. k
          BY <1>2
        <5> QED BY <5>1, <2>3, <1>2, EndOfIs
      <4>2. p + q <= Len(w)
        BY <2>1, <2>2, <1>15
      <4> HIDE DEF p, q
      <4>3. p <= Len(w)
        BY <4>1, <4>2, <1>4
      <4> QED BY <4>3 DEF p
    <3>2. ASSUME NEW i \in 1 .. n PROVE Piece(re.items[i], w, EndOf(e, i - 1), EndOf(e, i), ci)
      <4>1. i \in 1 .. n + k
        BY <1>2
      <4> QED BY <4>1, <2>2, <1>3, <1>15, <2>1
    <3> QED BY <3>1, <3>2, <2>3, <1>1, <1>4, DivisionIs DEF n
  <2>5. CASE e # d
    <3>1. Before(d, e)
      BY <2>4, <2>5, <1>5
    <3> QED BY <3>1, <2>2, <1>2, <1>13, BeforeCat
  <2>6. CASE e = d
    <3>1. EndOf(e, n) = off
      BY <2>6, <1>7
    <3>2. x \in Divisions(part, v, ci)
      <4>1. EndOf(x, k) <= Len(v)
        BY <3>1, <2>1, <2>2, <1>14
      <4>2. ASSUME NEW i \in 1 .. k PROVE Piece(part.items[i], v, EndOf(x, i - 1), EndOf(x, i), ci)
        <5>2. Piece(both.items[n + i], w, EndOf(y, n + i - 1), EndOf(y, n + i), ci)
          <6> DEFINE l == n + i
                     h == n + i - 1
          <6>1. l \in 1 .. n + k /\ l - 1 = h
            BY <1>2
          <6> HIDE DEF l, h
          <6>3. Piece(both.items[l], w, EndOf(y, h), EndOf(y, l), ci)
            BY <6>1, <2>1
          <6> QED BY <6>3 DEF l, h
        <5> QED BY <5>2, <3>1, <2>1, <2>2, <1>14
      <4> QED BY <4>1, <4>2, <2>3, <1>9, DivisionIs DEF k
    <3>3. x # c
      BY <2>2, <2>6, <1>2, <1>13, CatIs
    <3>4. Before(c, x)
      BY <3>2, <3>3, <1>10
    <3> QED BY <3>4, <2>2, <2>6, <1>2, <1>13, BeforeCat
  <2> QED BY <2>5, <2>6
<1>18. Best(both, w, ci, z)
  BY <1>16, <1>17 DEF Best
<1> QED BY <1>13, <1>18 DEF n, k, w, both

\* Texts are the same when they are, character by character.
LEMMA SameIs ==
    ASSUME NEW u \in Texts, NEW v \in Texts, NEW ci
    PROVE  Same(u, v, ci) <=> /\ Len(u) = Len(v)
                              /\ \A i \in 1 .. Len(u) : Same(<<u[i]>>, <<v[i]>>, ci)
<1>1. /\ Len(u) \in Nat /\ u = [i \in 1 .. Len(u) |-> u[i]] /\ DOMAIN u = 1 .. Len(u)
      /\ Len(v) \in Nat /\ v = [i \in 1 .. Len(v) |-> v[i]] /\ DOMAIN v = 1 .. Len(v)
  BY DEF Texts
<1>2. CASE ci
  <2>1. \A a, b : Same(<<a>>, <<b>>, ci) <=> LowerChar(a) = LowerChar(b)
    <3> TAKE a, b
    <3>1. Lower(<<a>>) = [i \in 1 .. 1 |-> LowerChar(<<a>>[i])] /\ Lower(<<b>>) = [i \in 1 .. 1 |-> LowerChar(<<b>>[i])]
      BY DEF Lower
    <3>2. <<a>>[1] = a /\ <<b>>[1] = b /\ 1 .. 1 = {1}
      OBVIOUS
    <3>5. LowerChar(a) = LowerChar(b) => Lower(<<a>>) = Lower(<<b>>)
      BY <3>1, <3>2
    <3>6. Same(<<a>>, <<b>>, ci) <=> Lower(<<a>>) = Lower(<<b>>)
      BY <1>2 DEF Same
    <3> QED BY <3>1, <3>2, <3>5, <3>6
  <2>2. Lower(u) = [i \in 1 .. Len(u) |-> LowerChar(u[i])] /\ Lower(v) = [i \in 1 .. Len(v) |-> LowerChar(v[i])]
    BY <1>1 DEF Lower
  <2> DEFINE x == Lower(u)
             y == Lower(v)
  <2>3. x = y => Len(u) = Len(v) /\ \A i \in 1 .. Len(u) : LowerChar(u[i]) = LowerChar(v[i])
    <3> HIDE DEF x, y
    <3> SUFFICES ASSUME x = y PROVE Len(u) = Len(v) /\ \A i \in 1 .. Len(u) : LowerChar(u[i]) = LowerChar(v[i])
      OBVIOUS
    <3>2. Len(u) = Len(v)
      <4> DEFINE n == Len(u)
                 m == Len(v)
      <4>1. n \in Nat /\ m \in Nat /\ 1 .. n = 1 .. m
        BY <2>2, <1>1 DEF x, y
      <4> HIDE DEF n, m
      <4>3. n = m
        BY <4>1
      <4> QED BY <4>3 DEF n, m
    <3> QED BY <3>2, <2>2 DEF x, y
  <2>4. Len(u) = Len(v) /\ (\A i \in 1 .. Len(u) : LowerChar(u[i]) = LowerChar(v[i])) => x = y
    BY <2>2
  <2>5. Same(u, v, ci) <=> x = y
    BY <1>2 DEF Same
  <2>6. \A i \in 1 .. Len(u) : Same(<<u[i]>>, <<v[i]>>, ci) <=> LowerChar(u[i]) = LowerChar(v[i])
    BY <2>1, SMTT(20)
  <2> HIDE DEF x, y
  <2> QED BY <2>3, <2>4, <2>5, <2>6
<1>3. CASE ~ ci
  <2>2. Same(u, v, ci) <=> u = v
    BY <1>3 DEF Same
  <2> QED BY <1>1, <1>3, <2>2 DEF Same
<1> QED BY <1>2, <1>3

\* Equal texts are the same in either case.
LEMMA SameAnyway == \A u, v, ci : (u = v \/ Same(u, v, FALSE)) => Same(u, v, ci)
  BY DEF Same

\* What is found is the best division, and the best division is what is found.
LEMMA FoundIs ==
    ASSUME NEW re, IsRe(re), NEW w \in Texts, NEW ci
    PROVE  /\ Find(re, w, ci).is = "match" =>
                \E d : MatchOf(re, w, ci, d, Find(re, w, ci).len, Find(re, w, ci).caps)
           /\ \A d : Best(re, w, ci, d) => Find(re, w, ci) = Taking(re, w, d) /\ Find(re, w, ci).is = "match"
           /\ \A d : Best(re, w, ci, d) =>
                /\ Taking(re, w, d).len = EndOf(d, Len(re.items)) /\ DOMAIN Taking(re, w, d).caps = 1 .. Len(re.groups)
                /\ Len(Taking(re, w, d).caps) = Len(re.groups)
                /\ \A i \in 1 .. Len(re.groups) :
                     Taking(re, w, d).caps[i] = SubSeq(w, EndOf(d, re.groups[i].from - 1) + 1, EndOf(d, re.groups[i].to))
<1> DEFINE f == Find(re, w, ci)
           k == Len(re.groups)
<1>2. Divisions(re, w, ci) # {} => \E d : Best(re, w, ci, d) /\ f = Taking(re, w, d)
  BY FindIs DEF Best
<1>3. k \in Nat /\ DOMAIN re.groups = 1 .. k
  BY ReIs
<1>4. ASSUME NEW d, Best(re, w, ci, d)
      PROVE  /\ Taking(re, w, d).len = EndOf(d, Len(re.items)) /\ Taking(re, w, d).is = "match"
             /\ DOMAIN Taking(re, w, d).caps = 1 .. k /\ Len(Taking(re, w, d).caps) = k
             /\ \A i \in 1 .. k :
                  Taking(re, w, d).caps[i] = SubSeq(w, EndOf(d, re.groups[i].from - 1) + 1, EndOf(d, re.groups[i].to))
  <2>2. Taking(re, w, d).len = EndOf(d, Len(re.items)) /\ Taking(re, w, d).is = "match" /\ Taking(re, w, d) \in AnyMatch
    BY <1>4, TakingIs DEF Best
  <2> DEFINE c == Taking(re, w, d).caps
  <2>4. DOMAIN c = 1 .. k /\ \A i \in 1 .. k : c[i] = SubSeq(w, EndOf(d, re.groups[i].from - 1) + 1, EndOf(d, re.groups[i].to))
    BY <1>3 DEF Taking, Match
  <2> HIDE DEF c, k
  <2>6. Len(c) = k
    BY <1>3, <2>4, <2>2 DEF AnyMatch
  <2> QED BY <2>2, <2>4, <2>6 DEF c
<1>5. ASSUME NEW d, Best(re, w, ci, d) PROVE f = Taking(re, w, d) /\ f.is = "match"
  <2>2. PICK e : Best(re, w, ci, e) /\ f = Taking(re, w, e)
    BY <1>2, <1>5 DEF Best
  <2> HIDE DEF f
  <2> QED BY <2>2, <1>5, BestIs, <1>4
<1>6. ASSUME f.is = "match" PROVE \E d : MatchOf(re, w, ci, d, f.len, f.caps)
  <2>1. PICK d : Best(re, w, ci, d) /\ f = Taking(re, w, d)
    BY FindIs, MatchIs, <1>2, <1>6
  <2> HIDE DEF f
  <2>3. Len(f.caps) = k /\ f.len = EndOf(d, Len(re.items))
    BY <2>1, <1>4
  <2>4. CapsAre(re, w, d, f.caps, ci)
    BY <2>1, <1>4, SameAnyway, <2>3 DEF CapsAre
  <2> QED BY <2>1, <2>3, <2>4 DEF MatchOf
<1> QED BY <1>4, <1>5, <1>6

\* What the start of a window is.
LEMMA StartOfWindow ==
    ASSUME NEW s \in Texts, NEW n \in Nat, n <= Len(InWindow(s))
    PROVE  SubSeq(InWindow(s), 1, n) = SubSeq(s, 1, n)
<1> DEFINE w == InWindow(s)
<1>1. w \in Texts /\ Len(w) = (IF Len(s) < Window THEN Len(s) ELSE Window) /\ \A j \in 1 .. Len(w) : w[j] = s[j]
  BY InWindowIs
<1> HIDE DEF w
<1>2. Len(w) \in Nat /\ Len(s) \in Nat /\ Len(w) <= Len(s)
  BY <1>1, WindowAssumption DEF Texts
<1>3. Aligned(w, s, 0)
  <2>1. Len(w) - 0 = Len(w) /\ \A j \in 1 .. Len(w) - 0 : j \in 1 .. Len(w) /\ 0 + j = j
    BY <1>2
  <2> QED BY <1>1, <1>2, <2>1 DEF Aligned
<1>4. 0 + n <= Len(w)
  BY <1>2 DEF w
<1> DEFINE zero == 0
           one == 1
<1>5. zero \in Nat /\ Aligned(w, s, zero) /\ n <= Len(w) /\ n = zero + n /\ one = zero + zero + 1 /\ one = zero + 1
  BY <1>3, <1>4
<1> HIDE DEF zero, one
<1>6. Cut(w, one, n) = Cut(s, one, n)
  <2>1. Moved(w, s, zero, zero, n, one, n, one)
    BY <1>5 DEF Moved
  <2> QED BY <2>1, PartAligned
<1> DEFINE x == SubSeq(w, 1, n)
           y == SubSeq(s, 1, n)
<1>7. x = Cut(w, one, n) /\ y = Cut(s, one, n)
  BY DEF Cut, one
<1> HIDE DEF x, y
<1>8. x = y
  BY <1>6, <1>7
<1> QED BY <1>8 DEF w, x, y

\* A text matches where it stands, in one way.
LEMMA LiteralBest ==
    ASSUME NEW u \in Texts, NEW w \in Texts, NEW ci, Len(u) <= Len(w), Same(SubSeq(w, 1, Len(u)), u, ci)
    PROVE  \E d : MatchOf(Literal(u), w, ci, d, Len(u), <<>>)
<1> DEFINE n == Len(u)
           d == [i \in 1 .. n |-> 1]
           re == Literal(u)
<1>1. n \in Nat /\ Len(w) \in Nat /\ w \in Seq(Symbol) /\ n <= Len(w)
  BY DEF Texts
<1>2. re \in AnyRe /\ IsRe(re) /\ re.groups = <<>> /\ Len(re.items) = n /\ \A i \in 1 .. n : re.items[i] = Item({u[i]}, FALSE, FALSE)
  BY LiteralIs DEF AnyRe
<1>2a. \A i \in 1 .. n : re.items[i].set = {u[i]} /\ ~ re.items[i].opt /\ ~ re.items[i].many
  <2>1. \A C : Item(C, FALSE, FALSE).set = C /\ ~ Item(C, FALSE, FALSE).opt /\ ~ Item(C, FALSE, FALSE).many
    BY DEF Item
  <2> HIDE DEF re, n
  <2> QED BY <1>2, <2>1
<1>3. \A i \in 1 .. n : Same(<<u[i]>>, <<w[i]>>, ci)
  <2> DEFINE v == SubSeq(w, 1, n)
  <2>1. v \in Seq(Symbol) /\ Len(v) = (IF 1 <= n THEN n - 1 + 1 ELSE 0) /\ \A i \in 1 .. Len(v) : v[i] = w[1 + i - 1]
    <3> HIDE DEF n
    <3> QED BY <1>1, PartIs
  <2>2. Same(v, u, ci)
    OBVIOUS
  <2> HIDE DEF v, n
  <2>3. Len(v) = n /\ \A i \in 1 .. n : v[i] = w[i]
    <3>1. Len(v) = n
      BY <1>1, <2>1
    <3> QED BY <3>1, <2>1
  <2>4. v \in Texts
    BY <2>1 DEF Texts
  <2>6. \A a, b : Same(<<a>>, <<b>>, ci) => Same(<<b>>, <<a>>, ci)
    BY DEF Same
  <2> QED BY <2>3, <2>2, <2>4, SameIs, <2>6
<1> HIDE DEF n, d, re
<1>4. d \in [1 .. n -> Nat] /\ \A i \in 1 .. n : d[i] = 1
  BY DEF d
<1> DEFINE Good == {i \in 0 .. n : EndOf(d, i) = i}
<1>5. \A i \in 0 .. n : i \in Good
  <2>1. 0 \in Good
    BY <1>1, <1>4, EndOfIs
  <2>2. ASSUME NEW i \in 1 .. n, i - 1 \in Good PROVE i \in Good
    <3>0. EndOf(d, i - 1) = i - 1
      BY <2>2
    <3>1. EndOf(d, i) = EndOf(d, i - 1) + d[i] /\ EndOf(d, i - 1) = i - 1 /\ d[i] = 1 /\ i \in 0 .. n
      <4> HIDE DEF Good
      <4>2. EndOf(d, i) = EndOf(d, i - 1) + d[i] /\ d[i] = 1
        BY <1>1, <1>4, EndOfIs
      <4> QED BY <4>2, <3>0, <1>1
    <3> QED BY <3>1
  <2> HIDE DEF Good
  <2> QED BY <2>1, <2>2, <1>1, Ascent
<1>6. \A i \in 0 .. n : EndOf(d, i) = i
  BY <1>5
<1>7. EndOf(d, n) = n
  BY <1>1, <1>6
<1>8. d \in Divisions(re, w, ci)
  <2>1. ASSUME NEW i \in 1 .. n PROVE Piece(re.items[i], w, EndOf(d, i - 1), EndOf(d, i), ci)
    <3>1. EndOf(d, i - 1) = i - 1 /\ EndOf(d, i) = i
      BY <1>1, <1>6
    <3>3. ASSUME NEW j \in (i - 1) + 1 .. i PROVE \E c \in re.items[i].set : Same(<<c>>, <<w[j]>>, ci)
      <4>1. j = i
        OBVIOUS
      <4> QED BY <4>1, <1>2a, <1>3
    <3>4. i - 1 # i /\ ~ (i > (i - 1) + 1)
      OBVIOUS
    <3> QED BY <3>1, <3>3, <3>4 DEF Piece
  <2>2. EndOf(d, n) <= Len(w)
    BY <1>1, <1>7
  <2> QED BY <2>1, <2>2, <1>2, <1>4, DivisionIs
<1>9. ASSUME NEW y \in Divisions(re, w, ci) PROVE y = d
  <2>1. y \in [1 .. n -> Nat] /\ \A i \in 1 .. n : Piece(re.items[i], w, EndOf(y, i - 1), EndOf(y, i), ci)
    BY <1>2, <1>9, DivisionIs
  <2>2. ASSUME NEW i \in 1 .. n PROVE y[i] = 1
    <3> DEFINE a == EndOf(y, i - 1)
               b == EndOf(y, i)
    <3>1. i \in 0 .. n /\ i - 1 \in 0 .. n
      BY <1>1
    <3>2. b = a + y[i] /\ a \in Nat /\ b \in Nat /\ y[i] \in Nat
      BY <3>1, <2>1, <1>1, EndOfIs
    <3>3. Piece(re.items[i], w, a, b, ci)
      BY <2>1
    <3> HIDE DEF a, b
    <3>5. a # b /\ ~ (b > a + 1)
      BY <3>3, <1>2a DEF Piece
    <3> QED BY <3>2, <3>5
  <2> QED BY <2>1, <2>2 DEF d
<1>10. Best(re, w, ci, d)
  BY <1>8, <1>9 DEF Best
<1>11. CapsAre(re, w, d, <<>>, ci)
  BY <1>2 DEF CapsAre
<1>12. MatchOf(re, w, ci, d, n, <<>>)
  BY <1>2, <1>7, <1>10, <1>11 DEF MatchOf
<1> QED BY <1>12 DEF n, re

\* What an expression that can be compiled matches by itself is what it is compiled to
\* matches.
LEMMA PartMatched ==
    ASSUME NEW defines, NEW e \in AnyExpr, Compilable(e), NEW s \in Texts, NEW ci, NEW caps \in Seq(Texts), NEW names,
           NEW x, x = EvalExpression(defines, e, s, ci, caps, names), x.is = "match", x.len <= Window
    PROVE  \E d, whole, own :
             /\ MatchOf(PatternOf(e), InWindow(s), ci, d, x.len, own)
             /\ own \in Seq(Texts) /\ whole \in Texts /\ x.caps = <<whole>> \o own /\ x.len \in 0 .. Len(InWindow(s))
             /\ Same(SubSeq(InWindow(s), 1, x.len), whole, ci)
<1> DEFINE w == InWindow(s)
<1>1. w \in Texts /\ Len(w) = (IF Len(s) < Window THEN Len(s) ELSE Window) /\ Len(w) \in Nat /\ Len(s) \in Nat /\ Window \in Nat
  BY InWindowIs, WindowAssumption DEF Texts
<1>2. CASE e.kind = "Regex"
  <2> DEFINE re == Pattern[e.val]
             f == Find(re, w, ci)
  <2>1. e.val \in DOMAIN Pattern /\ IsRe(re) /\ PatternOf(e) = re
    BY <1>2, PatternAssumption DEF Compilable, PatternOf
  <2>2. x = WithWhole(s, f)
    BY <1>2, <2>1 DEF EvalExpression
  <2>3. f \in AnyMatch /\ f.len \in 0 .. Len(w)
    <3> HIDE DEF w, re
    <3> QED BY <1>1, <2>1, FindIs, FindLen
  <2> HIDE DEF w, re, f
  <2>4. f.is = "match"
    BY <2>2 DEF WithWhole
  <2>5. x = Match(f.len, <<SubSeq(s, 1, f.len)>> \o f.caps, <<NoName>> \o f.names)
    BY <2>2, <2>4 DEF WithWhole
  <2>6. PICK d : MatchOf(re, w, ci, d, f.len, f.caps)
    BY <1>1, <2>1, <2>4, FoundIs DEF f
  <2>7. x.len = f.len /\ x.caps = <<SubSeq(s, 1, f.len)>> \o f.caps /\ f.caps \in Seq(Texts)
    BY <2>3, <2>5 DEF Match, AnyMatch
  <2>8. SubSeq(w, 1, f.len) = SubSeq(s, 1, f.len)
    BY <2>3, <1>1, StartOfWindow DEF w
  <2>9. SubSeq(s, 1, f.len) \in Texts
    BY <2>3, <1>1, PartIs DEF Texts
  <2> DEFINE whole == SubSeq(s, 1, f.len)
  <2>10. Same(SubSeq(w, 1, x.len), whole, ci)
    BY <2>7, <2>8, SameAnyway
  <2> HIDE DEF whole
  <2>11. x.caps = <<whole>> \o f.caps /\ whole \in Texts
    BY <2>7, <2>9 DEF whole
  <2> QED BY <2>1, <2>3, <2>6, <2>7, <2>10, <2>11 DEF w
<1>3. CASE e.kind \in {"String", "Number"}
  <2> DEFINE u == e.val
             n == Len(u)
  <2>1. PICK c : x = MatchText(s, u, c) /\ c \in {ci, FALSE}
    BY <1>3 DEF EvalExpression
  <2>2. u \in Texts /\ n \in Nat /\ PatternOf(e) = Literal(u)
    BY <1>3 DEF AnyExpr, PatternOf, Texts
  <2>3. StartsWith(s, u, c) /\ x = Match(n, <<u>>, <<NoName>>)
    BY <2>1, MatchIs DEF MatchText
  <2> HIDE DEF u, w
  <2>4. n <= Len(s) /\ Same(SubSeq(s, 1, n), u, c) /\ x.len = n /\ x.caps = <<u>>
    BY <2>3 DEF StartsWith, Match
  <2> HIDE DEF n
  <2>5. n <= Len(w)
    BY <1>1, <2>2, <2>4
  <2>6. SubSeq(w, 1, n) = SubSeq(s, 1, n)
    BY <2>2, <2>5, StartOfWindow DEF w
  <2>7. Same(SubSeq(w, 1, n), u, ci)
    BY <2>1, <2>4, <2>6, SameAnyway
  <2>8. PICK d : MatchOf(Literal(u), w, ci, d, n, <<>>)
    BY <1>1, <2>2, <2>5, <2>7, LiteralBest DEF n
  <2>9. x.caps = <<u>> \o <<>> /\ <<>> \in Seq(Texts)
    BY <2>4
  <2>10. x.len \in 0 .. Len(w)
    BY <1>1, <2>2, <2>4, <2>5
  <2> QED BY <2>2, <2>4, <2>7, <2>8, <2>9, <2>10 DEF w
<1> QED BY <1>2, <1>3 DEF Compilable

\* A sequence of what was, one more, and what follows.
LEMMA Threefold ==
    ASSUME NEW S, NEW a \in Seq(S), NEW x \in S, NEW b \in Seq(S),
           NEW q, q = Append(a, x) \o b \/ q = a \o (<<x>> \o b)
    PROVE  /\ q \in Seq(S) /\ Len(q) = Len(a) + 1 + Len(b)
           /\ \A j \in 1 .. Len(a) : q[j] = a[j]
           /\ q[Len(a) + 1] = x
           /\ \A j \in 1 .. Len(b) : q[Len(a) + 1 + j] = b[j]
<1> DEFINE n == Len(a)
           k == Len(b)
<1>1. n \in Nat /\ k \in Nat
  OBVIOUS
<1>2. CASE q = Append(a, x) \o b
  <2> DEFINE c == Append(a, x)
  <2>1. c \in Seq(S) /\ Len(c) = n + 1 /\ (\A j \in 1 .. n : c[j] = a[j]) /\ c[n + 1] = x
    OBVIOUS
  <2> HIDE DEF c
  <2>2. /\ c \o b \in Seq(S) /\ Len(c \o b) = Len(c) + Len(b)
        /\ \A i \in 1 .. Len(c) + Len(b) : (c \o b)[i] = IF i <= Len(c) THEN c[i] ELSE b[i - Len(c)]
    BY <2>1, ConcatProperties
  <2> HIDE DEF n, k
  <2>3. q \in Seq(S) /\ Len(q) = n + 1 + k /\ \A i \in 1 .. n + 1 + k : q[i] = IF i <= n + 1 THEN c[i] ELSE b[i - (n + 1)]
    BY <1>2, <2>1, <2>2 DEF c, k
  <2>4. \A j \in 1 .. n : j \in 1 .. n + 1 + k /\ j <= n + 1
    BY <1>1
  <2>5. n + 1 \in 1 .. n + 1 + k /\ n + 1 <= n + 1
    BY <1>1
  <2>6. \A j \in 1 .. k : n + 1 + j \in 1 .. n + 1 + k /\ ~ (n + 1 + j <= n + 1) /\ (n + 1 + j) - (n + 1) = j
    BY <1>1
  <2>7. (\A j \in 1 .. n : q[j] = a[j]) /\ q[n + 1] = x /\ \A j \in 1 .. k : q[n + 1 + j] = b[j]
    BY <2>1, <2>3, <2>4, <2>5, <2>6
  <2> QED BY <2>3, <2>7 DEF n, k
<1>3. CASE q = a \o (<<x>> \o b)
  <2> DEFINE o == <<x>>
             c == o \o b
  <2>1. o \in Seq(S) /\ Len(o) = 1 /\ o[1] = x
    OBVIOUS
  <2> HIDE DEF o
  <2>2. /\ c \in Seq(S) /\ Len(c) = Len(o) + Len(b)
        /\ \A i \in 1 .. Len(o) + Len(b) : c[i] = IF i <= Len(o) THEN o[i] ELSE b[i - Len(o)]
    BY <2>1, ConcatProperties
  <2> HIDE DEF c
  <2>3. /\ a \o c \in Seq(S) /\ Len(a \o c) = Len(a) + Len(c)
        /\ \A i \in 1 .. Len(a) + Len(c) : (a \o c)[i] = IF i <= Len(a) THEN a[i] ELSE c[i - Len(a)]
    <3>1. c \in Seq(S)
      BY <2>2
    <3> HIDE DEF n, k
    <3> QED BY <3>1, ConcatProperties
  <2>4. q = a \o c
    BY <1>3 DEF c, o
  <2> HIDE DEF n, k
  <2>5. Len(c) = 1 + k /\ c[1] = x /\ \A i \in 1 .. k : c[1 + i] = b[i]
    <3>2. Len(c) = 1 + k /\ \A i \in 1 .. 1 + k : c[i] = IF i <= 1 THEN o[i] ELSE b[i - 1]
      BY <2>1, <2>2 DEF k
    <3> QED BY <2>1, <1>1, <3>2
  <2>6. q \in Seq(S) /\ Len(q) = n + 1 + k /\ \A i \in 1 .. n + (1 + k) : q[i] = IF i <= n THEN a[i] ELSE c[i - n]
    <3>1. n + (1 + k) = n + 1 + k
      BY <1>1
    <3> QED BY <2>3, <2>4, <2>5, <3>1 DEF n
  <2>7. \A j \in 1 .. n : j \in 1 .. n + (1 + k) /\ j <= n
    BY <1>1
  <2>8. n + 1 \in 1 .. n + (1 + k) /\ ~ (n + 1 <= n) /\ (n + 1) - n = 1
    BY <1>1
  <2>9. \A j \in 1 .. k : n + 1 + j \in 1 .. n + (1 + k) /\ ~ (n + 1 + j <= n) /\ (n + 1 + j) - n = 1 + j
    BY <1>1
  <2>10. (\A j \in 1 .. n : q[j] = a[j]) /\ q[n + 1] = x /\ \A j \in 1 .. k : q[n + 1 + j] = b[j]
    BY <2>5, <2>6, <2>7, <2>8, <2>9
  <2> QED BY <2>6, <2>10 DEF n, k
<1> QED BY <1>2, <1>3

\* The match of an expression and then of another is that of both together.
LEMMA ThenMatched ==
    ASSUME NEW re \in AnyRe, NEW part, IsRe(part), NEW s \in Texts, NEW ci,
           NEW d, NEW len, NEW caps \in Seq(Texts), MatchOf(re, InWindow(s), ci, d, len, caps),
           NEW v, v = InWindow(SubSeq(s, len + 1, Len(s))),
           NEW c, NEW took \in Nat, NEW own \in Seq(Texts), NEW whole \in Texts, MatchOf(part, v, ci, c, took, own),
           Same(SubSeq(v, 1, took), whole, ci), len + took <= Len(InWindow(s))
    PROVE  \E z : MatchOf(ThenPart(re, part), InWindow(s), ci, z, len + took, caps \o (<<whole>> \o own))
<1> DEFINE n == Len(re.items)
           k == Len(part.items)
           w == InWindow(s)
           both == ThenPart(re, part)
           own1 == Shifted(part.groups, n)
           mid == Group(n + 1, n + k, NoName)
           all == caps \o (<<whole>> \o own)
<1>1. IsRe(re) /\ both \in AnyRe /\ IsRe(both) /\ both.items = re.items \o part.items
      /\ both.groups = Append(re.groups, mid) \o own1 /\ own1 \in Seq(AnyGroup) /\ Len(own1) = Len(part.groups)
  BY ThenPartIs DEF AnyRe
<1>2. n \in Nat /\ k \in Nat /\ re.groups \in Seq(AnyGroup) /\ part.groups \in Seq(AnyGroup) /\ Len(re.groups) \in Nat
      /\ Len(part.groups) \in Nat /\ DOMAIN part.groups = 1 .. Len(part.groups) /\ Len(both.items) = n + k
  <2>2. Len(both.items) = n + k
    BY <1>1, ReIs
  <2> HIDE DEF n, k, both
  <2> QED BY <1>1, <2>2, ReIs DEF n, k
<1>3. mid \in AnyGroup /\ mid.from = n + 1 /\ mid.to = n + k
  <2>0. NoName \in Texts
    BY DEF NoName, Texts
  <2>1. n + 1 \in Nat \ {0} /\ n + k \in Nat /\ NoName \in Texts
    <3> HIDE DEF n, k
    <3> QED BY <1>2, <2>0
  <2> HIDE DEF n, k, NoName
  <2> QED BY <2>1 DEF Group, AnyGroup
<1>4. \A l \in 1 .. Len(part.groups) : own1[l].from = part.groups[l].from + n /\ own1[l].to = part.groups[l].to + n
  BY <1>2 DEF Shifted, Group
<1> DEFINE G == Len(re.groups)
           H == Len(part.groups)
<1>5. /\ Len(both.groups) = G + 1 + H
      /\ \A j \in 1 .. G : both.groups[j] = re.groups[j]
      /\ both.groups[G + 1] = mid
      /\ \A j \in 1 .. H : both.groups[G + 1 + j] = own1[j]
  <2> DEFINE a == re.groups
             q == both.groups
  <2>1. a \in Seq(AnyGroup) /\ mid \in AnyGroup /\ own1 \in Seq(AnyGroup) /\ q = Append(a, mid) \o own1
    BY <1>1, <1>2, <1>3
  <2> HIDE DEF a, q, n, k, mid, own1, both, G, H
  <2>2. /\ Len(q) = Len(a) + 1 + Len(own1) /\ (\A j \in 1 .. Len(a) : q[j] = a[j]) /\ q[Len(a) + 1] = mid
        /\ \A j \in 1 .. Len(own1) : q[Len(a) + 1 + j] = own1[j]
    BY <2>1, Threefold
  <2>3. Len(a) = G /\ Len(own1) = H
    BY <1>1 DEF a, G, H
  <2> QED BY <2>2, <2>3 DEF a, q
<1>6. Len(caps) = G /\ \A j \in 1 .. G : Same(SubSeq(w, EndOf(d, re.groups[j].from - 1) + 1, EndOf(d, re.groups[j].to)), caps[j], ci)
  BY DEF MatchOf, CapsAre
<1>7. Len(own) = H /\ \A j \in 1 .. H : Same(SubSeq(v, EndOf(c, part.groups[j].from - 1) + 1, EndOf(c, part.groups[j].to)), own[j], ci)
  BY DEF MatchOf, CapsAre
<1>8. /\ Len(all) = G + 1 + H
      /\ \A j \in 1 .. G : all[j] = caps[j]
      /\ all[G + 1] = whole
      /\ \A j \in 1 .. H : all[G + 1 + j] = own[j]
  <2>1. all = caps \o (<<whole>> \o own)
    OBVIOUS
  <2> HIDE DEF G, H, all
  <2>2. /\ Len(all) = Len(caps) + 1 + Len(own) /\ (\A j \in 1 .. Len(caps) : all[j] = caps[j]) /\ all[Len(caps) + 1] = whole
        /\ \A j \in 1 .. Len(own) : all[Len(caps) + 1 + j] = own[j]
    BY <2>1, Threefold
  <2>3. Len(caps) = G /\ Len(own) = H
    BY <1>6, <1>7
  <2> QED BY <2>2, <2>3
<1>9. Best(re, w, ci, d) /\ EndOf(d, n) = len /\ Best(part, v, ci, c) /\ EndOf(c, k) = took
  BY DEF MatchOf
<1>10. /\ \A j \in 1 .. G : re.groups[j].from \in Nat \ {0} /\ re.groups[j].to \in Nat /\ re.groups[j].from <= re.groups[j].to + 1 /\ re.groups[j].to <= n
       /\ \A j \in 1 .. H : part.groups[j].from \in Nat \ {0} /\ part.groups[j].to \in Nat /\ part.groups[j].from <= part.groups[j].to + 1 /\ part.groups[j].to <= k
  <2>1. \A g \in AnyGroup : g.from \in Nat \ {0} /\ g.to \in Nat
    BY DEF AnyGroup
  <2>2. /\ \A j \in 1 .. G : re.groups[j] \in AnyGroup /\ re.groups[j].from <= re.groups[j].to + 1 /\ re.groups[j].to <= n
        /\ \A j \in 1 .. H : part.groups[j] \in AnyGroup /\ part.groups[j].from <= part.groups[j].to + 1 /\ part.groups[j].to <= k
    BY <1>1, ReIs
  <2> HIDE DEF G, H, n, k
  <2> QED BY <2>1, <2>2
<1>11. PICK z : Catted(z, d, c, n, k) /\ Best(both, w, ci, z)
  <2> DEFINE off == EndOf(d, n)
  <2>1. v = InWindow(SubSeq(s, off + 1, Len(s))) /\ off + EndOf(c, k) <= Len(w)
    BY <1>9
  <2> HIDE DEF off
  <2> QED BY <1>9, <2>1, ThenBest DEF off
<1>12. (\A i \in 0 .. n : EndOf(z, i) = EndOf(d, i)) /\ \A i \in 0 .. k : EndOf(z, n + i) = EndOf(d, n) + EndOf(c, i)
  <2> HIDE DEF n, k
  <2> QED BY <1>2, <1>11, CatEnds
<1>13. d \in [1 .. n -> Nat] /\ c \in [1 .. k -> Nat]
  BY <1>11 DEF Catted
<1> HIDE DEF n, k, w, both, mid, own1, G, H, all
<1>15. len \in Nat /\ n \in 0 .. n /\ k \in 0 .. k
  <2>1. n \in 0 .. n /\ k \in 0 .. k
    BY <1>2
  <2>2. EndOf(d, n) \in Nat
    BY <2>1, <1>2, <1>13, EndOfIs
  <2> QED BY <2>1, <2>2, <1>9
<1>16. Aligned(w, v, len) /\ w \in Texts /\ Len(w) \in Nat
  <2>1. w \in Texts /\ Len(w) \in Nat
    BY InWindowIs DEF w, Texts
  <2>2. len <= Len(InWindow(s))
    <3>1. len + took <= Len(w)
      BY DEF w
    <3> QED BY <3>1, <2>1, <1>15 DEF w
  <2> QED BY <2>1, <2>2, <1>15, AlignedIs DEF w
<1>17. EndOf(z, Len(both.items)) = len + took
  BY <1>2, <1>9, <1>12, <1>15
<1>18. ASSUME NEW j \in 1 .. G
       PROVE  Same(SubSeq(w, EndOf(z, both.groups[j].from - 1) + 1, EndOf(z, both.groups[j].to)), all[j], ci)
  <2> DEFINE a == re.groups[j].from
             b == re.groups[j].to
  <2>1. a \in Nat \ {0} /\ b \in Nat /\ a <= b + 1 /\ b <= n
    BY <1>10
  <2>3. Same(SubSeq(w, EndOf(d, a - 1) + 1, EndOf(d, b)), caps[j], ci)
    BY <1>6
  <2> HIDE DEF a, b
  <2>4. a - 1 \in 0 .. n /\ b \in 0 .. n
    BY <2>1, <1>2
  <2>6. Same(SubSeq(w, EndOf(z, a - 1) + 1, EndOf(z, b)), caps[j], ci)
    BY <2>3, <2>4, <1>12
  <2> QED BY <1>5, <1>8, <2>6 DEF a, b
<1>19. Same(SubSeq(w, EndOf(z, both.groups[G + 1].from - 1) + 1, EndOf(z, both.groups[G + 1].to)), all[G + 1], ci)
  <2>1. both.groups[G + 1].from - 1 = n /\ both.groups[G + 1].to = n + k /\ all[G + 1] = whole
    <3>2. mid.from - 1 = n /\ mid.to = n + k
      BY <1>2, <1>3
    <3> QED BY <1>5, <1>8, <3>2
  <2> DEFINE p == len + 1
             q == len + took
             zero == 0
             one == 1
  <2>3. zero \in Nat /\ p = len + zero + 1 /\ one = zero + 1 /\ q <= Len(w)
    BY <1>15 DEF w
  <2>4. q = len + took
    OBVIOUS
  <2> HIDE DEF zero, p, q, one
  <2>5. Cut(w, p, q) = Cut(v, one, took)
    <3>1. Moved(w, v, len, zero, took, p, q, one)
      BY <2>3, <2>4, <1>15, <1>16 DEF Moved
    <3> QED BY <3>1, PartAligned
  <2> DEFINE x == SubSeq(w, len + 1, len + took)
             y == SubSeq(v, 1, took)
  <2>5a. x = Cut(w, p, q) /\ y = Cut(v, one, took)
    BY DEF Cut, p, q, one
  <2>5b. Same(y, whole, ci)
    OBVIOUS
  <2> HIDE DEF x, y
  <2>5c. Same(x, whole, ci)
    BY <2>5, <2>5a, <2>5b
  <2>6. Same(SubSeq(w, len + 1, len + took), whole, ci)
    BY <2>5c DEF x
  <2> QED BY <2>1, <1>9, <1>12, <1>15, <2>6
<1>20. ASSUME NEW j \in 1 .. H
       PROVE  Same(SubSeq(w, EndOf(z, both.groups[G + 1 + j].from - 1) + 1, EndOf(z, both.groups[G + 1 + j].to)), all[G + 1 + j], ci)
  <2> DEFINE p == part.groups[j].from
             q == part.groups[j].to
             a == EndOf(c, p - 1)
             b == EndOf(c, q)
             g == both.groups[G + 1 + j]
  <2>1. p \in Nat \ {0} /\ q \in Nat /\ p <= q + 1 /\ q <= k
    BY <1>10
  <2>2. g.from = p + n /\ g.to = q + n /\ all[G + 1 + j] = own[j]
    BY <1>4, <1>5, <1>8 DEF H
  <2>3. Same(SubSeq(v, a + 1, b), own[j], ci)
    BY <1>7
  <2> HIDE DEF p, q, g
  <2>4. p - 1 \in 0 .. k /\ q \in 0 .. k /\ g.from - 1 = n + (p - 1) /\ g.to = n + q /\ q <= k
    BY <2>1, <2>2, <1>2
  <2>5. EndOf(z, g.from - 1) = len + a /\ EndOf(z, g.to) = len + b
    BY <2>4, <1>9, <1>12
  <2>6. a \in Nat /\ b \in Nat /\ b <= took
    BY <2>4, <1>9, <1>2, <1>13, EndOfIs, <1>15
  <2> HIDE DEF a, b
  <2>7. len + b <= Len(w)
    BY <2>6, <1>15, <1>16 DEF w
  <2> DEFINE f == len + a + 1
             h == len + b
             l == a + 1
  <2>8. f = len + a + 1 /\ h = len + b /\ l = a + 1 /\ h <= Len(w)
    BY <2>7
  <2> HIDE DEF f, h, l
  <2>8a. Cut(w, f, h) = Cut(v, l, b)
    <3>1. a \in Nat /\ b \in Nat /\ len \in Nat /\ Aligned(w, v, len)
      BY <2>6, <1>15, <1>16
    <3>2. f = len + a + 1
      BY <2>8
    <3>3. h = len + b /\ l = a + 1 /\ h <= Len(w)
      BY <2>8
    <3>4. Moved(w, v, len, a, b, f, h, l)
      BY <3>1, <3>2, <3>3 DEF Moved
    <3> QED BY <3>4, PartAligned
  <2>8b. EndOf(z, g.from - 1) + 1 = f /\ EndOf(z, g.to) = h
    BY <2>5, <2>6, <2>8, <1>15
  <2>8d. Same(Cut(w, f, h), own[j], ci)
    BY <2>8a, <2>3 DEF Cut, l
  <2>8e. Same(SubSeq(w, f, h), own[j], ci)
    BY <2>8d DEF Cut
  <2> QED BY <2>2, <2>8b, <2>8e DEF g
<1>21. CapsAre(both, w, z, all, ci)
  <2>1. \A i \in 1 .. G + 1 + H : i \in 1 .. G \/ i = G + 1 \/ (i - (G + 1) \in 1 .. H /\ i = G + 1 + (i - (G + 1)))
    <3>1. G \in Nat /\ H \in Nat
      BY <1>2 DEF G, H
    <3> QED BY <3>1
  <2>2. \A i \in 1 .. G + 1 + H :
           Same(SubSeq(w, EndOf(z, both.groups[i].from - 1) + 1, EndOf(z, both.groups[i].to)), all[i], ci)
    <3> TAKE i \in 1 .. G + 1 + H
    <3>1. CASE i \in 1 .. G
      BY <3>1, <1>18
    <3>2. CASE i = G + 1
      BY <3>2, <1>19
    <3>3. CASE i - (G + 1) \in 1 .. H /\ i = G + 1 + (i - (G + 1))
      BY <3>3, <1>20
    <3> QED BY <3>1, <3>2, <3>3, <2>1
  <2> QED BY <2>2, <1>5, <1>8 DEF CapsAre
<1>22. MatchOf(both, w, ci, z, len + took, all)
  BY <1>11, <1>17, <1>21 DEF MatchOf
<1> QED BY <1>22 DEF both, w, all

\* Nothing matches nothing.
LEMMA NothingMatched ==
    ASSUME NEW w \in Texts, NEW ci
    PROVE  \E d : MatchOf(Re(<<>>, <<>>), w, ci, d, 0, <<>>)
<1> DEFINE re == Re(<<>>, <<>>)
           d == [i \in 1 .. 0 |-> 0]
<1>1. IsRe(re) /\ Len(re.items) = 0 /\ Len(re.groups) = 0
  <2>1. IsRe(re)
    BY EmptyRe DEF AnyRe
  <2> QED BY <2>1 DEF Re
<1>2. d \in [1 .. 0 -> Nat] /\ \A y \in [1 .. 0 -> Nat] : y = d
  OBVIOUS
<1>3. Len(w) \in Nat /\ 0 \in Nat
  BY DEF Texts
<1> HIDE DEF re, d
<1>4. EndOf(d, 0) = 0
  BY <1>2, <1>3, EndOfIs
<1>5. d \in Divisions(re, w, ci)
  <2>1. \A i \in 1 .. 0 : Piece(re.items[i], w, EndOf(d, i - 1), EndOf(d, i), ci)
    OBVIOUS
  <2>2. EndOf(d, 0) <= Len(w)
    BY <1>3, <1>4
  <2> QED BY <2>1, <2>2, <1>1, <1>2, DivisionIs
<1>6. \A y \in Divisions(re, w, ci) : y = d
  BY <1>1, <1>2, DivisionIs
<1>7. Best(re, w, ci, d)
  BY <1>5, <1>6 DEF Best
<1>8. CapsAre(re, w, d, <<>>, ci)
  BY <1>1 DEF CapsAre
<1>9. MatchOf(re, w, ci, d, 0, <<>>)
  BY <1>1, <1>4, <1>7, <1>8 DEF MatchOf
<1> QED BY <1>9 DEF re

\* One more expression of a list fits one more part of the combined expression.
LEMMA OneMore ==
    ASSUME NEW defines, NEW re \in AnyRe, NEW e \in AnyExpr, Compilable(e), NEW s \in Texts, NEW ci,
           NEW m \in AnyMatch, Fits(re, s, ci, m)
    PROVE  Fits(ThenPart(re, PatternOf(e)), s, ci, StepOne(defines, s, ci, m, e))
<1> DEFINE next == StepOne(defines, s, ci, m, e)
           r == SubSeq(s, m.len + 1, Len(s))
           x == EvalExpression(defines, e, r, ci, m.caps, m.names)
           w == InWindow(s)
           v == InWindow(r)
           part == PatternOf(e)
<1> SUFFICES ASSUME next.is = "match", next.len <= Window
             PROVE  /\ next.len <= Len(w)
                    /\ \E z : MatchOf(ThenPart(re, part), w, ci, z, next.len, next.caps)
  BY DEF Fits
<1>1. m.is = "match" /\ next = Joined(m, x)
  BY DEF StepOne
<1>2. m.len \in Nat /\ m.caps \in Seq(Texts) /\ Window \in Nat
  BY WindowAssumption DEF AnyMatch
<1>3. r \in Texts
  BY <1>2, RestIs
<1>4. x \in AnyMatch
  <2> HIDE DEF r
  <2> QED BY <1>2, <1>3, EvalExpressionIs
<1>6. IsRe(part)
  BY PatternOfIs DEF AnyRe
<1> HIDE DEF next, part
<1>7. x.is = "match" /\ next.len = m.len + x.len /\ next.caps = m.caps \o x.caps /\ x.len \in Nat
  <2> HIDE DEF x
  <2>1. x.is = "match"
    BY <1>1, <1>4, JoinedIs
  <2>2. x.len \in Nat
    BY <1>4 DEF AnyMatch
  <2> QED BY <2>1, <2>2, <1>1 DEF Joined, Match
<1>8. m.len <= Window /\ x.len <= Window
  <2> HIDE DEF x
  <2> QED BY <1>2, <1>7
<1>9. PICK d : MatchOf(re, w, ci, d, m.len, m.caps)
  BY <1>1, <1>8 DEF Fits
<1>10. m.len <= Len(w)
  BY <1>1, <1>8 DEF Fits
<1>11. PICK c, whole, own :
         /\ MatchOf(part, v, ci, c, x.len, own)
         /\ own \in Seq(Texts) /\ whole \in Texts /\ x.caps = <<whole>> \o own /\ x.len \in 0 .. Len(v)
         /\ Same(SubSeq(v, 1, x.len), whole, ci)
  <2> DEFINE y == x
  <2>1. y = EvalExpression(defines, e, r, ci, m.caps, m.names)
    OBVIOUS
  <2>2. y.is = "match" /\ y.len <= Window
    BY <1>7, <1>8
  <2> HIDE DEF y, r
  <2> QED BY <2>1, <2>2, <1>2, <1>3, PartMatched DEF y, part
<1> DEFINE took == x.len
<1>12. next.len <= Len(w)
  <2>1. Len(w) = (IF Len(s) < Window THEN Len(s) ELSE Window) /\ Len(s) \in Nat /\ s \in Seq(Symbol)
    BY InWindowIs DEF Texts
  <2>2. Len(v) = (IF Len(r) < Window THEN Len(r) ELSE Window)
    BY <1>3, InWindowIs
  <2>3. Len(r) = IF m.len + 1 <= Len(s) THEN Len(s) - (m.len + 1) + 1 ELSE 0
    BY <1>2, <2>1, PartIs
  <2>4. took \in 0 .. Len(v) /\ next.len = m.len + took
    BY <1>7, <1>11
  <2> HIDE DEF took, w, v, r
  <2> QED BY <2>1, <2>2, <2>3, <2>4, <1>2, <1>10
<1>13. PICK z : MatchOf(ThenPart(re, part), w, ci, z, m.len + took, m.caps \o (<<whole>> \o own))
  <2>1. took \in Nat /\ m.len + took <= Len(w) /\ MatchOf(part, v, ci, c, took, own) /\ Same(SubSeq(v, 1, took), whole, ci)
    BY <1>7, <1>11, <1>12
  <2> HIDE DEF took, v
  <2>2. v = InWindow(SubSeq(s, m.len + 1, Len(s)))
    BY DEF v
  <2> HIDE DEF w, r
  <2> QED BY <2>1, <2>2, <1>2, <1>6, <1>9, <1>11, ThenMatched DEF w
<1> QED BY <1>12, <1>7, <1>11, <1>13

\* What a list matches one expression after the other, it matches at once.
LEMMA ListMatched ==
    ASSUME NEW defines, NEW parts \in Seq(AnyExpr), \A i \in DOMAIN parts : Compilable(parts[i]), NEW s \in Texts, NEW ci
    PROVE  Fits(Whole(parts), s, ci, OneByOne(defines, parts, s, ci))
<1> DEFINE n == Len(parts)
<1>1. n \in Nat /\ DOMAIN parts = 1 .. n /\ \A i \in 1 .. n : parts[i] \in AnyExpr
  OBVIOUS
<1>2. PICK g : WholeBy(g, parts)
  BY WholeUnfolds
<1>3. PICK h : OneByOneBy(h, defines, parts, s, ci)
  BY OneByOneUnfolds
<1>4. /\ g \in [0 .. n -> AnyRe] /\ g[0] = Re(<<>>, <<>>) /\ Whole(parts) = g[n]
      /\ \A i \in 1 .. n : g[i] = ThenPart(g[i - 1], PatternOf(parts[i]))
  BY <1>2 DEF WholeBy
<1>5. /\ h \in [0 .. n -> AnyMatch] /\ h[0] = Match(0, <<>>, <<>>) /\ OneByOne(defines, parts, s, ci) = h[n]
      /\ \A i \in 1 .. n : h[i] = StepOne(defines, s, ci, h[i - 1], parts[i])
  BY <1>3 DEF OneByOneBy
<1> HIDE DEF n
<1> DEFINE fit == [i \in 0 .. n |-> IF Fits(g[i], s, ci, h[i]) THEN "yes" ELSE "no"]
           Good == {i \in 0 .. n : fit[i] = "yes"}
<1>6. \A i \in 0 .. n : i \in Good <=> Fits(g[i], s, ci, h[i])
  <2>1. \A i \in 0 .. n : fit[i] = "yes" <=> Fits(g[i], s, ci, h[i])
    OBVIOUS
  <2> HIDE DEF fit
  <2> QED BY <2>1
<1> HIDE DEF Good
<1>7. 0 \in Good
  <2>1. InWindow(s) \in Texts /\ 0 <= Len(InWindow(s))
    BY InWindowIs DEF Texts
  <2>2. h[0].len = 0 /\ h[0].caps = <<>>
    BY <1>5 DEF Match
  <2>4. Fits(g[0], s, ci, h[0])
    BY <2>1, <2>2, <1>4, NothingMatched DEF Fits
  <2> QED BY <2>4, <1>1, <1>6
<1>8. ASSUME NEW i \in 1 .. n, i - 1 \in Good PROVE i \in Good
  <2>1. i \in 0 .. n /\ i - 1 \in 0 .. n
    BY <1>1
  <2>2. g[i - 1] \in AnyRe /\ h[i - 1] \in AnyMatch /\ parts[i] \in AnyExpr /\ Compilable(parts[i])
    BY <2>1, <1>1, <1>4, <1>5
  <2>3. Fits(g[i - 1], s, ci, h[i - 1])
    BY <2>1, <1>6, <1>8
  <2>4. Fits(g[i], s, ci, h[i])
    BY <2>2, <2>3, <1>4, <1>5, OneMore
  <2> QED BY <2>1, <2>4, <1>6
<1>9. n \in Good
  <2>1. \A i \in 0 .. n : i \in Good
    BY <1>1, <1>7, <1>8, Ascent
  <2> QED BY <2>1, <1>1
<1>10. n \in 0 .. n
  BY <1>1
<1> QED BY <1>4, <1>5, <1>6, <1>9, <1>10

\* The prefix of a list does not keep from it what its expressions match.
LEMMA PrefixIs ==
    ASSUME NEW defines, NEW parts \in Seq(AnyExpr), parts # <<>>, NEW s \in Texts, NEW ci,
           OneByOne(defines, parts, s, ci).is = "match"
    PROVE  StartsWith(s, IF parts[1].kind = "String" THEN parts[1].val ELSE <<>>, ci)
<1> DEFINE n == Len(parts)
<1>1. n \in Nat /\ n >= 1 /\ parts[1] \in AnyExpr
  OBVIOUS
<1>2. PICK h : OneByOneBy(h, defines, parts, s, ci)
  BY OneByOneUnfolds
<1>3. /\ h \in [0 .. n -> AnyMatch] /\ h[0] = Match(0, <<>>, <<>>) /\ h[n].is = "match"
      /\ \A i \in 1 .. n : h[i] = StepOne(defines, s, ci, h[i - 1], parts[i])
  BY <1>2 DEF OneByOneBy
<1> HIDE DEF n
<1>4. Len(s) \in Nat /\ s \in Seq(Symbol)
  BY DEF Texts
<1>5. CASE parts[1].kind # "String"
  <2>1. Len(<<>>) = 0 /\ <<>> \in Seq(Symbol)
    OBVIOUS
  <2> DEFINE u == SubSeq(s, 1, 0)
  <2>2. u = <<>>
    BY <1>4
  <2> HIDE DEF u
  <2>3. Same(u, <<>>, ci)
    BY <2>2, SameAnyway
  <2>4. StartsWith(s, <<>>, ci)
    BY <2>1, <2>3, <1>4 DEF StartsWith, u
  <2> QED BY <2>4, <1>5
<1>6. CASE parts[1].kind = "String"
  <2> DEFINE Good == {i \in 0 .. n : i = 0 \/ h[i].is # "match" \/ h[1].is = "match"}
  <2>1. \A i \in 0 .. n : i \in Good
    <3>1. 0 \in Good
      BY <1>1
    <3>2. ASSUME NEW i \in 1 .. n, i - 1 \in Good PROVE i \in Good
      <4>1. i = 1 \/ i - 1 # 0
        OBVIOUS
      <4> QED BY <3>2, <4>1, <1>3 DEF StepOne
    <3> HIDE DEF Good
    <3> QED BY <3>1, <3>2, <1>1, Ascent
  <2>2. h[1].is = "match"
    BY <2>1, <1>1, <1>3
  <2> DEFINE r == SubSeq(s, h[0].len + 1, Len(s))
             u == parts[1].val
             x == EvalExpression(defines, parts[1], r, ci, h[0].caps, h[0].names)
  <2>3. h[1] = Joined(h[0], x)
    <3>1. 1 \in 1 .. n /\ 1 - 1 = 0 /\ h[0].is = "match"
      BY <1>1, <1>3 DEF Match
    <3> QED BY <3>1, <1>3 DEF StepOne
  <2>4. x.is = "match"
    <3> HIDE DEF x
    <3> QED BY <2>2, <2>3 DEF Joined
  <2>5. x = MatchText(r, u, ci)
    BY <1>6 DEF EvalExpression
  <2>6. StartsWith(r, u, ci)
    <3>1. NoMatch.is # "match"
      BY MatchIs
    <3> HIDE DEF x, r, u
    <3> QED BY <3>1, <2>4, <2>5 DEF MatchText
  <2>7. r = s
    <3> DEFINE a == h[0].len + 1
    <3>1. a = 1
      BY <1>3 DEF Match
    <3> HIDE DEF a
    <3>2. r \in Seq(Symbol) /\ Len(r) = (IF a <= Len(s) THEN Len(s) - a + 1 ELSE 0) /\ \A i \in 1 .. Len(r) : r[i] = s[a + i - 1]
      <4>2. r = SubSeq(s, a, Len(s))
        BY DEF a
      <4> HIDE DEF r
      <4> QED BY <3>1, <1>4, <4>2, PartIs
    <3> HIDE DEF r
    <3>3. Len(r) = Len(s)
      BY <3>1, <3>2, <1>4
    <3>4. \A i \in 1 .. Len(r) : r[i] = s[i]
      BY <3>1, <3>2, <1>4, <3>3
    <3>5. r = [i \in 1 .. Len(r) |-> r[i]] /\ s = [i \in 1 .. Len(s) |-> s[i]]
      BY <3>2, <1>4
    <3> QED BY <3>3, <3>4, <3>5
  <2> QED BY <2>6, <2>7, <1>6
<1> QED BY <1>5, <1>6

\* A list that was put together, evaluated in either way.
LEMMA SameMatchIs ==
    ASSUME NEW defines, IsMap(defines, AnyExpr), NEW exprs \in AnyList, NEW s \in Texts, NEW ci,
           NEW list, list = FieldList(defines, exprs), list.re # <<>>
    PROVE  SameMatch(OneByOne(defines, list.exprs, s, ci), EvalFieldList(defines, list, s, ci), ci)
<1> DEFINE parts == [i \in DOMAIN exprs |-> Resolve(defines, exprs[i])]
           w == InWindow(s)
           re == Whole(parts)
           single == OneByOne(defines, parts, s, ci)
           used == EvalFieldList(defines, list, s, ci)
<1>1. exprs \in Seq(AnyExpr) /\ exprs # <<>>
  BY DEF AnyList
<1>2. parts \in Seq(AnyExpr)
  BY <1>1, ResolvedList
<1>3. list.exprs = parts /\ list.re = Combined(defines, exprs) /\ list.prefix = LiteralPrefix(defines, exprs)
  BY DEF FieldList
<1>4. (\A i \in DOMAIN parts : Compilable(parts[i])) /\ list.re = <<re>>
  BY <1>3 DEF Combined
<1>5. parts # <<>> /\ parts[1] = Resolve(defines, Head(exprs))
  <2>1. 1 \in DOMAIN exprs /\ Head(exprs) = exprs[1]
    BY <1>1
  <2> QED BY <2>1
<1> HIDE DEF parts
<1> SUFFICES ASSUME single.is = "match", single.len <= Window
             PROVE  /\ used.is = "match" /\ used.len = single.len /\ Len(used.caps) = Len(single.caps)
                    /\ \A i \in DOMAIN used.caps : Same(used.caps[i], single.caps[i], ci)
  BY <1>3 DEF SameMatch
<1>6. StartsWith(s, list.prefix, ci)
  BY <1>2, <1>5, PrefixIs, <1>3 DEF LiteralPrefix
<1>7. used = AtOnce(re, s, ci)
  <2> HIDE DEF re
  <2> QED BY <1>4, <1>6 DEF EvalFieldList
<1>8. re \in AnyRe /\ IsRe(re)
  BY <1>2, <1>4, WholeIs DEF AnyRe
<1> HIDE DEF re
<1>9. w \in Texts
  BY InWindowIs
<1>10. PICK d : MatchOf(re, w, ci, d, single.len, single.caps)
  <2>1. Fits(re, s, ci, single)
    BY <1>2, <1>4, ListMatched DEF re
  <2> HIDE DEF single
  <2> QED BY <2>1 DEF Fits
<1> HIDE DEF single, used, w
<1>11. Best(re, w, ci, d) /\ EndOf(d, Len(re.items)) = single.len /\ CapsAre(re, w, d, single.caps, ci)
  BY <1>10 DEF MatchOf
<1> DEFINE f == Find(re, w, ci)
<1>12. /\ f.is = "match" /\ f.len = single.len /\ DOMAIN f.caps = 1 .. Len(re.groups) /\ Len(f.caps) = Len(re.groups)
       /\ \A i \in 1 .. Len(re.groups) :
            f.caps[i] = SubSeq(w, EndOf(d, re.groups[i].from - 1) + 1, EndOf(d, re.groups[i].to))
  BY <1>8, <1>9, <1>11, FoundIs
<1>13. f \in AnyMatch
  BY <1>8, <1>9, FindIs
<1>14. used.is = f.is /\ used.len = f.len /\ used.caps = f.caps
  <2> DEFINE names == [i \in DOMAIN f.names |-> NoName]
  <2>2. used = [f EXCEPT !.names = names]
    BY <1>7 DEF AtOnce, w
  <2> HIDE DEF f, names
  <2> QED BY <2>2, <1>13 DEF AnyMatch
<1>15. Len(single.caps) = Len(re.groups) /\ \A i \in 1 .. Len(re.groups) :
         Same(SubSeq(w, EndOf(d, re.groups[i].from - 1) + 1, EndOf(d, re.groups[i].to)), single.caps[i], ci)
  BY <1>11 DEF CapsAre
<1> HIDE DEF f
<1>16. \A i \in 1 .. Len(re.groups) : Same(f.caps[i], single.caps[i], ci)
  <2> TAKE i \in 1 .. Len(re.groups)
  <2> DEFINE x == SubSeq(w, EndOf(d, re.groups[i].from - 1) + 1, EndOf(d, re.groups[i].to))
  <2> HIDE DEF x
  <2> QED BY <1>12, <1>15
<1> QED BY <1>12, <1>14, <1>15, <1>16 

\* A list evaluated all at once matches what one expression after the other
\* matches, with the same captures, in every reachable state (eval_field_list,
\* with a combined expression and without).
THEOREM EvaluatorsDoTheSame == Spec => []EvaluatorsAgree
<1>1. IInv => EvaluatorsAgree
  <2> SUFFICES ASSUME IInv, phase = "ready",
                      NEW stmt \in {s \in DOMAIN compiled : s.kind \in {"Match", "IMatch", "When"}},
                      NEW list \in ToSet(compiled[stmt]), list.re # <<>>
               PROVE  SameMatch(OneByOne(ast.defines, list.exprs, Remaining, stmt.kind = "IMatch"),
                                EvalFieldList(ast.defines, list, Remaining, stmt.kind = "IMatch"), stmt.kind = "IMatch")
    BY DEF EvaluatorsAgree
  <2>1. PICK i \in DOMAIN compiled[stmt] : list = compiled[stmt][i]
    BY DEF ToSet
  <2>2. stmt \in AnyStmt /\ i \in DOMAIN stmt.alts /\ list = FieldList(ast.defines, stmt.alts[i])
    BY <2>1, StateIs, CompiledIs
  <2>3. stmt.alts[i] \in AnyList
    BY <2>2, StmtIs
  <2>4. Remaining \in Texts /\ IsMap(ast.defines, AnyExpr)
    BY StateIs
  <2> DEFINE ci == stmt.kind = "IMatch"
  <2> HIDE DEF ci
  <2> QED BY <2>2, <2>3, <2>4, SameMatchIs DEF ci
<1> QED BY <1>1, TypeCorrect, PTL

-----------------------------------------------------------------------------
(* Reading what was written                                                *)

\* Where one token stands.
LEMMA SitsOne ==
    ASSUME NEW t \in Tokens, NEW i, NEW p, Len(p) = 1, Sits(t, i, p)
    PROVE  /\ i \in 1 .. Len(t) /\ i \in 1 .. Len(t) + 1 /\ i + 1 \in 1 .. Len(t) + 1
           /\ t[i] = p[1] /\ KindAt(t, i) = p[1].kind
<1>1. Len(t) \in Nat /\ i \in 1 .. Len(t) + 1 /\ i + 1 \in 1 .. Len(t) + 1 /\ \A k \in 1 .. 1 : t[i + k - 1] = p[k]
  BY DEF Sits, Tokens
<1> QED BY <1>1 DEF KindAt

\* Tokens beside each other stand one after the other.
LEMMA SitsBeside ==
    ASSUME NEW t \in Tokens, NEW i, NEW p \in Tokens, NEW q \in Tokens, Sits(t, i, p \o q)
    PROVE  Sits(t, i, p) /\ Sits(t, i + Len(p), q) /\ i + Len(p \o q) = (i + Len(p)) + Len(q)
<1> DEFINE m == Len(p)
           n == Len(q)
           r == p \o q
<1>1. /\ Len(t) \in Nat /\ m \in Nat /\ n \in Nat /\ Len(r) = m + n
      /\ \A k \in 1 .. m : r[k] = p[k]
      /\ \A k \in 1 .. n : r[m + k] = q[k]
  BY DEF Tokens
<1>2. i \in 1 .. Len(t) + 1 /\ i + Len(r) \in 1 .. Len(t) + 1 /\ \A k \in 1 .. Len(r) : t[i + k - 1] = r[k]
  BY DEF Sits
<1> HIDE DEF m, n, r
<1>3. i + m \in 1 .. Len(t) + 1 /\ i + Len(r) = (i + m) + n
  BY <1>1, <1>2
<1>4. \A k \in 1 .. m : t[i + k - 1] = p[k]
  <2> TAKE k \in 1 .. m
  <2> QED BY <1>1, <1>2
<1>5. \A k \in 1 .. n : t[(i + m) + k - 1] = q[k]
  <2> TAKE k \in 1 .. n
  <2>1. m + k \in 1 .. Len(r) /\ i + (m + k) - 1 = (i + m) + k - 1
    BY <1>1, <1>2
  <2> QED BY <2>1, <1>1, <1>2
<1> QED BY <1>2, <1>3, <1>4, <1>5 DEF Sits, m, n, r

\* Tokens put together stand one after the other, with a position between each
\* two of them.
LEMMA SitsFlat ==
    ASSUME NEW t \in Tokens, NEW i, NEW s \in Seq(Tokens), Sits(t, i, FlattenSeq(s))
    PROVE  \E x \in [0 .. Len(s) -> 1 .. Len(t) + 1] :
             /\ x[0] = i /\ x[Len(s)] = i + Len(FlattenSeq(s))
             /\ \A m \in 1 .. Len(s) : Sits(t, x[m - 1], s[m]) /\ x[m] = x[m - 1] + Len(s[m])
<1> DEFINE n == Len(s)
<1>1. n \in Nat /\ \A m \in 1 .. n : s[m] \in Tokens
  OBVIOUS
<1>2. PICK g \in [0 .. n -> Tokens] : /\ g[0] = <<>> /\ \A m \in 1 .. n : g[m] = g[m - 1] \o s[m]
                                      /\ FlattenSeq(s) = g[n]
  BY Flat DEF Tokens
<1> DEFINE Good == {k \in 0 .. n : Sits(t, i, g[n - k])}
<1>3. 0 \in Good
  BY <1>1, <1>2
<1>4. ASSUME NEW k \in 1 .. n, k - 1 \in Good PROVE k \in Good
  <2>1. n - (k - 1) \in 1 .. n /\ n - (k - 1) - 1 = n - k /\ n - k \in 0 .. n /\ k \in 0 .. n
    BY <1>1
  <2> DEFINE m == n - (k - 1)
  <2>2. m \in 1 .. n /\ m - 1 = n - k /\ Sits(t, i, g[m])
    BY <2>1, <1>4
  <2> HIDE DEF m
  <2>3. g[m] = g[m - 1] \o s[m] /\ g[m - 1] \in Tokens /\ s[m] \in Tokens
    BY <1>1, <1>2, <2>1, <2>2
  <2>4. Sits(t, i, g[m - 1])
    BY <2>2, <2>3, SitsBeside
  <2> QED BY <2>1, <2>2, <2>4
<1> HIDE DEF Good
<1>5. \A k \in 0 .. n : k \in Good
  BY <1>1, <1>3, <1>4, Ascent
<1>6. \A m \in 0 .. n : Sits(t, i, g[m])
  <2> TAKE m \in 0 .. n
  <2>1. n - m \in 0 .. n /\ n - (n - m) = m
    BY <1>1
  <2>2. n - m \in Good
    BY <2>1, <1>5
  <2> QED BY <2>1, <2>2 DEF Good
<1> DEFINE x == [m \in 0 .. n |-> i + Len(g[m])]
<1>7. x \in [0 .. n -> 1 .. Len(t) + 1]
  BY <1>6 DEF Sits
<1>8. x[0] = i /\ x[n] = i + Len(g[n])
  BY <1>1, <1>2 DEF Sits
<1>9. ASSUME NEW m \in 1 .. n PROVE Sits(t, x[m - 1], s[m]) /\ x[m] = x[m - 1] + Len(s[m])
  <2>1. m \in 0 .. n /\ m - 1 \in 0 .. n /\ s[m] \in Tokens
    BY <1>1
  <2>2. g[m] = g[m - 1] \o s[m] /\ g[m - 1] \in Tokens /\ Sits(t, i, g[m])
    BY <2>1, <1>2, <1>6
  <2>3. Sits(t, i + Len(g[m - 1]), s[m]) /\ i + Len(g[m]) = (i + Len(g[m - 1])) + Len(s[m])
    <3> DEFINE a == g[m - 1]
               b == s[m]
    <3>1. a \in Tokens /\ b \in Tokens /\ Sits(t, i, a \o b)
      BY <2>1, <2>2
    <3> HIDE DEF x, a, b
    <3>2. Sits(t, i + Len(a), b) /\ i + Len(a \o b) = (i + Len(a)) + Len(b)
      BY <3>1, SitsBeside
    <3> QED BY <3>2, <2>2 DEF a, b
  <2> QED BY <2>1, <2>3
<1> HIDE DEF x
<1> QED BY <1>2, <1>7, <1>8, <1>9

\* A loop that takes one part after the other takes them all.
LEMMA Chain ==
    ASSUME NEW S, NEW v \in Seq(S), NEW rest \in Seq(S), NEW at,
           NEW y, y[Len(v)] = Ok(at, rest), \A m \in 1 .. Len(v) : y[m].ok => y[m - 1] = Prepend(v[m], y[m])
    PROVE  y[0] = Ok(at, v \o rest)
<1> DEFINE n == Len(v)
           u(m) == SubSeq(v, m + 1, n) \o rest
           Good == {k \in 0 .. n : y[n - k] = Ok(at, u(n - k))}
<1>1. n \in Nat /\ \A m \in 1 .. n : v[m] \in S
  OBVIOUS
<1>2. 0 \in Good
  <2>2. u(n) = rest
    BY <1>1
  <2> HIDE DEF u
  <2> QED BY <2>2, <1>1
<1>3. ASSUME NEW m \in 1 .. n PROVE u(m - 1) = <<v[m]>> \o u(m)
  <2> DEFINE b == SubSeq(v, m + 1, n)
  <2>1. SubSeq(v, m, n) = <<v[m]>> \o b
    BY <1>1, SubSeqRecursiveFirst
  <2>2. b \in Seq(S)
    BY <1>1, PartIs
  <2>3. u(m - 1) = SubSeq(v, m, n) \o rest /\ u(m) = b \o rest
    BY <1>1
  <2> HIDE DEF b, u, n
  <2>4. (<<v[m]>> \o b) \o rest = <<v[m]>> \o (b \o rest)
    BY <1>1, <2>2, ConcatAssociative
  <2> QED BY <2>1, <2>3, <2>4
<1>4. ASSUME NEW k \in 1 .. n, k - 1 \in Good PROVE k \in Good
  <2> DEFINE m == n - (k - 1)
  <2>1. m \in 1 .. n /\ m - 1 = n - k /\ k \in 0 .. n
    BY <1>1
  <2>2. y[m] = Ok(at, u(m))
    BY <1>4
  <2> HIDE DEF m, u
  <2>3. y[m - 1] = Prepend(v[m], Ok(at, u(m)))
    BY <2>1, <2>2 DEF Ok
  <2>4. y[m - 1] = Ok(at, <<v[m]>> \o u(m))
    BY <2>3 DEF Prepend, Ok
  <2> QED BY <2>1, <2>4, <1>3
<1> HIDE DEF Good
<1>5. n \in Good
  <2>1. \A k \in 0 .. n : k \in Good
    BY <1>1, <1>2, <1>4, Ascent
  <2> QED BY <2>1, <1>1
<1>6. y[0] = Ok(at, u(0))
  BY <1>5, <1>1 DEF Good
<1>7. u(0) = v \o rest
  <2>1. SubSeq(v, 0 + 1, n) = v
    BY <1>1
  <2> QED BY <2>1
<1> QED BY <1>6, <1>7

\* After stops where there is nothing to skip.
LEMMA AfterStops ==
    ASSUME NEW t \in Tokens, NEW i \in 1 .. Len(t) + 1, NEW Ks, "nothing" \notin Ks, KindAt(t, i) \notin Ks
    PROVE  After(t, i, Ks) = i
<1> DEFINE j == After(t, i, Ks)
<1>1. j \in i .. Len(t) + 1 /\ \A k \in i .. j - 1 : t[k].kind \in Ks
  BY AfterIs
<1> HIDE DEF j
<1>2. Len(t) \in Nat
  BY DEF Tokens
<1>4. j # i => KindAt(t, i) \in Ks
  BY <1>1, <1>2 DEF KindAt
<1> QED BY <1>4 DEF j

\* After goes on over what it skips.
LEMMA AfterSkips ==
    ASSUME NEW t \in Tokens, NEW i \in 1 .. Len(t) + 1, NEW Ks, "nothing" \notin Ks, KindAt(t, i) \in Ks
    PROVE  i + 1 \in 1 .. Len(t) + 1 /\ After(t, i, Ks) = After(t, i + 1, Ks)
<1> DEFINE j == After(t, i, Ks)
           l == After(t, i + 1, Ks)
<1>1. i \in 1 .. Len(t) /\ i + 1 \in 1 .. Len(t) + 1
  BY KindIs
<1>2. j \in i .. Len(t) + 1 /\ (\A k \in i .. j - 1 : t[k].kind \in Ks) /\ KindAt(t, j) \notin Ks
  BY AfterIs
<1>3. l \in i + 1 .. Len(t) + 1 /\ (\A k \in i + 1 .. l - 1 : t[k].kind \in Ks) /\ KindAt(t, l) \notin Ks
  BY <1>1, AfterIs
<1> HIDE DEF j, l
<1>4. Len(t) \in Nat /\ j # i
  BY <1>2 DEF Tokens
<1>5. ~ (j < l)
  <2>1. SUFFICES ASSUME j < l PROVE FALSE
    OBVIOUS
  <2>2. j \in i + 1 .. l - 1 /\ j <= Len(t)
    BY <1>2, <1>3, <1>4, <2>1
  <2> QED BY <1>2, <1>3, <2>2 DEF KindAt
<1>6. ~ (l < j)
  <2>1. SUFFICES ASSUME l < j PROVE FALSE
    OBVIOUS
  <2>2. l \in i .. j - 1 /\ l <= Len(t)
    BY <1>2, <1>3, <1>4, <2>1
  <2> QED BY <1>2, <1>3, <2>2 DEF KindAt
<1>7. j = l
  BY <1>2, <1>3, <1>4, <1>5, <1>6
<1> QED BY <1>1, <1>7 DEF j, l

\* The length of a sequence is told by its domain.
LEMMA LenIs ==
    ASSUME NEW S, NEW s \in Seq(S), NEW n \in Nat, DOMAIN s = 1 .. n
    PROVE  Len(s) = n
<1> DEFINE k == Len(s)
<1>1. 1 .. k = 1 .. n /\ k \in Nat
  OBVIOUS
<1> HIDE DEF k
<1>2. ~ (k < n)
  BY <1>1
<1>3. ~ (n < k)
  BY <1>1
<1> QED BY <1>1, <1>2, <1>3 DEF k

\* Tokens of one kind: a mark, a word, the end of a line, an indentation.
LEMMA OneToken ==
    /\ \A kind : Len(Mark(kind)) = 1 /\ Mark(kind)[1].kind = kind
    /\ \A name : Len(Word(name)) = 1 /\ Word(name)[1].kind = "Identifier" /\ Word(name)[1].slice = name
    /\ Len(LineEnd) = 1 /\ LineEnd[1].kind = "Newline"
    /\ \A n \in Nat : Len(Indent(n)) = 1 /\ Indent(n)[1].kind = "Indent" /\ Len(Indent(n)[1].slice) = 4 * n
<1>1. \A kind : Len(Mark(kind)) = 1 /\ Mark(kind)[1].kind = kind
  BY DEF Mark, Token
<1>3. Len(LineEnd) = 1 /\ LineEnd[1].kind = "Newline"
  BY DEF LineEnd, Token
<1>4. ASSUME NEW n \in Nat PROVE Len(Indent(n)) = 1 /\ Indent(n)[1].kind = "Indent" /\ Len(Indent(n)[1].slice) = 4 * n
  <2> DEFINE m == 4 * n
             s == [i \in 1 .. m |-> " "]
  <2>1. m \in Nat /\ Indent(n) = <<Token("Indent", s)>>
    BY DEF Indent
  <2> HIDE DEF m
  <2>2. Len(s) = m
    <3>1. DOMAIN s = 1 .. m /\ s = [i \in 1 .. m |-> s[i]] /\ \A i \in 1 .. m : s[i] \in Symbol
      BY SymbolAssumption
    <3> HIDE DEF s
    <3> QED BY <2>1, <3>1, SeqIs, LenIs
  <2> HIDE DEF s
  <2> QED BY <2>2, <2>1 DEF Token, m
<1> QED BY <1>1, <1>3, <1>4 DEF Word, Token

\* The gap before a line is none, or another end of line.
LEMMA Opens ==
    ASSUME NEW layout \in Layouts, layout.gap # "spaces", NEW n \in Nat
    PROVE  /\ LineEnd \o Gap(layout) \o Indent(n) \in Tokens
           /\ \/ LineEnd \o Gap(layout) \o Indent(n) = LineEnd \o Indent(n)
              \/ LineEnd \o Gap(layout) \o Indent(n) = LineEnd \o (LineEnd \o Indent(n))
<1>1. LineEnd \in Tokens /\ Indent(n) \in Tokens /\ Gap(layout) \in Tokens
  BY MarkIs, IndentIs, GapIs
<1>3. Gap(layout) = <<>> \/ Gap(layout) = LineEnd
  BY DEF Gap, Layouts
<1>4. LineEnd \o <<>> = LineEnd
  BY <1>1 DEF Tokens
<1>5. (LineEnd \o LineEnd) \o Indent(n) = LineEnd \o (LineEnd \o Indent(n))
  BY <1>1, ConcatAssociative DEF Tokens
<1>7. LineEnd \o Gap(layout) \o Indent(n) \in Tokens
  BY <1>1, Beside
<1> QED BY <1>3, <1>4, <1>5, <1>7

\* What opens a line is skipped as one, and its indentation is seen.
LEMMA LineIs ==
    ASSUME NEW t \in Tokens, NEW i, NEW layout \in Layouts, layout.gap # "spaces", NEW n \in Nat,
           Sits(t, i, Opened(layout, n)), KindAt(t, i + Len(Opened(layout, n))) # "Indent"
    PROVE  /\ KindAt(t, i) = "Newline"
           /\ Width(t, After(t, i, {"Newline"})) = 4 * n
           /\ After(t, After(t, i, {"Newline"}), {"Indent"}) = i + Len(Opened(layout, n))
<1> DEFINE p == Opened(layout, n)
           at == i + Len(p)
<1>0. p = LineEnd \o Gap(layout) \o Indent(n) /\ Sits(t, i, p) /\ at = i + Len(p) /\ KindAt(t, at) # "Indent"
  BY DEF Opened
<1> HIDE DEF at, p
<1> SUFFICES /\ KindAt(t, i) = "Newline"
             /\ Width(t, After(t, i, {"Newline"})) = 4 * n
             /\ After(t, After(t, i, {"Newline"}), {"Indent"}) = at
  BY DEF at, p
<1> USE <1>0
<1> DEFINE one == LineEnd \o Indent(n)
<1>1. LineEnd \in Tokens /\ Indent(n) \in Tokens /\ one \in Tokens
  BY MarkIs, IndentIs, Beside
<1>a. Len(t) \in Nat /\ Len(LineEnd) = 1 /\ LineEnd[1].kind = "Newline" /\ Len(Indent(n)) = 1
  BY OneToken DEF Tokens
<1>2. ASSUME NEW j, Sits(t, j, one), j + Len(one) = at
      PROVE  /\ KindAt(t, j) = "Newline" /\ j \in 1 .. Len(t) + 1
             /\ Width(t, After(t, j, {"Newline"})) = 4 * n
             /\ After(t, After(t, j, {"Newline"}), {"Indent"}) = at
  <2>1. Sits(t, j, LineEnd) /\ Sits(t, j + 1, Indent(n)) /\ at = (j + 1) + 1
    <3>1. /\ Sits(t, j, LineEnd) /\ Sits(t, j + Len(LineEnd), Indent(n))
          /\ j + Len(one) = (j + Len(LineEnd)) + Len(Indent(n))
      BY <1>1, <1>2, SitsBeside
    <3> QED BY <3>1, <1>a, <1>2
  <2> HIDE DEF one
  <2>2. KindAt(t, j) = "Newline" /\ j \in 1 .. Len(t) + 1 /\ j + 1 \in 1 .. Len(t) + 1
    BY <2>1, <1>a, SitsOne
  <2>3. /\ KindAt(t, j + 1) = "Indent" /\ t[j + 1] = Indent(n)[1] /\ at \in 1 .. Len(t) + 1
    <3>1. Indent(n)[1].kind = "Indent"
      BY OneToken
    <3> QED BY <3>1, <2>1, <1>a, SitsOne
  <2>4. After(t, j, {"Newline"}) = j + 1
    <3>2. After(t, j + 1, {"Newline"}) = j + 1
      BY <2>2, <2>3, AfterStops
    <3> QED BY <2>2, AfterSkips, <3>2
  <2>5. Width(t, j + 1) = 4 * n
    BY <2>3, OneToken DEF Width
  <2>6. After(t, j + 1, {"Indent"}) = at
    <3>2. After(t, at, {"Indent"}) = at
      BY <2>3, AfterStops
    <3> QED BY <2>1, <2>2, <2>3, AfterSkips, <3>2
  <2> QED BY <2>2, <2>4, <2>5, <2>6
<1>3. CASE p = one
  BY <1>3, <1>2
<1>4. CASE p = LineEnd \o one
  <2>1. Sits(t, i, LineEnd) /\ Sits(t, i + 1, one) /\ at = (i + 1) + Len(one)
    <3> HIDE DEF one
    <3>1. Sits(t, i, LineEnd \o one)
      BY <1>4
    <3>2. /\ Sits(t, i, LineEnd) /\ Sits(t, i + Len(LineEnd), one)
          /\ i + Len(LineEnd \o one) = (i + Len(LineEnd)) + Len(one)
      BY <1>1, <3>1, SitsBeside
    <3> QED BY <3>2, <1>a, <1>4
  <2>2. KindAt(t, i) = "Newline" /\ i \in 1 .. Len(t) + 1
    BY <2>1, <1>a, SitsOne
  <2> HIDE DEF one
  <2>3. After(t, i, {"Newline"}) = After(t, i + 1, {"Newline"})
    BY <2>2, AfterSkips
  <2> QED BY <2>1, <2>2, <2>3, <1>2
<1> QED BY <1>3, <1>4, Opens

-----------------------------------------------------------------------------
(* Expressions and calls, read                                             *)

\* Quotes are taken away again.
LEMMA UnquotedIs ==
    ASSUME NEW c \in Symbol, NEW s \in Texts
    PROVE  Unquoted(<<c>> \o s \o <<c>>) = s
<1> DEFINE a == <<c>> \o s
           q == a \o <<c>>
           n == Len(s)
<1>1. n \in Nat /\ s \in Seq(Symbol) /\ <<c>> \in Seq(Symbol)
  BY DEF Texts
<1>2. a \in Seq(Symbol) /\ Len(a) = n + 1 /\ \A i \in 1 .. n : a[i + 1] = s[i]
  BY <1>1
<1>3. q \in Seq(Symbol) /\ Len(q) = n + 2 /\ \A i \in 1 .. n + 1 : q[i] = a[i]
  <2> HIDE DEF a
  <2> QED BY <1>1, <1>2
<1> HIDE DEF a, q
<1> DEFINE u == SubSeq(q, 2, n + 1)
<1>4. u \in Seq(Symbol) /\ Len(u) = n /\ \A i \in 1 .. n : u[i] = q[i + 1]
  <2>2. /\ u \in Seq(Symbol) /\ Len(u) = (IF 2 <= n + 1 THEN (n + 1) - 2 + 1 ELSE 0)
        /\ \A i \in 1 .. Len(u) : u[i] = q[2 + i - 1]
    BY <1>1, <1>3, PartIs
  <2> HIDE DEF u, n
  <2> QED BY <2>2, <1>1
<1> HIDE DEF u
<1>5. \A i \in 1 .. n : u[i] = s[i]
  <2> TAKE i \in 1 .. n
  <2> QED BY <1>1, <1>2, <1>3, <1>4
<1>6. u = s
  BY <1>1, <1>4, <1>5, SeqEqual
<1>7. Unquoted(q) = u
  BY <1>1, <1>3 DEF Unquoted, u
<1> QED BY <1>6, <1>7 DEF q, a

\* An expression is one token, and read as what it was.
LEMMA ExprRead ==
    ASSUME NEW t \in Tokens, NEW i, NEW e \in AnyExpr, Sits(t, i, ExprTokens(e))
    PROVE  Len(ExprTokens(e)) = 1 /\ KindAt(t, i) \in ExprKinds /\ ExprOf(t[i]) = e
<1>1. /\ e.val \in Texts /\ e.kind \in {"String", "Regex", "Number", "Variable", "Capture", "CaptureName"}
      /\ e = Expr(e.kind, e.val)
  BY DEF AnyExpr, Expr
<1> DEFINE Reads(tok) == ExprTokens(e) = <<tok>> /\ tok.kind \in ExprKinds /\ ExprOf(tok) = e
<1>2. \E tok : Reads(tok)
  <2>1. CASE e.kind \in {"String", "Regex"}
    <3> DEFINE c == IF e.kind = "String" THEN "'" ELSE "/"
               s == <<c>> \o e.val \o <<c>>
               tok == Token(e.kind, s)
    <3>1. c \in Symbol
      BY SymbolAssumption
    <3>2. ExprTokens(e) = <<tok>>
      BY <2>1 DEF ExprTokens
    <3> HIDE DEF c
    <3>3. Unquoted(s) = e.val
      BY <3>1, <1>1, UnquotedIs
    <3> HIDE DEF s
    <3>4. ExprOf(tok) = e /\ tok.kind \in ExprKinds
      BY <2>1, <3>3, <1>1 DEF ExprOf, Token, ExprKinds
    <3> HIDE DEF tok
    <3> QED BY <3>2, <3>4
  <2>2. CASE e.kind = "Number"
    <3> DEFINE tok == Token("Number", e.val)
    <3>1. Canonical(e.val) = e.val
      BY <2>2 DEF AnyExpr
    <3>2. ExprTokens(e) = <<tok>>
      BY <2>2 DEF ExprTokens
    <3>3. ExprOf(tok) = e /\ tok.kind \in ExprKinds
      BY <2>2, <3>1, <1>1 DEF ExprOf, Token, ExprKinds
    <3> HIDE DEF tok
    <3> QED BY <3>2, <3>3
  <2>3. CASE e.kind = "Variable"
    <3> DEFINE tok == Token("Identifier", e.val)
    <3>1. ExprTokens(e) = <<tok>>
      BY <2>3 DEF ExprTokens, Word
    <3>2. ExprOf(tok) = e /\ tok.kind \in ExprKinds
      BY <2>3, <1>1 DEF ExprOf, Token, ExprKinds
    <3> HIDE DEF tok
    <3> QED BY <3>1, <3>2
  <2>4. CASE e.kind \in {"Capture", "CaptureName"}
    <3> DEFINE s == <<"$">> \o e.val
               tok == Token("Capture", s)
    <3>1. ExprTokens(e) = <<tok>>
      BY <2>4 DEF ExprTokens
    <3>2. Tail(s) = e.val
      <4>1. "$" \in Symbol /\ e.val \in Seq(Symbol)
        BY <1>1, SymbolAssumption DEF Texts
      <4> QED BY <4>1
    <3>3. e.kind = "Capture" <=> AllDigits(e.val)
      BY <2>4 DEF AnyExpr
    <3> HIDE DEF s
    <3>4. ExprOf(tok) = e /\ tok.kind \in ExprKinds
      BY <2>4, <3>2, <3>3, <1>1 DEF ExprOf, Token, ExprKinds
    <3> HIDE DEF tok
    <3> QED BY <3>1, <3>4
  <2> QED BY <1>1, <2>1, <2>2, <2>3, <2>4
<1>3. PICK tok : Reads(tok)
  BY <1>2
<1> QED BY <1>3, SitsOne

\* What is an expression is no space, and neither is another mark.
LEMMA NoSpace ==
    ASSUME NEW t \in Tokens, NEW i \in 1 .. Len(t) + 1, KindAt(t, i) \notin {"Newline", "Indent"}
    PROVE  AfterSpace(t, i) = i
BY AfterStops DEF AfterSpace

\* A list of expressions is read up to what is none.
LEMMA ListRead ==
    ASSUME NEW t \in Tokens, NEW i, NEW list \in AnyList, Sits(t, i, ListTokens(list)),
           NEW at, at = AfterSpace(t, i + Len(ListTokens(list))), KindAt(t, at) \notin ExprKinds
    PROVE  Expressions(t, i) = Ok(at, list)
<1> DEFINE n == Len(list)
           s == [m \in DOMAIN list |-> ExprTokens(list[m])]
<1>1. list \in Seq(AnyExpr) /\ list # <<>> /\ n \in Nat /\ DOMAIN list = 1 .. n /\ \A m \in 1 .. n : list[m] \in AnyExpr
  BY DEF AnyList
<1>2. s \in Seq(Tokens) /\ Len(s) = n /\ \A m \in 1 .. n : s[m] = ExprTokens(list[m])
  BY <1>1, ExprTokensIs
<1>3. ListTokens(list) = FlattenSeq(s)
  BY DEF ListTokens
<1> HIDE DEF s
<1>4. PICK x \in [0 .. n -> 1 .. Len(t) + 1] :
        /\ x[0] = i /\ x[n] = i + Len(ListTokens(list))
        /\ \A m \in 1 .. n : Sits(t, x[m - 1], s[m]) /\ x[m] = x[m - 1] + Len(s[m])
  BY <1>2, <1>3, SitsFlat
<1>5. PICK f : /\ \A j \in 1 .. Len(t) + 1 :
                    f[j] = IF KindAt(t, AfterSpace(t, j)) \in ExprKinds
                           THEN Prepend(ExprOf(t[AfterSpace(t, j)]), f[AfterSpace(t, j) + 1])
                           ELSE Ok(AfterSpace(t, j), <<>>)
               /\ Expressions(t, i) = Nonempty(f[i])
  <2> HIDE DEF Prepend, n
  <2> QED BY ExpressionsUnfold
<1> DEFINE y == [m \in 0 .. n |-> f[x[m]]]
<1>6. ASSUME NEW m \in 1 .. n PROVE y[m - 1] = Prepend(list[m], y[m])
  <2>1. m \in 0 .. n /\ m - 1 \in 0 .. n /\ x[m - 1] \in 1 .. Len(t) + 1 /\ list[m] \in AnyExpr
    BY <1>1
  <2>2. Sits(t, x[m - 1], ExprTokens(list[m])) /\ x[m] = x[m - 1] + Len(ExprTokens(list[m]))
    BY <1>2, <1>4
  <2>3. KindAt(t, x[m - 1]) \in ExprKinds /\ ExprOf(t[x[m - 1]]) = list[m] /\ x[m] = x[m - 1] + 1
    BY <2>1, <2>2, ExprRead
  <2>5. f[x[m - 1]] = Prepend(list[m], f[x[m]])
    BY <1>5, <2>1, <2>3, NoSpace DEF ExprKinds
  <2> QED BY <2>1, <2>5
<1>7. y[n] = Ok(at, <<>>)
  <2>1. n \in 0 .. n /\ x[n] \in 1 .. Len(t) + 1 /\ AfterSpace(t, x[n]) = at
    BY <1>1, <1>4
  <2> QED BY <2>1, <1>5
<1>8. y[0] = f[i]
  BY <1>1, <1>4
<1> HIDE DEF y
<1>9. y[0] = Ok(at, list \o <<>>)
  <2>1. <<>> \in Seq(AnyExpr)
    OBVIOUS
  <2> QED BY <1>1, <1>6, <1>7, <2>1, Chain
<1>10. list \o <<>> = list
  BY <1>1, ConcatEmptySeq
<1> QED BY <1>1, <1>5, <1>8, <1>9, <1>10 DEF Nonempty, Ok

\* A call is read up to its end, if no arguments follow that are not its own.
LEMMA CallRead ==
    ASSUME NEW t \in Tokens, NEW i, NEW call \in AnyCall, Sits(t, i, CallTokens(call)),
           NEW at, at = i + Len(CallTokens(call)), KindAt(t, at) # "LeftParen"
    PROVE  KindAt(t, i) = "Identifier" /\ at \in 1 .. Len(t) + 1 /\ FunctionCall(t, i) = Ok(at, call)
<1> DEFINE a == call.args
           n == Len(a)
           s == [m \in DOMAIN a |-> (IF m = 1 THEN <<>> ELSE Mark("Comma")) \o ExprTokens(a[m])]
           Args == (Mark("LeftParen") \o FlattenSeq(s)) \o Mark("RightParen")
           Rest == IF a = <<>> THEN <<>> ELSE Args
<1>1. /\ call.name \in Texts /\ a \in Seq(AnyExpr) /\ n \in Nat /\ DOMAIN a = 1 .. n
      /\ \A m \in 1 .. n : a[m] \in AnyExpr
      /\ call = Call(call.name, a)
  BY DEF AnyCall, Call
<1>2. PICK f : /\ \A j \in 1 .. Len(t) + 1 :
                    f[j] = IF KindAt(t, j) \in ExprKinds
                           THEN Prepend(ExprOf(t[j]), f[IF KindAt(t, j + 1) = "Comma" THEN j + 2 ELSE j + 1])
                           ELSE Ok(j, <<>>)
               /\ FunctionCall(t, i) =
                    IF KindAt(t, i) # "Identifier" THEN Fail
                    ELSE IF KindAt(t, i + 1) # "LeftParen" THEN Ok(i + 1, Call(t[i].slice, <<>>))
                    ELSE IF f[i + 2].ok
                    THEN IF KindAt(t, f[i + 2].at) = "RightParen"
                         THEN Ok(f[i + 2].at + 1, Call(t[i].slice, f[i + 2].val)) ELSE Fail
                    ELSE Fail
  <2> HIDE DEF Prepend, n, a
  <2> QED BY ArgsUnfold
<1>3. s \in Seq(Tokens) /\ Len(s) = n
      /\ \A m \in 1 .. n : s[m] = (IF m = 1 THEN <<>> ELSE Mark("Comma")) \o ExprTokens(a[m])
  <2>1. ASSUME NEW m \in 1 .. n PROVE s[m] \in Tokens
    <3>1. ExprTokens(a[m]) \in Tokens
      BY <1>1, ExprTokensIs
    <3>2. (IF m = 1 THEN <<>> ELSE Mark("Comma")) \in Tokens
      BY MarkIs DEF Tokens
    <3> QED BY <3>1, <3>2, Beside, <1>1
  <2>2. s = [m \in 1 .. n |-> s[m]] /\ DOMAIN s = 1 .. n
    BY <1>1
  <2>3. \A m \in 1 .. n : s[m] = (IF m = 1 THEN <<>> ELSE Mark("Comma")) \o ExprTokens(a[m])
    BY <1>1
  <2> HIDE DEF s
  <2>4. s \in Seq(Tokens)
    BY <1>1, <2>1, <2>2, SeqIs
  <2>5. Len(s) = n
    <3> HIDE DEF n
    <3> QED BY <1>1, <2>2, <2>4, LenIs
  <2> QED BY <2>3, <2>4, <2>5
<1>4. CallTokens(call) = Word(call.name) \o Rest
  BY DEF CallTokens
<1> HIDE DEF s
<1>5. /\ Word(call.name) \in Tokens /\ Mark("LeftParen") \in Tokens /\ Mark("RightParen") \in Tokens
      /\ Mark("LeftParen") \o FlattenSeq(s) \in Tokens /\ FlattenSeq(s) \in Tokens /\ Rest \in Tokens
  <2>1. Word(call.name) \in Tokens /\ Mark("LeftParen") \in Tokens /\ Mark("RightParen") \in Tokens /\ <<>> \in Tokens
    BY <1>1, MarkIs DEF Tokens
  <2>2. FlattenSeq(s) \in Tokens
    BY <1>3, FlatIs DEF Tokens
  <2>3. Mark("LeftParen") \o FlattenSeq(s) \in Tokens
    BY <2>1, <2>2, Beside
  <2> QED BY <2>1, <2>2, <2>3, Beside
<1>6. Sits(t, i, Word(call.name)) /\ Sits(t, i + 1, Rest) /\ at = (i + 1) + Len(Rest)
  <2> HIDE DEF Rest
  <2>1. Sits(t, i, Word(call.name) \o Rest)
    BY <1>4
  <2>2. /\ Sits(t, i, Word(call.name)) /\ Sits(t, i + Len(Word(call.name)), Rest)
        /\ i + Len(Word(call.name) \o Rest) = (i + Len(Word(call.name))) + Len(Rest)
    BY <1>5, <2>1, SitsBeside
  <2>3. Len(Word(call.name)) = 1
    BY OneToken
  <2> QED BY <2>2, <2>3, <1>4
<1>7. /\ KindAt(t, i) = "Identifier" /\ t[i].slice = call.name /\ Len(t) \in Nat
      /\ i \in 1 .. Len(t) /\ i + 1 \in 1 .. Len(t) + 1 /\ at \in 1 .. Len(t) + 1
  <2>1. Len(Word(call.name)) = 1 /\ Word(call.name)[1].kind = "Identifier" /\ Word(call.name)[1].slice = call.name
    BY OneToken
  <2>2. at \in 1 .. Len(t) + 1 /\ Len(t) \in Nat
    BY DEF Sits, Tokens
  <2> QED BY <1>6, <2>1, <2>2, SitsOne
<1>8. CASE a = <<>>
  <2>1. at = i + 1
    <3>1. Rest = <<>> /\ Len(<<>>) = 0
      BY <1>8
    <3> HIDE DEF Rest
    <3> QED BY <3>1, <1>6, <1>7
  <2> QED BY <2>1, <1>1, <1>2, <1>7, <1>8
<1>9. CASE a # <<>>
  <2>1. Sits(t, i + 1, Args) /\ at = (i + 1) + Len(Args) /\ n # 0
    BY <1>9, <1>6, <1>1
  <2>2. /\ Sits(t, i + 1, Mark("LeftParen")) /\ Sits(t, i + 2, FlattenSeq(s))
        /\ Sits(t, (i + 2) + Len(FlattenSeq(s)), Mark("RightParen")) /\ at = ((i + 2) + Len(FlattenSeq(s))) + 1
    <3> DEFINE lp == Mark("LeftParen")
               rp == Mark("RightParen")
               fs == FlattenSeq(s)
               b == lp \o fs
    <3>1. Len(lp) = 1 /\ Len(rp) = 1
      BY OneToken
    <3>2. lp \in Tokens /\ rp \in Tokens /\ fs \in Tokens /\ b \in Tokens /\ Sits(t, i + 1, b \o rp) /\ at = (i + 1) + Len(b \o rp)
      BY <1>5, <2>1
    <3> HIDE DEF lp, rp, fs
    <3>3. Sits(t, i + 1, lp) /\ Sits(t, (i + 1) + Len(lp), fs) /\ (i + 1) + Len(b) = ((i + 1) + Len(lp)) + Len(fs)
      BY <3>2, SitsBeside
    <3> HIDE DEF b
    <3>4. Sits(t, (i + 1) + Len(b), rp) /\ at = ((i + 1) + Len(b)) + Len(rp)
      BY <3>2, SitsBeside
    <3>5. (i + 1) + Len(lp) = i + 2
      BY <3>1, <1>7
    <3> QED BY <3>1, <3>3, <3>4, <3>5 DEF lp, rp, fs
  <2>3. PICK x \in [0 .. n -> 1 .. Len(t) + 1] :
          /\ x[0] = i + 2 /\ x[n] = (i + 2) + Len(FlattenSeq(s))
          /\ \A m \in 1 .. n : Sits(t, x[m - 1], s[m]) /\ x[m] = x[m - 1] + Len(s[m])
    BY <1>3, <2>2, SitsFlat
  <2>4. KindAt(t, i + 1) = "LeftParen" /\ KindAt(t, x[n]) = "RightParen" /\ at = x[n] + 1
    <3>1. Len(Mark("LeftParen")) = 1 /\ Mark("LeftParen")[1].kind = "LeftParen"
      BY OneToken
    <3>2. Len(Mark("RightParen")) = 1 /\ Mark("RightParen")[1].kind = "RightParen"
      BY OneToken
    <3> QED BY <3>1, <3>2, <2>2, <2>3, SitsOne
  <2> DEFINE q == [m \in 0 .. n |-> IF m = n THEN x[n] ELSE IF m = 0 THEN x[0] ELSE x[m] + 1]
             y == [m \in 0 .. n |-> f[q[m]]]
  \* The expression of the argument m stands at q[m - 1], and what follows it at x[m].
  <2>5. ASSUME NEW m \in 1 .. n
        PROVE  /\ q[m - 1] \in 1 .. Len(t) + 1 /\ KindAt(t, q[m - 1]) \in ExprKinds /\ ExprOf(t[q[m - 1]]) = a[m]
               /\ x[m] = q[m - 1] + 1
               /\ m > 1 => KindAt(t, x[m - 1]) = "Comma"
    <3>1. m - 1 \in 0 .. n /\ m - 1 # n /\ a[m] \in AnyExpr /\ x[m - 1] \in 1 .. Len(t) + 1
      BY <1>1
    <3>2. Sits(t, x[m - 1], s[m]) /\ x[m] = x[m - 1] + Len(s[m])
      BY <2>3
    <3>3. ExprTokens(a[m]) \in Tokens
      BY <3>1, ExprTokensIs
    <3>4. CASE m = 1
      <4>1. s[m] = ExprTokens(a[m])
        <5>1. s[m] = <<>> \o ExprTokens(a[m])
          BY <3>4, <1>3
        <5> QED BY <5>1, <3>3, ConcatEmptySeq DEF Tokens
      <4>2. q[m - 1] = x[m - 1]
        BY <3>4, <3>1
      <4>3. KindAt(t, x[m - 1]) \in ExprKinds /\ ExprOf(t[x[m - 1]]) = a[m] /\ Len(s[m]) = 1
        BY <3>1, <3>2, <4>1, ExprRead
      <4> QED BY <3>1, <3>2, <3>4, <4>2, <4>3
    <3>5. CASE m # 1
      <4> DEFINE c == Mark("Comma")
                 e == ExprTokens(a[m])
      <4>1. s[m] = c \o e /\ c \in Tokens /\ Len(c) = 1 /\ c[1].kind = "Comma"
        BY <3>5, <1>3, MarkIs, OneToken
      <4>2. q[m - 1] = x[m - 1] + 1
        BY <3>5, <3>1
      <4> HIDE DEF c, q
      <4>3. Sits(t, x[m - 1], c) /\ Sits(t, x[m - 1] + 1, e) /\ x[m] = (x[m - 1] + 1) + Len(e)
        <5> DEFINE w == x[m - 1]
        <5>0. /\ c \in Tokens /\ e \in Tokens
              /\ Sits(t, w, c \o e) /\ x[m] = w + Len(c \o e)
          BY <3>2, <3>3, <4>1
        <5> HIDE DEF e, w
        <5>2. Len(c) = 1
          BY <4>1
        <5>3. Sits(t, w, c) /\ Sits(t, w + 1, e) /\ x[m] = (w + 1) + Len(e)
          BY <5>0, SitsBeside, <5>2
        <5> QED BY <5>3 DEF w
      <4>4. KindAt(t, x[m - 1]) = "Comma" /\ x[m - 1] + 1 \in 1 .. Len(t) + 1
        BY <4>1, <4>3, SitsOne
      <4> QED BY <4>2, <4>3, <4>4, <3>1, ExprRead
    <3> QED BY <3>4, <3>5
  <2>6. ASSUME NEW m \in 1 .. n PROVE y[m - 1] = Prepend(a[m], y[m])
    <3>1. m \in 0 .. n /\ m - 1 \in 0 .. n
      BY <1>1
    <3> DEFINE j == q[m - 1]
               k == IF KindAt(t, j + 1) = "Comma" THEN j + 2 ELSE j + 1
    <3>2. f[j] = Prepend(a[m], f[k])
      <4> HIDE DEF q
      <4> QED BY <1>2, <2>5, ZenonT(40)
    <3>3. k = q[m]
      <4>1. CASE m = n
        <5>1. q[m] = x[n] /\ KindAt(t, x[m]) # "Comma"
          BY <4>1, <3>1, <2>4
        <5> HIDE DEF q
        <5> QED BY <5>1, <4>1, <2>5
      <4>2. CASE m # n
        <5>1. q[m] = x[m] + 1
          BY <4>2, <3>1, <1>1
        <5>2. m + 1 \in 1 .. n /\ (m + 1) - 1 = m /\ m + 1 > 1
          BY <4>2, <1>1
        <5>3. KindAt(t, x[m]) = "Comma"
          <6> HIDE DEF q
          <6> QED BY <5>2, <2>5
        <5> HIDE DEF q
        <5>4. x[m] = j + 1 /\ j \in Nat
          BY <2>5
        <5> QED BY <5>1, <5>3, <5>4
      <4> QED BY <4>1, <4>2
    <3> HIDE DEF q, k
    <3>4. y[m] = f[q[m]] /\ y[m - 1] = f[j]
      BY <3>1
    <3> HIDE DEF y, j
    <3> QED BY <3>2, <3>3, <3>4
  <2>7. y[n] = Ok(x[n], <<>>) /\ y[0] = f[i + 2]
    <3>1. n \in 0 .. n /\ 0 \in 0 .. n /\ x[n] \in 1 .. Len(t) + 1
      BY <1>1
    <3>2. q[n] = x[n] /\ q[0] = i + 2 /\ y[n] = f[q[n]] /\ y[0] = f[q[0]]
      BY <3>1, <2>1, <2>3
    <3> HIDE DEF q, y
    <3>3. f[x[n]] = Ok(x[n], <<>>)
      BY <1>2, <2>4, <3>1 DEF ExprKinds
    <3> QED BY <3>2, <3>3
  <2> HIDE DEF y, q
  <2>8. f[i + 2] = Ok(x[n], a)
    <3>1. <<>> \in Seq(AnyExpr)
      OBVIOUS
    <3>2. y[0] = Ok(x[n], a \o <<>>)
      <4> HIDE DEF a
      <4> QED BY <1>1, <2>6, <2>7, <3>1, Chain
    <3> QED BY <3>2, <2>7, <1>1, ConcatEmptySeq
  <2>9. f[i + 2].ok /\ f[i + 2].at = x[n] /\ f[i + 2].val = a
    BY <2>8 DEF Ok
  <2> QED BY <1>1, <1>2, <1>7, <2>4, <2>9
<1> QED BY <1>7, <1>8, <1>9

\* A bar is skipped, with the space before it.
LEMMA BarIs ==
    ASSUME NEW t \in Tokens, NEW i, NEW layout \in Layouts, Sits(t, i, Bar(layout))
    PROVE  /\ Bar(layout) \in Tokens
           /\ i + Len(Bar(layout)) = AfterSpace(t, i) + 1
           /\ AfterSpace(t, i) \in 1 .. Len(t) + 1 /\ KindAt(t, AfterSpace(t, i)) = "Pipe"
<1> DEFINE l == LineEnd
           d == Indent(2)
           p == Mark("Pipe")
           b == l \o d
<1>1. l \in Tokens /\ d \in Tokens /\ p \in Tokens /\ b \in Tokens
  BY MarkIs, IndentIs, Beside
<1>2. /\ Len(l) = 1 /\ l[1].kind = "Newline" /\ Len(d) = 1 /\ d[1].kind = "Indent"
      /\ Len(p) = 1 /\ p[1].kind = "Pipe"
  BY OneToken
<1>3. Bar(layout) = (IF layout.bars THEN b \o p ELSE p) /\ Bar(layout) \in Tokens
  BY <1>1, Beside DEF Bar
<1>4. i \in 1 .. Len(t) + 1 /\ Len(t) \in Nat
  BY DEF Sits, Tokens
<1> HIDE DEF l, d, p
<1>5. CASE ~ layout.bars
  <2>1. Sits(t, i, p) /\ Bar(layout) = p
    BY <1>3, <1>5
  <2>2. KindAt(t, i) = "Pipe"
    BY <2>1, <1>2, SitsOne
  <2>3. AfterSpace(t, i) = i
    BY <2>2, <1>4, NoSpace
  <2> QED BY <1>2, <1>3, <1>4, <2>1, <2>2, <2>3
<1>6. CASE layout.bars
  <2>1. Sits(t, i, b \o p) /\ Bar(layout) = b \o p
    <3> HIDE DEF b
    <3> QED BY <1>3, <1>6
  <2>2. Sits(t, i, b) /\ Sits(t, i + Len(b), p) /\ i + Len(b \o p) = (i + Len(b)) + Len(p)
    <3> HIDE DEF b
    <3> QED BY <1>1, <2>1, SitsBeside
  <2>3. Sits(t, i, l) /\ Sits(t, i + Len(l), d) /\ i + Len(b) = (i + Len(l)) + Len(d)
    BY <1>1, <2>2, SitsBeside
  <2> HIDE DEF b
  <2>4. Sits(t, i, l) /\ Sits(t, i + 1, d) /\ Sits(t, i + 2, p) /\ i + Len(b \o p) = (i + 2) + 1
    BY <2>2, <2>3, <1>2, <1>4
  <2>5. KindAt(t, i) = "Newline" /\ KindAt(t, i + 1) = "Indent" /\ KindAt(t, i + 2) = "Pipe"
    BY <2>4, <1>2, SitsOne
  <2>6. i + 1 \in 1 .. Len(t) + 1 /\ i + 2 \in 1 .. Len(t) + 1
    BY <2>4 DEF Sits
  <2>7. AfterSpace(t, i) = AfterSpace(t, i + 1)
    BY <2>5, <1>4, AfterSkips DEF AfterSpace
  <2>8. AfterSpace(t, i + 1) = AfterSpace(t, i + 2)
    <3>2. (i + 1) + 1 = i + 2
      BY <1>4
    <3> QED BY <2>5, <2>6, AfterSkips, <3>2 DEF AfterSpace
  <2>9. AfterSpace(t, i + 2) = i + 2
    BY <2>5, <2>6, NoSpace
  <2>10. i + Len(Bar(layout)) = (i + 2) + 1
    BY <2>1, <2>4
  <2> QED BY <1>3, <2>5, <2>6, <2>7, <2>8, <2>9, <2>10
<1> QED BY <1>5, <1>6

\* Alternatives are read up to the colon, whether they have lines of their own or
\* not.
LEMMA AlternativesRead ==
    ASSUME NEW t \in Tokens, NEW i, NEW alts \in Lists, NEW layout \in Layouts, Sits(t, i, AltTokens(alts, layout)),
           NEW at, at = i + Len(AltTokens(alts, layout)), KindAt(t, at) = "Colon"
    PROVE  Alternatives(t, i) = Ok(at, alts)
<1> DEFINE n == Len(alts)
           Opening(m) == CASE m = 1 -> <<>>
                           [] m > 1 /\ layout.bars  -> LineEnd \o Indent(2) \o Mark("Pipe")
                           [] m > 1 /\ ~layout.bars -> Mark("Pipe")
           s == [m \in DOMAIN alts |-> Opening(m) \o ListTokens(alts[m])]
<1>1. /\ alts \in Seq(AnyList) /\ n \in Nat /\ n # 0 /\ DOMAIN alts = 1 .. n
      /\ \A m \in 1 .. n : alts[m] \in AnyList /\ alts[m] \in Seq(AnyExpr)
  BY DEF Lists, AnyList
<1>2. Bar(layout) \in Tokens
  <2>1. LineEnd \o Indent(2) \in Tokens
    BY MarkIs, IndentIs, Beside
  <2> QED BY <2>1, MarkIs, Beside DEF Bar
<1>3. \A m \in 1 .. n : Opening(m) = IF m = 1 THEN <<>> ELSE Bar(layout)
  <2> TAKE m \in 1 .. n
  <2>1. m = 1 \/ m > 1
    BY <1>1
  <2> QED BY <2>1 DEF Bar, Layouts
<1>4. s \in Seq(Tokens) /\ Len(s) = n
      /\ \A m \in 1 .. n : s[m] = (IF m = 1 THEN <<>> ELSE Bar(layout)) \o ListTokens(alts[m])
  <2> HIDE DEF n, Opening
  <2>1. \A m \in 1 .. n : s[m] = (IF m = 1 THEN <<>> ELSE Bar(layout)) \o ListTokens(alts[m])
    BY <1>1, <1>3
  <2>2. s = [m \in 1 .. n |-> s[m]] /\ DOMAIN s = 1 .. n
    BY <1>1
  <2> HIDE DEF s
  <2>3. ASSUME NEW m \in 1 .. n PROVE s[m] \in Tokens
    <3>1. ListTokens(alts[m]) \in Tokens /\ <<>> \in Tokens
      BY <1>1, ListTokensIs DEF Tokens
    <3> QED BY <2>1, <3>1, <1>2, Beside
  <2>4. s \in Seq(Tokens)
    BY <1>1, <2>2, <2>3, SeqIs
  <2> QED BY <2>1, <2>2, <2>4, <1>1, LenIs
<1>5. AltTokens(alts, layout) = FlattenSeq(s)
  BY DEF AltTokens
<1> HIDE DEF s, Opening
<1>6. PICK x \in [0 .. n -> 1 .. Len(t) + 1] :
        /\ x[0] = i /\ x[n] = at
        /\ \A m \in 1 .. n : Sits(t, x[m - 1], s[m]) /\ x[m] = x[m - 1] + Len(s[m])
  BY <1>4, <1>5, SitsFlat
<1>7. PICK f : /\ \A j \in 1 .. Len(t) + 1 :
                    f[j] = IF ~ Expressions(t, j).ok THEN Fail
                           ELSE IF KindAt(t, AfterSpace(t, Expressions(t, j).at)) # "Pipe"
                           THEN Ok(Expressions(t, j).at, <<Expressions(t, j).val>>)
                           ELSE IF f[AfterSpace(t, Expressions(t, j).at) + 1].ok
                           THEN Prepend(Expressions(t, j).val, f[AfterSpace(t, Expressions(t, j).at) + 1])
                           ELSE Fail
               /\ Alternatives(t, i) = f[i]
  <2> HIDE DEF Prepend, n
  <2> QED BY AlternativesUnfold
\* The list m stands at q[m - 1], and what follows it at x[m].
<1> DEFINE q == [m \in 0 .. n - 1 |-> IF m = 0 THEN x[0] ELSE x[m] + Len(Bar(layout))]
<1>8. ASSUME NEW m \in 1 .. n
      PROVE  /\ q[m - 1] \in 1 .. Len(t) + 1 /\ x[m] \in 1 .. Len(t) + 1
             /\ Sits(t, q[m - 1], ListTokens(alts[m])) /\ x[m] = q[m - 1] + Len(ListTokens(alts[m]))
             /\ m > 1 => Sits(t, x[m - 1], Bar(layout))
  <2>1. m - 1 \in 0 .. n - 1 /\ m - 1 \in 0 .. n /\ m \in 0 .. n
    BY <1>1
  <2> DEFINE e == ListTokens(alts[m])
             c == Bar(layout)
             w == x[m - 1]
             z == x[m]
  <2>2. e \in Tokens /\ c \in Tokens
    BY <1>1, <1>2, ListTokensIs
  <2>3. Sits(t, w, s[m]) /\ z = w + Len(s[m]) /\ w \in 1 .. Len(t) + 1 /\ z \in 1 .. Len(t) + 1
    BY <1>6, <2>1
  <2>4. CASE m = 1
    <3>1. s[m] = <<>> \o e
      BY <2>4, <1>4
    <3> HIDE DEF w, z
    <3>2. s[m] = e
      BY <3>1, <2>2, ConcatEmptySeq DEF Tokens
    <3>3. q[m - 1] = w
      BY <2>1, <2>4 DEF w
    <3> HIDE DEF q
    <3> QED BY <2>3, <2>4, <3>2, <3>3 DEF z
  <2>5. CASE m # 1
    <3>1. s[m] = c \o e
      BY <2>5, <1>4
    <3>2. q[m - 1] = w + Len(c)
      BY <2>1, <2>5
    <3> HIDE DEF e, c, w, z, q
    <3>3. Sits(t, w, c) /\ Sits(t, w + Len(c), e) /\ w + Len(c \o e) = (w + Len(c)) + Len(e)
      BY <2>2, <2>3, <3>1, SitsBeside
    <3>4. z = (w + Len(c)) + Len(e)
      BY <2>3, <3>1, <3>3
    <3>5. w + Len(c) \in 1 .. Len(t) + 1
      BY <3>3 DEF Sits
    <3> QED BY <2>3, <3>2, <3>3, <3>4, <3>5 DEF e, c, w, z
  <2> QED BY <2>4, <2>5
<1> DEFINE y == [m \in 0 .. n - 1 |-> f[q[m]]]
           v == SubSeq(alts, 1, n - 1)
<1>9. v \in Seq(AnyList) /\ Len(v) = n - 1 /\ \A m \in 1 .. n - 1 : v[m] = alts[m]
  <2>2. /\ v \in Seq(AnyList) /\ Len(v) = (IF 1 <= n - 1 THEN (n - 1) - 1 + 1 ELSE 0)
        /\ \A m \in 1 .. Len(v) : v[m] = alts[1 + m - 1]
    BY <1>1, PartIs
  <2> HIDE DEF v, n
  <2> QED BY <2>2, <1>1
<1>10. ASSUME NEW m \in 1 .. n - 1, y[m].ok PROVE y[m - 1] = Prepend(v[m], y[m])
  <2>1. m \in 1 .. n /\ m - 1 \in 0 .. n - 1 /\ m \in 0 .. n - 1 /\ m # 0 /\ m + 1 \in 1 .. n /\ (m + 1) - 1 = m /\ m + 1 > 1
    BY <1>1
  <2> DEFINE j == q[m - 1]
             bar == AfterSpace(t, x[m])
  <2>2. q[m] = x[m] + Len(Bar(layout)) /\ y[m] = f[q[m]] /\ y[m - 1] = f[j]
    BY <2>1
  <2> HIDE DEF y, q
  <2>3. /\ j \in 1 .. Len(t) + 1 /\ x[m] \in 1 .. Len(t) + 1 /\ alts[m] \in AnyList
        /\ Sits(t, j, ListTokens(alts[m])) /\ x[m] = j + Len(ListTokens(alts[m]))
    BY <1>1, <1>8, <2>1
  <2>4. Sits(t, x[m], Bar(layout))
    BY <1>8, <2>1
  <2>5. bar \in 1 .. Len(t) + 1 /\ KindAt(t, bar) = "Pipe" /\ q[m] = bar + 1
    BY <2>2, <2>4, BarIs
  <2>6. Expressions(t, j) = Ok(bar, alts[m])
    <3>1. bar = AfterSpace(t, j + Len(ListTokens(alts[m]))) /\ KindAt(t, bar) \notin ExprKinds
      BY <2>3, <2>5 DEF ExprKinds
    <3> HIDE DEF bar, j
    <3> QED BY <2>3, <3>1, ListRead
  <2>7. AfterSpace(t, bar) = bar
    <3> HIDE DEF bar
    <3> QED BY <2>5, NoSpace
  <2>8. Expressions(t, j).ok /\ Expressions(t, j).at = bar /\ Expressions(t, j).val = alts[m]
    BY <2>6 DEF Ok
  <2> HIDE DEF bar, j
  <2>9. f[j] = IF f[bar + 1].ok THEN Prepend(alts[m], f[bar + 1]) ELSE Fail
    BY <1>7, <2>3, <2>8, <2>5, <2>7
  <2>10. v[m] = alts[m]
    BY <1>9
  <2> QED BY <1>10, <2>2, <2>5, <2>9, <2>10
<1>11. y[n - 1] = Ok(at, <<alts[n]>>)
  <2>1. n \in 1 .. n /\ n - 1 \in 0 .. n - 1
    BY <1>1
  <2> DEFINE j == q[n - 1]
  <2>2. y[n - 1] = f[j]
    BY <2>1
  <2> HIDE DEF y, q
  <2>3. /\ j \in 1 .. Len(t) + 1 /\ at \in 1 .. Len(t) + 1 /\ alts[n] \in AnyList
        /\ Sits(t, j, ListTokens(alts[n])) /\ at = j + Len(ListTokens(alts[n]))
    BY <1>1, <1>6, <1>8, <2>1
  <2>4. AfterSpace(t, at) = at
    BY <2>3, NoSpace
  <2>5. Expressions(t, j) = Ok(at, alts[n])
    <3> HIDE DEF j
    <3> QED BY <2>3, <2>4, ListRead DEF ExprKinds
  <2>6. Expressions(t, j).ok /\ Expressions(t, j).at = at /\ Expressions(t, j).val = alts[n]
    BY <2>5 DEF Ok
  <2> HIDE DEF j
  <2>7. f[j] = Ok(at, <<alts[n]>>)
    BY <1>7, <2>3, <2>6, <2>4
  <2> QED BY <2>2, <2>7
<1>12. y[0] = f[i]
  <2>1. 0 \in 0 .. n - 1
    BY <1>1
  <2>2. q[0] = i /\ y[0] = f[q[0]]
    BY <2>1, <1>6, SMTT(20)
  <2> HIDE DEF y, q
  <2> QED BY <2>2
<1>13. v \o <<alts[n]>> = alts
  <2>1. 1 \in 1 .. Len(alts) /\ n \in 1 .. Len(alts)
    BY <1>1
  <2>3. SubSeq(alts, 1, n) = alts
    BY <1>1
  <2> QED BY <1>1, <2>1, SubSeqRecursiveSecond, <2>3
<1> HIDE DEF y, v, n
<1>14. y[0] = Ok(at, v \o <<alts[n]>>)
  <2>1. <<alts[n]>> \in Seq(AnyList)
    BY <1>1
  <2> QED BY <1>9, <1>10, <1>11, <2>1, Chain
<1> QED BY <1>7, <1>12, <1>13, <1>14

\* A block is read up to what is no call of it.
LEMMA BlockRead ==
    ASSUME NEW t \in Tokens, NEW i, NEW block \in Blocks, NEW layout \in Layouts, layout.gap # "spaces",
           Sits(t, i, BlockTokens(block, layout)),
           NEW at, at = i + Len(BlockTokens(block, layout)), KindAt(t, at) = "Newline",
           ~ CallFrom(t, at, BaseOf(block, layout)).ok
    PROVE  ActionBlock(t, i) = Ok(at, block)
<1> DEFINE n == Len(block)
           Open == Opened(layout, 2)
           Opening(m) == IF m = 1 /\ layout.inline THEN <<>> ELSE Open
           s == [m \in DOMAIN block |-> Opening(m) \o CallTokens(block[m])]
<1>1. /\ block \in Seq(AnyCall) /\ n \in Nat /\ n # 0 /\ DOMAIN block = 1 .. n /\ \A m \in 1 .. n : block[m] \in AnyCall
      /\ layout.inline \in BOOLEAN
  BY DEF Blocks, Layouts
<1>2. Open \in Tokens
  BY Opens DEF Opened
<1>3. s \in Seq(Tokens) /\ Len(s) = n /\ \A m \in 1 .. n : s[m] = Opening(m) \o CallTokens(block[m])
  <2> HIDE DEF n, Open
  <2>1. \A m \in 1 .. n : s[m] = Opening(m) \o CallTokens(block[m])
    BY <1>1
  <2>2. s = [m \in 1 .. n |-> s[m]] /\ DOMAIN s = 1 .. n
    BY <1>1
  <2> HIDE DEF s
  <2>3. ASSUME NEW m \in 1 .. n PROVE s[m] \in Tokens
    <3>1. CallTokens(block[m]) \in Tokens /\ <<>> \in Tokens
      BY <1>1, CallTokensIs DEF Tokens
    <3> QED BY <2>1, <3>1, <1>2, Beside
  <2>4. s \in Seq(Tokens)
    BY <1>1, <2>2, <2>3, SeqIs
  <2> QED BY <2>1, <2>2, <2>4, <1>1, LenIs
<1>4. BlockTokens(block, layout) = FlattenSeq(s)
  BY DEF BlockTokens, Opened
<1> HIDE DEF s
<1>5. PICK x \in [0 .. n -> 1 .. Len(t) + 1] :
        /\ x[0] = i /\ x[n] = at
        /\ \A m \in 1 .. n : Sits(t, x[m - 1], s[m]) /\ x[m] = x[m - 1] + Len(s[m])
  BY <1>3, <1>4, SitsFlat
<1>6. PICK f : /\ \A j \in 1 .. Len(t) + 1, base \in Nat :
                    f[<<j, base>>] = IF CallFrom(t, j, base).ok
                                     THEN Prepend(CallFrom(t, j, base).val,
                                                  f[<<CallFrom(t, j, base).at,
                                                      IF base = 0 THEN Width(t, After(t, j, {"Newline"})) ELSE base>>])
                                     ELSE Ok(j, <<>>)
               /\ ActionBlock(t, i) = Nonempty(f[<<i, 0>>])
  <2> HIDE DEF Prepend, n, Open
  <2> QED BY BlockUnfold
\* Where the call m stands, and what comes before it.
<1> DEFINE Out(m) == m = 1 /\ layout.inline
<1>7. ASSUME NEW m \in 1 .. n
      PROVE  /\ x[m - 1] \in 1 .. Len(t) + 1 /\ x[m] \in 1 .. Len(t) + 1
             /\ Out(m) => Sits(t, x[m - 1], CallTokens(block[m])) /\ x[m] = x[m - 1] + Len(CallTokens(block[m]))
             /\ ~ Out(m) => /\ Sits(t, x[m - 1], Open) /\ Sits(t, x[m - 1] + Len(Open), CallTokens(block[m]))
                            /\ x[m] = (x[m - 1] + Len(Open)) + Len(CallTokens(block[m]))
  <2>1. m - 1 \in 0 .. n /\ m \in 0 .. n
    BY <1>1
  <2> DEFINE e == CallTokens(block[m])
             w == x[m - 1]
             z == x[m]
  <2>2. e \in Tokens
    BY <1>1, CallTokensIs
  <2>3. Sits(t, w, s[m]) /\ z = w + Len(s[m]) /\ w \in 1 .. Len(t) + 1 /\ z \in 1 .. Len(t) + 1
    BY <1>5, <2>1
  <2>4. CASE Out(m)
    <3>1. s[m] = <<>> \o e
      BY <2>4, <1>3
    <3> HIDE DEF w, z
    <3>2. s[m] = e
      BY <3>1, <2>2, ConcatEmptySeq DEF Tokens
    <3> QED BY <2>3, <2>4, <3>2 DEF z, w
  <2>5. CASE ~ Out(m)
    <3>1. s[m] = Open \o e
      <4> HIDE DEF Open, e
      <4> QED BY <2>5, <1>3 DEF e
    <3> HIDE DEF e, w, z, Open
    <3>3. Sits(t, w, Open) /\ Sits(t, w + Len(Open), e) /\ w + Len(Open \o e) = (w + Len(Open)) + Len(e)
      <4>1. Sits(t, w, Open \o e)
        BY <2>3, <3>1
      <4> QED BY <2>2, <1>2, <4>1, SitsBeside
    <3>4. z = (w + Len(Open)) + Len(e)
      BY <2>3, <3>1, <3>3
    <3> QED BY <2>3, <2>5, <3>3, <3>4 DEF e, w, z
  <2> QED BY <2>4, <2>5
<1> HIDE DEF Open
\* The end of a call is the end of its line.
<1>8. ASSUME NEW m \in 1 .. n PROVE KindAt(t, x[m]) = "Newline"
  <2>1. CASE m = n
    BY <2>1, <1>5
  <2>2. CASE m # n
    <3>1. m + 1 \in 1 .. n /\ (m + 1) - 1 = m /\ m + 1 # 1
      <4> HIDE DEF n
      <4> QED BY <2>2, <1>1
    <3>3. Sits(t, x[m], Open)
      BY <3>1, <1>7
    <3>5. LineEnd \in Tokens /\ Indent(2) \in Tokens /\ LineEnd \o Indent(2) \in Tokens
      BY MarkIs, IndentIs, Beside
    <3> DEFINE d == LineEnd \o Indent(2)
    <3>6. Sits(t, x[m], LineEnd)
      <4>1. CASE Open = LineEnd \o Indent(2)
        BY <3>3, <4>1, <3>5, SitsBeside
      <4>2. CASE Open = LineEnd \o d
        <5>1. Sits(t, x[m], LineEnd \o d)
          BY <3>3, <4>2
        <5> HIDE DEF d
        <5>2. d \in Tokens
          BY <3>5 DEF d
        <5> QED BY <5>1, <5>2, <3>5, SitsBeside
      <4> QED BY Opens, <4>1, <4>2 DEF Open, Opened
    <3>7. Len(LineEnd) = 1 /\ LineEnd[1].kind = "Newline"
      BY OneToken
    <3> DEFINE z == x[m]
    <3>8. Sits(t, z, LineEnd)
      BY <3>6
    <3> HIDE DEF z
    <3>9. KindAt(t, z) = "Newline"
      BY <3>7, <3>8, SitsOne
    <3> QED BY <3>9 DEF z
  <2> QED BY <2>1, <2>2
<1> DEFINE b == [m \in 0 .. n |-> IF m = 0 \/ Out(m) THEN 0 ELSE 8]
\* Each turn of the loop reads a call.
<1>9. ASSUME NEW m \in 1 .. n
      PROVE  /\ CallFrom(t, x[m - 1], b[m - 1]) = Ok(x[m], block[m])
             /\ b[m] = IF b[m - 1] = 0 THEN Width(t, After(t, x[m - 1], {"Newline"})) ELSE b[m - 1]
             /\ b[m - 1] \in Nat
  <2>1. m - 1 \in 0 .. n /\ m \in 0 .. n /\ m # 0 /\ (m - 1 = 0 <=> m = 1)
    BY <1>1
  <2>2. b[m] = (IF Out(m) THEN 0 ELSE 8) /\ b[m - 1] \in {0, 8} /\ (m = 1 => b[m - 1] = 0)
    BY <2>1
  <2> DEFINE w == x[m - 1]
             z == x[m]
             c == block[m]
             line == After(t, w, {"Newline"})
             old == b[m - 1]
  <2>2a. m # 1 => b[m - 1] = 8 \/ (m - 1 = 1 /\ layout.inline)
    BY <2>1
  <2>3. w \in 1 .. Len(t) + 1 /\ z \in 1 .. Len(t) + 1 /\ c \in AnyCall /\ KindAt(t, z) = "Newline"
    BY <1>1, <1>7, <1>8
  <2>4. CASE Out(m)
    <3>1. Sits(t, w, CallTokens(c)) /\ z = w + Len(CallTokens(c)) /\ old = 0
      BY <1>7, <2>2, <2>4
    <3> HIDE DEF w, z, c, b, old
    <3>2. KindAt(t, w) = "Identifier" /\ FunctionCall(t, w) = Ok(z, c)
      BY <3>1, <2>3, CallRead
    <3>3. line = w
      BY <3>2, <2>3, AfterStops
    <3>4. After(t, line, {"Indent"}) = w
      BY <3>2, <3>3, <2>3, AfterStops
    <3>5. Width(t, line) = 0
      BY <3>2, <3>3 DEF Width
    <3> HIDE DEF line
    <3>6. CallFrom(t, w, old) = Ok(z, c)
      BY <3>1, <3>2, <3>4, <3>5 DEF CallFrom, line
    <3> QED BY <3>1, <3>5, <3>6, <2>2, <2>4 DEF line, w, z, c, old
  <2>5. CASE ~ Out(m)
    <3>1. Sits(t, w, Open) /\ Sits(t, w + Len(Open), CallTokens(c)) /\ z = (w + Len(Open)) + Len(CallTokens(c))
      BY <1>7, <2>5
    <3> HIDE DEF w, z, c, b, old
    <3> DEFINE k == w + Len(Open)
    <3>2. KindAt(t, k) = "Identifier" /\ FunctionCall(t, k) = Ok(z, c)
      <4> HIDE DEF k
      <4> QED BY <3>1, <2>3, CallRead DEF k
    <3>3. Width(t, line) = 8 /\ After(t, line, {"Indent"}) = k
      <4> HIDE DEF k, line
      <4>1. KindAt(t, k) # "Indent" /\ 4 * 2 = 8 /\ 2 \in Nat
        BY <3>2
      <4> DEFINE h == 2
      <4>2. Open = Opened(layout, h) /\ k = w + Len(Opened(layout, h)) /\ h \in Nat /\ 4 * h = 8
        BY <4>1 DEF Open, k
      <4> HIDE DEF h
      <4>3. Sits(t, w, Opened(layout, h)) /\ KindAt(t, w + Len(Opened(layout, h))) # "Indent"
        BY <3>1, <4>1, <4>2
      <4> QED BY <4>2, <4>3, LineIs DEF line
    <3> HIDE DEF line, k
    <3>4. old \in {0, 8}
      BY <2>2 DEF old
    <3>5. CallFrom(t, w, old) = Ok(z, c)
      BY <3>2, <3>3, <3>4 DEF CallFrom, line
    <3> QED BY <3>3, <3>4, <3>5, <2>2, <2>5 DEF line, w, z, c, old
  <2> QED BY <2>4, <2>5
<1> DEFINE y == [m \in 0 .. n |-> f[<<x[m], b[m]>>]]
<1>10. ASSUME NEW m \in 1 .. n PROVE y[m - 1] = Prepend(block[m], y[m])
  <2>1. m - 1 \in 0 .. n /\ m \in 0 .. n
    BY <1>1
  <2>2. y[m - 1] = f[<<x[m - 1], b[m - 1]>>] /\ y[m] = f[<<x[m], b[m]>>]
    BY <2>1
  <2> HIDE DEF y, b
  <2> DEFINE w == x[m - 1]
             z == x[m]
             old == b[m - 1]
             new == b[m]
             r == CallFrom(t, w, old)
  <2>3. w \in 1 .. Len(t) + 1 /\ old \in Nat
    BY <1>7, <1>9
  <2>4. r = Ok(z, block[m]) /\ new = IF old = 0 THEN Width(t, After(t, w, {"Newline"})) ELSE old
    BY <1>9
  <2> HIDE DEF w, z, old, new
  <2>5. r.ok /\ r.at = z /\ r.val = block[m]
    BY <2>4 DEF Ok
  <2>6. f[<<w, old>>] = Prepend(block[m], f[<<z, new>>])
    <3>1. f[<<w, old>>] = IF r.ok THEN Prepend(r.val, f[<<r.at, IF old = 0 THEN Width(t, After(t, w, {"Newline"})) ELSE old>>])
                          ELSE Ok(w, <<>>)
      BY <1>6, <2>3
    <3> HIDE DEF r
    <3> QED BY <3>1, <2>4, <2>5
  <2> QED BY <2>2, <2>6 DEF w, z, old, new
<1>11. y[n] = Ok(at, <<>>)
  <2>1. n \in 0 .. n /\ n \in 1 .. n
    BY <1>1
  <2>2. y[n] = f[<<at, b[n]>>] /\ at \in 1 .. Len(t) + 1
    BY <2>1, <1>5
  <2>3. b[n] = BaseOf(block, layout)
    BY <2>1, <1>1 DEF BaseOf
  <2> HIDE DEF y, b
  <2>4. b[n] \in Nat
    BY <2>3 DEF BaseOf
  <2> QED BY <1>6, <2>2, <2>3, <2>4
<1>12. y[0] = f[<<i, 0>>]
  <2>1. 0 \in 0 .. n
    BY <1>1
  <2>2. b[0] = 0 /\ y[0] = f[<<x[0], b[0]>>]
    BY <2>1
  <2> HIDE DEF y, b
  <2> QED BY <2>2, <1>5
<1> HIDE DEF y
<1>13. y[0] = Ok(at, block \o <<>>)
  <2>1. <<>> \in Seq(AnyCall)
    OBVIOUS
  <2> QED BY <1>1, <1>10, <1>11, <2>1, Chain
<1>14. block \o <<>> = block /\ block # <<>>
  BY <1>1, ConcatEmptySeq DEF Blocks
<1> QED BY <1>6, <1>12, <1>13, <1>14 DEF Nonempty, Ok

-----------------------------------------------------------------------------
(* Statements, read                                                        *)

\* One expression is skipped.
LEMMA SkipRead ==
    ASSUME NEW t \in Tokens, NEW i, NEW list \in Seq(AnyExpr), Len(list) = 1, Sits(t, i, ListTokens(list))
    PROVE  SkipStatement(t, i) = Ok(i + Len(ListTokens(list)), Stmt("Skip", <<list>>, <<>>))
<1> DEFINE s == [m \in DOMAIN list |-> ExprTokens(list[m])]
           e == list[1]
<1>1. e \in AnyExpr /\ DOMAIN list = 1 .. 1 /\ list = <<e>> /\ 1 \in 1 .. 1 /\ 0 \in 0 .. 1 /\ 1 \in 0 .. 1
  OBVIOUS
<1>2. ListTokens(list) = FlattenSeq(s)
  BY DEF ListTokens
<1>3. s \in Seq(Tokens) /\ Len(s) = 1 /\ s[1] = ExprTokens(e)
  <2>1. s = [m \in 1 .. 1 |-> s[m]] /\ DOMAIN s = 1 .. 1 /\ s[1] = ExprTokens(e)
    BY <1>1
  <2> HIDE DEF s, e
  <2>3. s \in Seq(Tokens)
    BY <2>1, <1>1, ExprTokensIs, SeqIs
  <2> QED BY <2>1, <2>3, LenIs
<1> HIDE DEF s, e
<1>4. PICK x \in [0 .. 1 -> 1 .. Len(t) + 1] :
        /\ x[0] = i /\ x[1] = i + Len(ListTokens(list))
        /\ \A m \in 1 .. 1 : Sits(t, x[m - 1], s[m]) /\ x[m] = x[m - 1] + Len(s[m])
  BY <1>2, <1>3, SitsFlat
<1>5. Sits(t, i, ExprTokens(e)) /\ x[1] = i + Len(ExprTokens(e))
  <2>2. 1 - 1 = 0
    OBVIOUS
  <2> QED BY <1>1, <1>4, <2>2, <1>3
<1>6. KindAt(t, i) \in ExprKinds /\ ExprOf(t[i]) = e /\ i + Len(ListTokens(list)) = i + 1
  BY <1>1, <1>4, <1>5, ExprRead
<1>7. Expression(t, i) = Ok(i + 1, e)
  BY <1>6 DEF Expression
<1>8. SkipStatement(t, i) = Ok(i + 1, Stmt("Skip", <<<<e>>>>, <<>>))
  BY <1>7 DEF SkipStatement, AndThen, Ok
<1> QED BY <1>1, <1>6, <1>8

\* A match is read up to the end of its block.
LEMMA MatchingRead ==
    ASSUME NEW t \in Tokens, NEW i, NEW j, NEW kind,
           NEW alts \in Lists, NEW block \in Blocks, NEW layout \in Layouts, layout.gap # "spaces",
           Sits(t, i, AltTokens(alts, layout)), j = i + Len(AltTokens(alts, layout)), KindAt(t, j) = "Colon",
           Sits(t, j + 1, BlockTokens(block, layout)),
           NEW at, at = (j + 1) + Len(BlockTokens(block, layout)), KindAt(t, at) = "Newline",
           ~ CallFrom(t, at, BaseOf(block, layout)).ok
    PROVE  Matching(t, i, kind) = Ok(at, Stmt(kind, alts, block))
<1>1. Alternatives(t, i) = Ok(j, alts)
  BY AlternativesRead
<1> DEFINE k == j + 1
<1>2. Sits(t, k, BlockTokens(block, layout)) /\ at = k + Len(BlockTokens(block, layout))
  OBVIOUS
<1> HIDE DEF k
<1>3. ActionBlock(t, k) = Ok(at, block)
  BY <1>2, BlockRead
<1>4. /\ Alternatives(t, i).ok /\ Alternatives(t, i).at = j /\ Alternatives(t, i).val = alts
      /\ ActionBlock(t, j + 1).ok /\ ActionBlock(t, j + 1).at = at /\ ActionBlock(t, j + 1).val = block
  BY <1>1, <1>3 DEF Ok, k
<1> QED BY <1>4 DEF Matching, AndThen

\* A statement is read up to its end.
LEMMA StatementRead ==
    ASSUME NEW t \in Tokens, NEW i, NEW stmt \in AnyStmt, NEW layout \in Layouts, layout.gap # "spaces",
           Sits(t, i, StmtTokens(stmt, layout)), Closes(t, i + Len(StmtTokens(stmt, layout)), stmt, layout)
    PROVE  /\ StatementLine(t, i) = Ok(i + Len(StmtTokens(stmt, layout)), stmt)
           /\ KindAt(t, i) = "Newline"
           /\ Width(t, After(t, i, {"Newline"})) = 4
           /\ stmt.kind # "Action" =>
                KindAt(t, After(t, After(t, i, {"Newline"}), {"Indent"})) \in {"Skip", "Match", "IMatch", "When"}
<1> DEFINE at == i + Len(StmtTokens(stmt, layout))
<1>0. at = i + Len(StmtTokens(stmt, layout)) /\ Closes(t, at, stmt, layout)
  OBVIOUS
<1> HIDE DEF at
<1> DEFINE head == Opened(layout, 1)
           body == WithoutLine(stmt, layout)
           k == i + Len(head)
<1>2. /\ stmt.kind \in {"Skip", "Action", "Match", "IMatch", "When"}
      /\ stmt = Stmt(stmt.kind, stmt.alts, stmt.actions)
      /\ stmt.kind = "Skip" => stmt.alts = <<stmt.alts[1]>> /\ stmt.alts[1] \in Seq(AnyExpr) /\ Len(stmt.alts[1]) = 1 /\ stmt.actions = <<>>
      /\ stmt.kind = "Action" => stmt.alts = <<>> /\ stmt.actions = <<stmt.actions[1]>> /\ stmt.actions[1] \in AnyCall
      /\ stmt.kind \in Blocked => stmt.alts \in Lists /\ stmt.actions \in Blocks
  <2>1. CASE stmt.kind \in {"Match", "IMatch", "When"}
    BY <2>1 DEF AnyStmt, Stmt, Lists, Blocks
  <2>2. CASE stmt.kind = "Skip"
    <3>1. stmt.alts \in Seq(AnyList) /\ Len(stmt.alts) = 1 /\ Len(stmt.alts[1]) = 1 /\ stmt.actions = <<>>
      BY <2>2 DEF AnyStmt
    <3>2. stmt.alts = <<stmt.alts[1]>> /\ stmt.alts[1] \in AnyList
      BY <3>1
    <3>3. stmt = Stmt(stmt.kind, stmt.alts, stmt.actions)
      BY <2>2 DEF AnyStmt, Stmt
    <3> QED BY <2>2, <3>1, <3>2, <3>3 DEF AnyList, Blocked
  <2>3. CASE stmt.kind = "Action"
    <3>1. stmt.actions \in Seq(AnyCall) /\ Len(stmt.actions) = 1 /\ stmt.alts = <<>>
      BY <2>3 DEF AnyStmt
    <3>3. stmt = Stmt(stmt.kind, stmt.alts, stmt.actions)
      BY <2>3 DEF AnyStmt, Stmt
    <3> QED BY <2>3, <3>1, <3>3 DEF Blocked
  <2> QED BY <2>1, <2>2, <2>3 DEF AnyStmt
<1>3. head \in Tokens
  BY Opens DEF Opened
<1>4. body \in Tokens
  <2>1. CASE stmt.kind = "Skip"
    BY <2>1, <1>2, MarkIs, ListTokensIs, Beside DEF WithoutLine
  <2>2. CASE stmt.kind = "Action"
    BY <2>2, <1>2, CallTokensIs DEF WithoutLine
  <2>3. CASE stmt.kind \in Blocked
    <3>1. stmt.alts \in Seq(AnyList) /\ stmt.actions \in Seq(AnyCall)
      BY <2>3, <1>2 DEF Lists, Blocks
    <3>2. AltTokens(stmt.alts, layout) \in Tokens /\ BlockTokens(stmt.actions, layout) \in Tokens
      BY <3>1, AltTokensIs, BlockTokensIs
    <3>3. Mark(stmt.kind) \in Tokens /\ Mark("Colon") \in Tokens
      BY <2>3, MarkIs DEF Blocked
    <3>5. Mark(stmt.kind) \o AltTokens(stmt.alts, layout) \o Mark("Colon") \in Tokens
      BY <3>2, <3>3, Beside
    <3> QED BY <2>3, <3>5, <3>2, Beside DEF WithoutLine, Blocked
  <2> QED BY <2>1, <2>2, <2>3, <1>2 DEF Blocked
<1>5. Sits(t, i, head) /\ Sits(t, k, body) /\ at = k + Len(body)
  <2>1. Sits(t, i, head \o body) /\ at = i + Len(head \o body)
    BY <1>0 DEF StmtTokens, Opened, WithoutLine
  <2> HIDE DEF head, body
  <2> QED BY <2>1, <1>3, <1>4, SitsBeside
<1> HIDE DEF k, body
\* What the statement is, as it stands after the indentation.
<1> DEFINE kind == KindAt(t, k)
           Read == CASE kind = "Skip"                        -> SkipStatement(t, k + 1)
                     [] kind \in {"Match", "IMatch", "When"} -> Matching(t, k + 1, kind)
                     [] OTHER                                -> ActionStatement(t, k)
<1>6. /\ kind # "Indent" /\ Read = Ok(at, stmt)
      /\ stmt.kind # "Action" => kind \in {"Skip", "Match", "IMatch", "When"}
  <2>1. CASE stmt.kind = "Skip"
    <3> DEFINE p == Mark("Skip")
               q == ListTokens(stmt.alts[1])
    <3>1. p \in Tokens /\ q \in Tokens /\ Len(p) = 1 /\ p[1].kind = "Skip"
      BY <2>1, <1>2, MarkIs, ListTokensIs, OneToken
    <3>2. body = p \o q
      BY <2>1 DEF WithoutLine, body
    <3> HIDE DEF p, q
    <3>3. Sits(t, k, p) /\ Sits(t, k + Len(p), q) /\ k + Len(p \o q) = (k + Len(p)) + Len(q)
      <4>1. p \in Tokens /\ q \in Tokens /\ Sits(t, k, p \o q)
        BY <1>5, <3>1, <3>2
      <4> QED BY <4>1, SitsBeside
    <3>4. KindAt(t, k) = "Skip" /\ Sits(t, k + 1, q) /\ at = (k + 1) + Len(q)
      <4>2. at = k + Len(p \o q)
        BY <1>5, <3>2
      <4> QED BY <3>1, <3>3, SitsOne, <4>2
    <3>6. stmt = Stmt("Skip", <<stmt.alts[1]>>, <<>>)
      BY <1>2, <2>1
    <3> QED BY <3>4, <1>2, <2>1, SkipRead, <3>6 DEF q
  <2>2. CASE stmt.kind = "Action"
    <3> DEFINE c == stmt.actions[1]
    <3>1. body = CallTokens(c) /\ c \in AnyCall /\ KindAt(t, at) # "LeftParen"
      BY <2>2, <1>0, <1>2 DEF WithoutLine, body, Closes
    <3> HIDE DEF c
    <3>2. KindAt(t, k) = "Identifier" /\ FunctionCall(t, k) = Ok(at, c)
      BY <1>5, <3>1, CallRead
    <3>3. ActionStatement(t, k) = Ok(at, Stmt("Action", <<>>, <<c>>))
      BY <3>2 DEF ActionStatement, AndThen, Ok
    <3>4. stmt = Stmt("Action", <<>>, <<c>>)
      BY <1>2, <2>2 DEF c
    <3> QED BY <2>2, <3>2, <3>3, <3>4
  <2>3. CASE stmt.kind \in Blocked
    <3> DEFINE p == Mark(stmt.kind)
               q == AltTokens(stmt.alts, layout)
               c == Mark("Colon")
               b == BlockTokens(stmt.actions, layout)
               pq == p \o q
               pqc == pq \o c
    <3>1. /\ p \in Tokens /\ Len(p) = 1 /\ p[1].kind = stmt.kind
          /\ c \in Tokens /\ Len(c) = 1 /\ c[1].kind = "Colon"
      BY <2>3, MarkIs, OneToken DEF Blocked
    <3>2. q \in Tokens /\ b \in Tokens
      BY <2>3, <1>2, AltTokensIs, BlockTokensIs DEF Lists, Blocks
    <3>3. body = pqc \o b
      BY <2>3 DEF WithoutLine, body, Blocked
    <3> HIDE DEF p, q, c, b
    <3>4. pq \in Tokens /\ pqc \in Tokens
      BY <3>1, <3>2, Beside
    <3>5. Sits(t, k, pqc) /\ Sits(t, k + Len(pqc), b) /\ at = (k + Len(pqc)) + Len(b)
      <4> HIDE DEF pqc
      <4> QED BY <3>2, <3>4, <1>5, <3>3, SitsBeside
    <3>6. Sits(t, k, pq) /\ Sits(t, k + Len(pq), c) /\ k + Len(pqc) = (k + Len(pq)) + 1
      <4> HIDE DEF pq
      <4>1. pq \in Tokens /\ c \in Tokens /\ Sits(t, k, pq \o c)
        BY <3>1, <3>4, <3>5
      <4>2. Sits(t, k, pq) /\ Sits(t, k + Len(pq), c) /\ k + Len(pq \o c) = (k + Len(pq)) + Len(c)
        BY <4>1, SitsBeside
      <4> QED BY <4>2, <3>1
    <3> HIDE DEF pqc
    <3>7. Sits(t, k, p) /\ Sits(t, k + 1, q) /\ k + Len(pq) = (k + 1) + Len(q)
      <4>1. p \in Tokens /\ q \in Tokens /\ Sits(t, k, p \o q)
        BY <3>1, <3>2, <3>6
      <4>2. Sits(t, k, p) /\ Sits(t, k + Len(p), q) /\ k + Len(p \o q) = (k + Len(p)) + Len(q)
        BY <4>1, SitsBeside
      <4> QED BY <4>2, <3>1
    <3> HIDE DEF pq
    <3> DEFINE j == (k + 1) + Len(q)
    <3>8. kind = stmt.kind
      BY <3>1, <3>7, SitsOne
    <3>9. KindAt(t, j) = "Colon" /\ Sits(t, j + 1, b) /\ at = (j + 1) + Len(b)
      <4>1. Sits(t, j, c)
        BY <3>6, <3>7
      <4> HIDE DEF j
      <4>2. KindAt(t, j) = "Colon"
        BY <3>1, <4>1, SitsOne
      <4> QED BY <4>2, <3>5, <3>6, <3>7 DEF j
    <3>10. KindAt(t, at) = "Newline" /\ ~ CallFrom(t, at, BaseOf(stmt.actions, layout)).ok
      BY <2>3, <1>0 DEF Closes
    <3> DEFINE l == k + 1
    <3>11. Matching(t, l, stmt.kind) = Ok(at, Stmt(stmt.kind, stmt.alts, stmt.actions))
      <4>1. Sits(t, l, AltTokens(stmt.alts, layout)) /\ j = l + Len(AltTokens(stmt.alts, layout))
        BY <3>7 DEF q
      <4>3. stmt.alts \in Lists /\ stmt.actions \in Blocks
        BY <2>3, <1>2
      <4> HIDE DEF j, l, kind, Read
      <4> QED BY <3>9, <3>10, <4>1, <4>3, MatchingRead DEF b
    <3>12. Read = Ok(at, stmt) /\ kind # "Indent" /\ kind \in {"Match", "IMatch", "When"}
      <4> HIDE DEF kind
      <4> QED BY <2>3, <3>8, <3>11, <1>2 DEF Blocked
    <3> QED BY <3>12
  <2> QED BY <2>1, <2>2, <2>3, <1>2 DEF Blocked
<1> HIDE DEF Read
<1> DEFINE h == 1
<1>7. h \in Nat /\ 4 * h = 4 /\ head = Opened(layout, h) /\ k = i + Len(Opened(layout, h))
  BY DEF k
<1> HIDE DEF h, head
<1>8. /\ KindAt(t, i) = "Newline"
      /\ Width(t, After(t, i, {"Newline"})) = 4 * h
      /\ After(t, After(t, i, {"Newline"}), {"Indent"}) = k
  BY <1>7, <1>5, <1>6, LineIs
<1>9. StatementLine(t, i) = Read
  BY <1>8 DEF StatementLine, Read
<1> QED BY <1>0, <1>6, <1>7, <1>8, <1>9

\* A statement is closed by the next one, or by what is none.
LEMMA ClosedByNext ==
    ASSUME NEW t \in Tokens, NEW at, NEW stmt \in AnyStmt, NEW layout \in Layouts, NEW next \in AnyStmt,
           KindAt(t, at) = "Newline", Width(t, After(t, at, {"Newline"})) = 4,
           next.kind # "Action" =>
             KindAt(t, After(t, After(t, at, {"Newline"}), {"Indent"})) \in {"Skip", "Match", "IMatch", "When"},
           layout.inline /\ next.kind = "Action" => Len(stmt.actions) # 1
    PROVE  Closes(t, at, stmt, layout)
<1> DEFINE base == BaseOf(stmt.actions, layout)
<1>1. CASE base = 8
  <2>1. 4 < 8
    OBVIOUS
  <2>2. Width(t, After(t, at, {"Newline"})) < base
    BY <1>1, <2>1
  <2> QED BY <2>2 DEF Closes, CallFrom, Fail
<1>2. CASE base = 0
  <2>2. KindAt(t, After(t, After(t, at, {"Newline"}), {"Indent"})) # "Identifier"
    BY <1>2 DEF BaseOf
  <2> QED BY <2>2 DEF Closes, CallFrom, Fail, FunctionCall
<1> QED BY <1>1, <1>2 DEF BaseOf

\* So it is with what follows the last statement of a grammar.
LEMMA ClosedByEnd ==
    ASSUME NEW t \in Tokens, NEW at \in 1 .. Len(t) + 1, NEW stmt, NEW layout,
           KindAt(t, at) = "Newline", KindAt(t, After(t, at, {"Newline"})) \in {"Grammar", "EOF"}
    PROVE  Closes(t, at, stmt, layout) /\ ~ StatementLine(t, at).ok
<1> DEFINE line == After(t, at, {"Newline"})
<1>1. line \in 1 .. Len(t) + 1
  <2>1. line \in at .. Len(t) + 1
    BY AfterIs
  <2> HIDE DEF line
  <2> QED BY <2>1 DEF Tokens
<1>2. KindAt(t, line) \in {"Grammar", "EOF"}
  OBVIOUS
<1> HIDE DEF line
<1>3. After(t, line, {"Indent"}) = line
  BY <1>1, <1>2, AfterStops
<1>4. FunctionCall(t, line) = Fail
  BY <1>2 DEF FunctionCall
<1>5. ~ CallFrom(t, at, BaseOf(stmt.actions, layout)).ok
  BY <1>3, <1>4 DEF CallFrom, Fail, line
<1>6. ActionStatement(t, line) = Fail
  BY <1>4 DEF ActionStatement, AndThen, Fail
<1>7. StatementLine(t, at) = Fail
  BY <1>2, <1>3, <1>6 DEF StatementLine, line
<1> QED BY <1>5, <1>7 DEF Closes, Fail

\* The statements of a grammar are read up to the next grammar or the end.
LEMMA StatementsRead ==
    ASSUME NEW t \in Tokens, NEW i, NEW stmts \in Seq(AnyStmt), NEW layout \in Layouts, WellLaid(stmts, layout),
           Sits(t, i, StmtsTokens(stmts, layout)),
           NEW at, at = i + Len(StmtsTokens(stmts, layout)), KindAt(t, at) = "Newline",
           KindAt(t, After(t, at, {"Newline"})) \in {"Grammar", "EOF"}
    PROVE  Statements(t, i) = Ok(at, stmts)
<1> DEFINE n == Len(stmts)
           s == [m \in DOMAIN stmts |-> StmtTokens(stmts[m], layout)]
<1>1. n \in Nat /\ DOMAIN stmts = 1 .. n /\ \A m \in 1 .. n : stmts[m] \in AnyStmt
  OBVIOUS
<1>2. s \in Seq(Tokens) /\ Len(s) = n /\ \A m \in 1 .. n : s[m] = StmtTokens(stmts[m], layout)
  <2> HIDE DEF n
  <2>1. s = [m \in 1 .. n |-> s[m]] /\ DOMAIN s = 1 .. n /\ \A m \in 1 .. n : s[m] = StmtTokens(stmts[m], layout)
    BY <1>1
  <2> HIDE DEF s
  <2>3. s \in Seq(Tokens)
    BY <1>1, <2>1, StmtTokensIs, SeqIs
  <2> QED BY <1>1, <2>1, <2>3, LenIs
<1>3. StmtsTokens(stmts, layout) = FlattenSeq(s)
  BY DEF StmtsTokens
<1> HIDE DEF s
<1>4. PICK x \in [0 .. n -> 1 .. Len(t) + 1] :
        /\ x[0] = i /\ x[n] = at
        /\ \A m \in 1 .. n : Sits(t, x[m - 1], s[m]) /\ x[m] = x[m - 1] + Len(s[m])
  BY <1>2, <1>3, SitsFlat
<1> HIDE DEF n
<1>5. ASSUME NEW m \in 1 .. n
      PROVE  /\ x[m - 1] \in 1 .. Len(t) + 1 /\ stmts[m] \in AnyStmt
             /\ Sits(t, x[m - 1], StmtTokens(stmts[m], layout))
             /\ x[m] = x[m - 1] + Len(StmtTokens(stmts[m], layout))
  <2>1. m - 1 \in 0 .. n
    BY <1>1
  <2> QED BY <2>1, <1>1, <1>2, <1>4
<1>6. at \in 1 .. Len(t) + 1
  BY <1>1, <1>4
<1>7. layout.gap # "spaces"
  BY DEF WellLaid
\* Each is closed by what follows, from the last one up.
<1> DEFINE Good == {k \in 0 .. n : k < n => Closes(t, x[n - k], stmts[n - k], layout)}
<1>8. 0 \in Good
  <2>1. 0 \in 0 .. n /\ n - 0 = n /\ (0 < n => n \in 1 .. n)
    BY <1>1
  <2> QED BY <2>1, <1>1, <1>4, <1>6, ClosedByEnd
<1>9. ASSUME NEW k \in 1 .. n, k - 1 \in Good PROVE k \in Good
  <2>1. SUFFICES ASSUME k < n PROVE Closes(t, x[n - k], stmts[n - k], layout)
    BY <1>1
  <2> DEFINE m == n - k
             a == x[m]
             b == x[m + 1]
             this == stmts[m]
             next == stmts[m + 1]
  <2>2. m \in 1 .. n /\ m + 1 \in 1 .. n /\ (m + 1) - 1 = m /\ n - (k - 1) = m + 1 /\ k - 1 < n /\ m + 1 \in 2 .. n
    BY <1>1, <2>1
  <2>3. Closes(t, b, next, layout)
    BY <1>9, <2>2
  <2>4. this \in AnyStmt /\ next \in AnyStmt
    BY <1>1, <2>2
  <2> HIDE DEF m
  <2>5. Sits(t, a, StmtTokens(next, layout)) /\ b = a + Len(StmtTokens(next, layout))
    BY <1>5, <2>2
  <2>6. layout.inline /\ next.kind = "Action" => Len(this.actions) # 1
    <3>2. layout.inline => (stmts[m + 1].kind = "Action" => Len(stmts[(m + 1) - 1].actions) # 1)
      BY <2>2 DEF WellLaid, n
    <3> QED BY <3>2, <2>2
  <2> HIDE DEF a, b, this, next
  <2>7. Sits(t, a, StmtTokens(next, layout)) /\ Closes(t, a + Len(StmtTokens(next, layout)), next, layout)
    BY <2>3, <2>5
  <2>9. Closes(t, a, this, layout)
    BY <2>4, <2>6, <1>7, <2>7, StatementRead, ClosedByNext
  <2> QED BY <2>9 DEF a, this, m
<1> HIDE DEF Good
<1>10. \A k \in 0 .. n : k \in Good
  BY <1>1, <1>8, <1>9, Ascent
<1>11. ASSUME NEW m \in 1 .. n PROVE StatementLine(t, x[m - 1]) = Ok(x[m], stmts[m])
  <2> DEFINE a == x[m - 1]
             b == x[m]
             this == stmts[m]
  <2>1. n - m \in 0 .. n /\ n - m < n /\ n - (n - m) = m
    BY <1>1
  <2>2. Closes(t, b, this, layout)
    <3>1. n - m \in Good
      BY <1>10, <2>1
    <3> QED BY <3>1, <2>1 DEF Good
  <2>3. this \in AnyStmt /\ Sits(t, a, StmtTokens(this, layout)) /\ b = a + Len(StmtTokens(this, layout))
    BY <1>5
  <2> HIDE DEF a, b, this
  <2>4. Closes(t, a + Len(StmtTokens(this, layout)), this, layout)
    BY <2>2, <2>3
  <2>5. StatementLine(t, a) = Ok(a + Len(StmtTokens(this, layout)), this)
    BY <1>7, <2>3, <2>4, StatementRead
  <2> QED BY <2>3, <2>5 DEF a, b, this
<1>12. PICK f : /\ \A j \in 1 .. Len(t) + 1 :
                     f[j] = IF StatementLine(t, j).ok
                            THEN Prepend(StatementLine(t, j).val, f[StatementLine(t, j).at])
                            ELSE Ok(j, <<>>)
                /\ Statements(t, i) = f[i]
  <2> HIDE DEF Prepend
  <2> QED BY StatementsUnfold
<1> DEFINE y == [m \in 0 .. n |-> f[x[m]]]
<1>13. ASSUME NEW m \in 1 .. n PROVE y[m - 1] = Prepend(stmts[m], y[m])
  <2>1. m - 1 \in 0 .. n /\ m \in 0 .. n /\ x[m - 1] \in 1 .. Len(t) + 1
    BY <1>1, <1>5
  <2>2. y[m - 1] = f[x[m - 1]] /\ y[m] = f[x[m]]
    BY <2>1
  <2> HIDE DEF y
  <2> DEFINE a == x[m - 1]
             r == StatementLine(t, a)
  <2>3. a \in 1 .. Len(t) + 1 /\ r = Ok(x[m], stmts[m]) /\ y[m - 1] = f[a]
    BY <1>11, <2>1, <2>2
  <2> HIDE DEF a
  <2>4. f[a] = IF r.ok THEN Prepend(r.val, f[r.at]) ELSE Ok(a, <<>>)
    BY <2>3, <1>12
  <2> HIDE DEF r
  <2>5. r.ok /\ r.val = stmts[m] /\ r.at = x[m]
    BY <2>3 DEF Ok
  <2> QED BY <2>2, <2>3, <2>4, <2>5
<1>14. y[n] = Ok(at, <<>>)
  <2>1. n \in 0 .. n
    BY <1>1
  <2>2. ~ StatementLine(t, at).ok
    BY <1>6, ClosedByEnd
  <2> QED BY <2>1, <2>2, <1>4, <1>6, <1>12
<1>15. y[0] = f[i]
  BY <1>1, <1>4
<1> HIDE DEF y
<1>16. y[0] = Ok(at, stmts \o <<>>)
  <2>1. <<>> \in Seq(AnyStmt) /\ n = Len(stmts)
    BY DEF n
  <2> QED BY <1>13, <1>14, <2>1, Chain
<1> QED BY <1>12, <1>15, <1>16, ConcatEmptySeq

-----------------------------------------------------------------------------
(* Documents, read                                                         *)

\* Three beside each other.
LEMMA SitsThree ==
    ASSUME NEW t \in Tokens, NEW i, NEW p \in Tokens, NEW q \in Tokens, NEW r \in Tokens, Sits(t, i, (p \o q) \o r)
    PROVE  /\ (p \o q) \o r \in Tokens
           /\ Sits(t, i, p) /\ Sits(t, i + Len(p), q) /\ Sits(t, (i + Len(p)) + Len(q), r)
           /\ i + Len((p \o q) \o r) = ((i + Len(p)) + Len(q)) + Len(r)
<1> DEFINE pq == p \o q
<1>1. pq \in Tokens /\ Sits(t, i, pq \o r)
  BY Beside
<1>2. pq \o r \in Tokens
  <2> HIDE DEF pq
  <2> QED BY <1>1, Beside
<1>3. Sits(t, i, pq) /\ Sits(t, i + Len(pq), r) /\ i + Len(pq \o r) = (i + Len(pq)) + Len(r)
  <2> HIDE DEF pq
  <2> QED BY <1>1, SitsBeside
<1>4. Sits(t, i, p) /\ Sits(t, i + Len(p), q) /\ i + Len(pq) = (i + Len(p)) + Len(q)
  BY <1>3, SitsBeside
<1> HIDE DEF pq
<1> QED BY <1>2, <1>3, <1>4 DEF pq

\* A definition is read up to the end of its line.
LEMMA DefineRead ==
    ASSUME NEW t \in Tokens, NEW i, NEW name \in Texts, NEW e \in AnyExpr, Sits(t, i, DefineTokens(name, e))
    PROVE  /\ KindAt(t, i) = "Define" /\ i \in 1 .. Len(t) + 1
           /\ DefineStatement(t, i) = Ok(i + 3, [part |-> "Define", name |-> name, def |-> e])
           /\ KindAt(t, i + 3) = "Newline" /\ i + 3 \in 1 .. Len(t) + 1
           /\ i + Len(DefineTokens(name, e)) = (i + 3) + 1
<1> DEFINE a == Mark("Define")
           b == Word(name)
           c == ExprTokens(e)
           l == LineEnd
           abc == (a \o b) \o c
<1>1. a \in Tokens /\ b \in Tokens /\ c \in Tokens /\ l \in Tokens
  BY MarkIs, ExprTokensIs
<1>2. /\ Len(a) = 1 /\ a[1].kind = "Define" /\ Len(b) = 1 /\ b[1].kind = "Identifier" /\ b[1].slice = name
      /\ Len(l) = 1 /\ l[1].kind = "Newline"
  BY OneToken
<1>3. DefineTokens(name, e) = abc \o l
  BY DEF DefineTokens
<1> HIDE DEF a, b, c, l
<1>4. abc \in Tokens
  BY <1>1, Beside
<1>5. Sits(t, i, abc) /\ Sits(t, i + Len(abc), l) /\ i + Len(DefineTokens(name, e)) = (i + Len(abc)) + Len(l)
  <2> HIDE DEF abc
  <2>1. Sits(t, i, abc \o l)
    BY <1>3
  <2> QED BY <1>1, <1>4, <2>1, SitsBeside, <1>3
<1>6. /\ Sits(t, i, a) /\ Sits(t, i + Len(a), b) /\ Sits(t, (i + Len(a)) + Len(b), c)
      /\ i + Len(abc) = ((i + Len(a)) + Len(b)) + Len(c)
  BY <1>1, <1>5, SitsThree
<1> HIDE DEF abc
<1>7. i \in Nat
  BY DEF Sits
<1>8. KindAt(t, i) = "Define" /\ i \in 1 .. Len(t) + 1
  BY <1>2, <1>6, SitsOne
<1>9. KindAt(t, i + 1) = "Identifier" /\ t[i + 1].slice = name
  BY <1>2, <1>6, SitsOne
<1>10. Len(c) = 1 /\ KindAt(t, i + 2) \in ExprKinds /\ ExprOf(t[i + 2]) = e
  <2>1. (i + 1) + 1 = i + 2
    BY <1>7
  <2>2. Sits(t, i + 2, c)
    BY <1>2, <1>6, <2>1
  <2> QED BY <2>2, ExprRead DEF c
<1>11. Expression(t, i + 2) = Ok(i + 3, e)
  BY <1>10, <1>7 DEF Expression
<1>12. DefineStatement(t, i) = Ok(i + 3, [part |-> "Define", name |-> name, def |-> e])
  <2>1. Expression(t, i + 2).ok /\ Expression(t, i + 2).at = i + 3 /\ Expression(t, i + 2).val = e
    BY <1>11 DEF Ok
  <2> QED BY <1>9, <2>1 DEF DefineStatement, AndThen
<1>13. i + Len(abc) = i + 3
  BY <1>2, <1>6, <1>7, <1>10
<1>14. KindAt(t, i + 3) = "Newline" /\ i + 3 \in 1 .. Len(t) + 1
  BY <1>2, <1>5, <1>13, SitsOne
<1> QED BY <1>2, <1>5, <1>8, <1>12, <1>13, <1>14

\* A grammar is read up to the end of the line of its last statement.
LEMMA GrammarRead ==
    ASSUME NEW t \in Tokens, NEW i, NEW name \in Texts, NEW grammar \in AnyGrammar, NEW layout \in Layouts,
           WellLaid(grammar.stmts, layout), Sits(t, i, GrammarTokens(name, grammar, layout))
    PROVE  /\ KindAt(t, i) = "Grammar" /\ i \in 1 .. Len(t) + 1
           /\ KindAt(t, i + Len(GrammarTokens(name, grammar, layout))) \in {"Grammar", "EOF"} =>
                IsReadTo(t, i, i + Len(GrammarTokens(name, grammar, layout)), name, grammar)
<1> DEFINE a == Mark("Grammar")
           b == Word(name)
           h == Heading(grammar)
           c == Mark("Colon")
           s == StmtsTokens(grammar.stmts, layout)
           l == LineEnd
           abh == (a \o b) \o h
           all == (abh \o c) \o s
<1>1. grammar.inherit \in Texts /\ grammar.stmts \in Seq(AnyStmt) /\ grammar = Grammar(grammar.inherit, grammar.stmts)
  BY DEF AnyGrammar, Grammar
<1>2. a \in Tokens /\ b \in Tokens /\ c \in Tokens /\ l \in Tokens
  BY MarkIs
<1>3. h \in Tokens
  <2>1. Mark("LeftParen") \o Word(grammar.inherit) \in Tokens
    BY <1>1, MarkIs, Beside
  <2> QED BY <2>1, MarkIs, Beside DEF Tokens, Heading
<1>4. s \in Tokens
  <2> DEFINE stmts == grammar.stmts
             n == Len(stmts)
             u == [m \in DOMAIN stmts |-> StmtTokens(stmts[m], layout)]
  <2>1. n \in Nat /\ DOMAIN stmts = 1 .. n /\ \A m \in 1 .. n : stmts[m] \in AnyStmt
    BY <1>1
  <2>2. s = FlattenSeq(u)
    BY DEF StmtsTokens
  <2> HIDE DEF n, stmts, s
  <2>3. u = [m \in 1 .. n |-> u[m]]
    BY <2>1
  <2>4. \A m \in 1 .. n : u[m] \in Tokens
    BY <2>1, StmtTokensIs
  <2> HIDE DEF u
  <2>5. u \in Seq(Tokens)
    BY <2>1, <2>3, <2>4, SeqIs
  <2> QED BY <2>2, <2>5, FlatIs DEF Tokens
<1>5. /\ Len(a) = 1 /\ a[1].kind = "Grammar" /\ Len(b) = 1 /\ b[1].kind = "Identifier" /\ b[1].slice = name
      /\ Len(c) = 1 /\ c[1].kind = "Colon" /\ Len(l) = 1 /\ l[1].kind = "Newline"
  BY OneToken
<1>6. GrammarTokens(name, grammar, layout) = all \o l
  BY DEF GrammarTokens, Heading, StmtsTokens
<1> HIDE DEF a, b, h, c, s, l
<1>7. abh \in Tokens
  BY <1>2, Beside, <1>3
<1>8. all \in Tokens
  <2> HIDE DEF abh
  <2> QED BY <1>2, <1>7, Beside, <1>4
<1> DEFINE last == i + Len(all)
           first == i + Len(abh)
<1>9. Sits(t, i, all) /\ Sits(t, last, l) /\ i + Len(GrammarTokens(name, grammar, layout)) = last + 1
  <2> HIDE DEF all
  <2>1. Sits(t, i, all \o l)
    BY <1>6
  <2>2. Sits(t, i, all) /\ Sits(t, i + Len(all), l) /\ i + Len(all \o l) = (i + Len(all)) + Len(l)
    BY <1>2, <1>8, <2>1, SitsBeside
  <2> QED BY <2>2, <1>5, <1>6
<1>10. Sits(t, i, abh) /\ Sits(t, first, c) /\ Sits(t, first + 1, s) /\ last = (first + 1) + Len(s)
  <2> HIDE DEF abh
  <2>1. /\ Sits(t, i, abh) /\ Sits(t, i + Len(abh), c) /\ Sits(t, (i + Len(abh)) + Len(c), s)
        /\ i + Len(all) = ((i + Len(abh)) + Len(c)) + Len(s)
    BY <1>2, <1>4, <1>7, <1>9, SitsThree
  <2> QED BY <2>1, <1>5
<1>11. /\ Sits(t, i, a) /\ Sits(t, i + 1, b) /\ Sits(t, (i + 1) + 1, h) /\ first = ((i + 1) + 1) + Len(h)
  <2>1. /\ Sits(t, i, a) /\ Sits(t, i + Len(a), b) /\ Sits(t, (i + Len(a)) + Len(b), h)
        /\ i + Len(abh) = ((i + Len(a)) + Len(b)) + Len(h)
    BY <1>2, <1>3, <1>10, SitsThree
  <2> HIDE DEF abh
  <2> QED BY <2>1, <1>5
<1> HIDE DEF abh, all, first, last
<1>12. i \in 1 .. Len(t) + 1 /\ i \in Nat /\ Len(t) \in Nat
  <2>1. Sits(t, i, a)
    BY <1>11
  <2>3. Len(t) \in Nat
    BY DEF Tokens
  <2> QED BY <2>1, <2>3 DEF Sits
<1>13. KindAt(t, i) = "Grammar"
  BY <1>5, <1>11, SitsOne
<1>14. KindAt(t, i + 1) = "Identifier" /\ t[i + 1].slice = name
  BY <1>5, <1>11, SitsOne
<1>15. KindAt(t, first) = "Colon"
  BY <1>5, <1>10, SitsOne
<1>16. KindAt(t, last) = "Newline" /\ last \in 1 .. Len(t) + 1 /\ last + 1 \in 1 .. Len(t) + 1
  BY <1>5, <1>9, SitsOne
<1>17. ASSUME KindAt(t, last + 1) \in {"Grammar", "EOF"}
       PROVE  Statements(t, first + 1) = Ok(last, grammar.stmts)
  <2>1. KindAt(t, last + 1) \in {"Grammar", "EOF"}
    BY <1>17
  <2>2. After(t, last, {"Newline"}) = last + 1
    <3>2. After(t, last + 1, {"Newline"}) = last + 1
      BY <1>16, <2>1, AfterStops
    <3> QED BY <1>16, AfterSkips, <3>2
  <2> DEFINE k == first + 1
  <2>3. Sits(t, k, StmtsTokens(grammar.stmts, layout)) /\ last = k + Len(StmtsTokens(grammar.stmts, layout))
    BY <1>10 DEF s
  <2> HIDE DEF k
  <2>4. Statements(t, k) = Ok(last, grammar.stmts)
    BY <1>1, <1>16, <2>1, <2>2, <2>3, StatementsRead
  <2> QED BY <2>4 DEF k
\* Where the colon is looked for.
<1> DEFINE heir == KindAt(t, i + 2) = "LeftParen"
           colon == IF heir THEN i + 5 ELSE i + 2
           parent == IF heir THEN t[i + 3].slice ELSE NoParent
<1>18. colon = first /\ parent = grammar.inherit
       /\ (heir => KindAt(t, i + 3) = "Identifier" /\ KindAt(t, i + 4) = "RightParen")
  <2>1. CASE grammar.inherit = NoParent
    <3>1. h = <<>>
      BY <2>1 DEF h, Heading
    <3>2. first = i + 2
      BY <3>1, <1>11, <1>12
    <3> QED BY <2>1, <3>2, <1>15
  <2>2. CASE grammar.inherit # NoParent
    <3> DEFINE x == Mark("LeftParen")
               y == Word(grammar.inherit)
               z == Mark("RightParen")
    <3>1. h = (x \o y) \o z
      BY <2>2 DEF h, Heading
    <3>2. x \in Tokens /\ y \in Tokens /\ z \in Tokens
      BY <1>1, MarkIs
    <3>3. /\ Len(x) = 1 /\ x[1].kind = "LeftParen" /\ Len(y) = 1 /\ y[1].kind = "Identifier" /\ y[1].slice = grammar.inherit
          /\ Len(z) = 1 /\ z[1].kind = "RightParen"
      BY OneToken
    <3> HIDE DEF x, y, z
    <3> DEFINE k == (i + 1) + 1
    <3>4. /\ Sits(t, k, x) /\ Sits(t, k + 1, y) /\ Sits(t, (k + 1) + 1, z)
          /\ k + Len(h) = ((k + 1) + 1) + 1
      <4>1. Sits(t, k, (x \o y) \o z)
        BY <1>11, <3>1
      <4> HIDE DEF k
      <4>2. /\ Sits(t, k, x) /\ Sits(t, k + Len(x), y) /\ Sits(t, (k + Len(x)) + Len(y), z)
            /\ k + Len((x \o y) \o z) = ((k + Len(x)) + Len(y)) + Len(z)
        BY <3>2, <4>1, SitsThree
      <4> QED BY <4>2, <3>1, <3>3
    <3>5. k = i + 2 /\ k + 1 = i + 3 /\ (k + 1) + 1 = i + 4 /\ ((k + 1) + 1) + 1 = i + 5
      BY <1>12
    <3> HIDE DEF k
    <3>6. Sits(t, i + 2, x) /\ Sits(t, i + 3, y) /\ Sits(t, i + 4, z)
      BY <3>4, <3>5
    <3>7. KindAt(t, i + 2) = "LeftParen" /\ KindAt(t, i + 4) = "RightParen"
      BY <3>3, <3>6, SitsOne
    <3>8. KindAt(t, i + 3) = "Identifier" /\ t[i + 3].slice = grammar.inherit
      BY <3>3, <3>6, SitsOne
    <3>9. first = i + 5
      BY <1>11, <3>4, <3>5 DEF k
    <3> QED BY <3>7, <3>8, <3>9
  <2> QED BY <2>1, <2>2
<1>19. ASSUME KindAt(t, last + 1) \in {"Grammar", "EOF"}
       PROVE  GrammarStatement(t, i) = Ok(last, [part |-> "Grammar", name |-> name, def |-> grammar])
  <2>1. KindAt(t, colon) = "Colon" /\ Statements(t, colon + 1) = Ok(last, grammar.stmts) /\ Grammar(parent, grammar.stmts) = grammar
    <3>1. colon = first /\ parent = grammar.inherit
      BY <1>18
    <3> HIDE DEF colon, parent
    <3> QED BY <3>1, <1>1, <1>15, <1>17, <1>19
  <2>2. GrammarStatement(t, i) =
          IF Statements(t, colon + 1).ok
          THEN Ok(Statements(t, colon + 1).at, [part |-> "Grammar", name |-> t[i + 1].slice,
                                                def |-> Grammar(parent, Statements(t, colon + 1).val)])
          ELSE Fail
    BY <2>1, <1>14, <1>18 DEF GrammarStatement, AndThen
  <2> HIDE DEF colon, parent
  <2> DEFINE r == Statements(t, colon + 1)
  <2>3. r.ok /\ r.at = last /\ r.val = grammar.stmts
    BY <2>1 DEF Ok
  <2> HIDE DEF r
  <2> QED BY <2>1, <2>2, <2>3, <1>14 DEF r
<1> QED BY <1>9, <1>12, <1>13, <1>16, <1>19 DEF IsReadTo

\* Every name of a map occurs once among its names.
LEMMA NamesAre ==
    ASSUME NEW g, NEW S, IsMap(g, S)
    PROVE  /\ Len(NamesOf(g)) \in Nat /\ DOMAIN NamesOf(g) = 1 .. Len(NamesOf(g))
           /\ \A m \in 1 .. Len(NamesOf(g)) :
                NamesOf(g)[m] \in DOMAIN g /\ NamesOf(g)[m] \in Texts /\ g[NamesOf(g)[m]] \in S
           /\ \A i, j \in DOMAIN NamesOf(g) : NamesOf(g)[i] = NamesOf(g)[j] => i = j
           /\ \A x \in DOMAIN g : \E i \in DOMAIN NamesOf(g) : NamesOf(g)[i] = x
<1> DEFINE list == NamesOf(g)
<1>1. list \in Seq(DOMAIN g)
  BY ListOf DEF IsMap, NamesOf
<1> HIDE DEF list
<1>3. Len(list) \in Nat /\ DOMAIN list = 1 .. Len(list) /\ \A m \in 1 .. Len(list) : list[m] \in DOMAIN g
  BY <1>1
<1>4. \A m \in 1 .. Len(list) : list[m] \in Texts /\ g[list[m]] \in S
  BY <1>3 DEF IsMap
<1> QED BY ListOf, <1>3, <1>4 DEF list, IsMap, NamesOf

\* One of the parts, field by field.
LEMMA OnePartIs ==
    ASSUME NEW part, NEW g, NEW m \in 1 .. Len(NamesOf(g))
    PROVE  /\ PartsOf(part, g)[m].part = part /\ PartsOf(part, g)[m].name = NamesOf(g)[m]
           /\ PartsOf(part, g)[m].def = g[NamesOf(g)[m]]
BY DEF PartsOf

\* They are as many as the names.
LEMMA PartsAre ==
    ASSUME NEW part, NEW g, NEW S, IsMap(g, S)
    PROVE  PartsOf(part, g) \in Seq([part : {part}, name : Texts, def : S]) /\ Len(PartsOf(part, g)) = Len(NamesOf(g))
<1> DEFINE list == NamesOf(g)
           n == Len(list)
           p == PartsOf(part, g)
<1>2. n \in Nat /\ \A m \in 1 .. n : list[m] \in DOMAIN g
  BY NamesAre
<1>3. p = [m \in 1 .. n |-> [part |-> part, name |-> list[m], def |-> g[list[m]]]]
  BY DEF PartsOf
<1> HIDE DEF list, n, p
<1>4. \A m \in 1 .. n : list[m] \in Texts /\ g[list[m]] \in S
  BY NamesAre DEF list, n
<1>5. \A m \in 1 .. n : p[m] = [part |-> part, name |-> list[m], def |-> g[list[m]]]
  BY <1>3
<1>6. p = [m \in 1 .. n |-> p[m]] /\ DOMAIN p = 1 .. n
  BY <1>3
<1>7. \A m \in 1 .. n : p[m] \in [part : {part}, name : Texts, def : S]
  <2> TAKE m \in 1 .. n
  <2> DEFINE a == list[m]
             b == g[list[m]]
  <2>1. p[m] = [part |-> part, name |-> a, def |-> b] /\ a \in Texts /\ b \in S
    BY <1>4, <1>5
  <2> HIDE DEF a, b
  <2> QED BY <2>1
<1>8. p \in Seq([part : {part}, name : Texts, def : S])
  BY <1>2, <1>6, <1>7, SeqIs
<1>9. Len(p) = n
  BY <1>2, <1>6, <1>8, LenIs
<1> QED BY <1>8, <1>9 DEF list, n, p

\* What is inserted once each is the map again.
LEMMA MapRead ==
    ASSUME NEW part, NEW S, NEW g, IsMap(g, S), NEW inserts, NEW c \in Nat,
           \A i \in DOMAIN inserts : i \in Nat /\ (inserts[i].part = part <=> i \in c + 1 .. c + Len(PartsOf(part, g))),
           \A m \in 1 .. Len(PartsOf(part, g)) : c + m \in DOMAIN inserts /\ inserts[c + m] = PartsOf(part, g)[m]
    PROVE  MapOf(part, inserts) = g
<1> DEFINE list == NamesOf(g)
           n == Len(list)
           of == {i \in DOMAIN inserts : inserts[i].part = part}
           Spots(x) == {i \in of : inserts[i].name = x}
<1>1. /\ n \in Nat /\ DOMAIN list = 1 .. n /\ Len(PartsOf(part, g)) = n
      /\ \A m \in 1 .. n : PartsOf(part, g)[m].name = list[m] /\ PartsOf(part, g)[m].def = g[list[m]]
      /\ \A m \in 1 .. n : list[m] \in DOMAIN g
  <2>2. Len(PartsOf(part, g)) = n
    BY PartsAre
  <2>3. \A m \in 1 .. n : PartsOf(part, g)[m].name = list[m] /\ PartsOf(part, g)[m].def = g[list[m]]
    <3> TAKE m \in 1 .. n
    <3>1. m \in 1 .. Len(NamesOf(g))
      OBVIOUS
    <3>2. PartsOf(part, g)[m].name = NamesOf(g)[m] /\ PartsOf(part, g)[m].def = g[NamesOf(g)[m]]
      BY <3>1, OnePartIs
    <3> QED BY <3>2
  <2> QED BY NamesAre, <2>2, <2>3
<1>2. /\ \A i, j \in DOMAIN list : list[i] = list[j] => i = j
      /\ \A x \in DOMAIN g : \E i \in DOMAIN list : list[i] = x
  BY NamesAre
<1> HIDE DEF list, n
<1>3. \A m \in 1 .. n : c + m \in of /\ inserts[c + m].name = list[m] /\ inserts[c + m].def = g[list[m]]
  <2> TAKE m \in 1 .. n
  <2>2. c + m \in c + 1 .. c + n
    BY <1>1
  <2> QED BY <1>1, <2>2
<1>4. \A i \in of : i \in Nat /\ \E m \in 1 .. n : i = c + m
  <2> TAKE i \in of
  <2>1. i \in Nat /\ i \in c + 1 .. c + n
    BY <1>1
  <2>2. i - c \in 1 .. n /\ i = c + (i - c)
    BY <2>1, <1>1
  <2> QED BY <2>1, <2>2
<1> HIDE DEF of
<1>5. {inserts[i].name : i \in of} = DOMAIN g
  <2>1. ASSUME NEW i \in of PROVE inserts[i].name \in DOMAIN g
    <3>1. PICK m \in 1 .. n : i = c + m
      BY <1>4
    <3> QED BY <3>1, <1>1, <1>3
  <2>2. ASSUME NEW x \in DOMAIN g PROVE \E i \in of : inserts[i].name = x
    <3>1. PICK m \in 1 .. n : list[m] = x
      BY <1>1, <1>2
    <3> QED BY <3>1, <1>3
  <2> QED BY <2>1, <2>2
<1>6. ASSUME NEW x \in DOMAIN g PROVE inserts[Max(Spots(x))].def = g[x]
  <2>1. PICK m \in 1 .. n : list[m] = x
    BY <1>1, <1>2
  <2> DEFINE k == c + m
  <2>2. k \in of /\ inserts[k].name = x /\ inserts[k].def = g[x] /\ k \in Nat
    BY <2>1, <1>3, <1>4
  <2>3. ASSUME NEW i \in Spots(x) PROVE i = k
    <3>1. PICK j \in 1 .. n : i = c + j
      BY <1>4
    <3>2. list[j] = x
      BY <3>1, <1>3
    <3> QED BY <2>1, <3>1, <3>2, <1>1, <1>2
  <2> HIDE DEF k
  <2>5. Max({k}) = k
    BY <2>2 DEF Max
  <2> QED BY <2>2, <2>3, <2>5
<1>7. g = [x \in DOMAIN g |-> g[x]]
  BY DEF IsMap
<1>8. MapOf(part, inserts) = [x \in {inserts[i].name : i \in of} |-> inserts[Max(Spots(x))].def]
  BY DEF MapOf, of
<1> HIDE DEF Spots
<1> QED BY <1>5, <1>6, <1>7, <1>8

\* One set of sequences is part of the other.
LEMMA SeqMore == ASSUME NEW S, NEW T, S \subseteq T, NEW s \in Seq(S) PROVE s \in Seq(T)
<1> DEFINE n == Len(s)
<1>1. n \in Nat /\ s = [m \in 1 .. n |-> s[m]] /\ \A m \in 1 .. n : s[m] \in S
  OBVIOUS
<1> HIDE DEF n
<1> QED BY <1>1, SeqIs

\* The definitions are written in tokens.
LEMMA DefinesTokensIs == ASSUME NEW g, IsMap(g, AnyExpr) PROVE DefinesTokens(g) \in Tokens
<1> DEFINE list == NamesOf(g)
           n == Len(list)
           s == [m \in DOMAIN list |-> DefineTokens(list[m], g[list[m]])]
<1>1. n \in Nat /\ DOMAIN list = 1 .. n /\ \A m \in 1 .. n : list[m] \in Texts /\ g[list[m]] \in AnyExpr
  BY NamesAre
<1>2. s = [m \in 1 .. n |-> s[m]] /\ DefinesTokens(g) = FlattenSeq(s)
  BY <1>1 DEF DefinesTokens
<1>3. \A m \in 1 .. n : s[m] = DefineTokens(list[m], g[list[m]])
  BY <1>1
<1> HIDE DEF list, n, s
<1>4. \A m \in 1 .. n : s[m] \in Tokens
  BY <1>1, <1>3, DefineTokensIs
<1>5. s \in Seq(Tokens)
  BY <1>1, <1>2, <1>4, SeqIs
<1> QED BY <1>2, <1>5, FlatIs DEF Tokens

\* The grammars are written in tokens.
LEMMA GrammarsTokensIs ==
    ASSUME NEW g, IsMap(g, AnyGrammar), NEW layout \in Layouts
    PROVE  GrammarsTokens(g, layout) \in Tokens
<1> DEFINE list == NamesOf(g)
           n == Len(list)
           s == [m \in DOMAIN list |-> GrammarTokens(list[m], g[list[m]], layout)]
<1>1. n \in Nat /\ DOMAIN list = 1 .. n /\ \A m \in 1 .. n : list[m] \in Texts /\ g[list[m]] \in AnyGrammar
  BY NamesAre
<1>2. s = [m \in 1 .. n |-> s[m]] /\ GrammarsTokens(g, layout) = FlattenSeq(s)
  BY <1>1 DEF GrammarsTokens
<1>3. \A m \in 1 .. n : s[m] = GrammarTokens(list[m], g[list[m]], layout)
  BY <1>1
<1> HIDE DEF list, n, s
<1>4. \A m \in 1 .. n : s[m] \in Tokens
  BY <1>1, <1>3, GrammarTokensIs
<1>5. s \in Seq(Tokens)
  BY <1>1, <1>2, <1>4, SeqIs
<1> QED BY <1>2, <1>5, FlatIs DEF Tokens

\* The definitions of a document are read one after the other.
LEMMA DefinesRead ==
    ASSUME NEW t \in Tokens, NEW i, NEW g, IsMap(g, AnyExpr),
           Sits(t, i, DefinesTokens(g)), NEW last, last = i + Len(DefinesTokens(g)), NEW f, ReadsOn(t, f),
           NEW at, NEW rest \in Seq(AnyPart), f[last] = Ok(at, rest)
    PROVE  f[i] = Ok(at, PartsOf("Define", g) \o rest)
<1> DEFINE list == NamesOf(g)
           n == Len(list)
           v == PartsOf("Define", g)
           s == [m \in DOMAIN list |-> DefineTokens(list[m], g[list[m]])]
<1>1. /\ n \in Nat /\ DOMAIN list = 1 .. n
      /\ \A m \in 1 .. n : list[m] \in Texts /\ g[list[m]] \in AnyExpr
  BY NamesAre
<1>2. Len(v) = n /\ v \in Seq(AnyPart)
  <2> DEFINE P == [part : {"Define"}, name : Texts, def : AnyExpr]
  <2>1. Len(v) = n /\ v \in Seq(P)
    BY PartsAre
  <2>2. P \subseteq AnyPart
    BY DEF AnyPart
  <2> HIDE DEF v, P
  <2> QED BY <2>1, <2>2, SeqMore
<1>3. \A m \in 1 .. n : v[m] = [part |-> "Define", name |-> list[m], def |-> g[list[m]]]
  BY DEF PartsOf
<1>4. \A m \in 1 .. n : s[m] = DefineTokens(list[m], g[list[m]])
  BY <1>1
<1>5. s = [m \in 1 .. n |-> s[m]] /\ DOMAIN s = 1 .. n
  BY <1>1
<1>6. Sits(t, i, FlattenSeq(s)) /\ last = i + Len(FlattenSeq(s))
  BY DEF DefinesTokens
<1> HIDE DEF list, n, v, s
<1>7. s \in Seq(Tokens) /\ Len(s) = n
  <2>1. \A m \in 1 .. n : s[m] \in Tokens
    BY <1>1, <1>4, DefineTokensIs
  <2>2. s \in Seq(Tokens)
    BY <1>1, <1>5, <2>1, SeqIs
  <2> QED BY <1>1, <1>5, <2>2, LenIs
<1>8. PICK x \in [0 .. n -> 1 .. Len(t) + 1] :
        /\ x[0] = i /\ x[n] = last
        /\ \A m \in 1 .. n : Sits(t, x[m - 1], s[m]) /\ x[m] = x[m - 1] + Len(s[m])
  <2>1. \E x \in [0 .. Len(s) -> 1 .. Len(t) + 1] :
          /\ x[0] = i /\ x[Len(s)] = i + Len(FlattenSeq(s))
          /\ \A m \in 1 .. Len(s) : Sits(t, x[m - 1], s[m]) /\ x[m] = x[m - 1] + Len(s[m])
    BY <1>6, <1>7, SitsFlat, ZenonT(60)
  <2> QED BY <1>6, <1>7, <2>1, ZenonT(30)
<1> DEFINE y == [m \in 0 .. n |-> f[x[m]]]
<1>9. ASSUME NEW m \in 1 .. n PROVE y[m - 1] = Prepend(v[m], y[m])
  <2> DEFINE a == x[m - 1]
             z == x[m]
             name == list[m]
             e == g[list[m]]
             p == PartAt(t, a)
  <2>2. y[m - 1] = f[a] /\ y[m] = f[z]
    BY <1>1
  <2>3. /\ Sits(t, a, DefineTokens(name, e)) /\ z = a + Len(DefineTokens(name, e)) /\ name \in Texts /\ e \in AnyExpr
        /\ v[m] = [part |-> "Define", name |-> name, def |-> e]
    BY <1>1, <1>3, <1>4, <1>8
  <2> HIDE DEF y, a, z, name, e
  <2>4. /\ KindAt(t, a) = "Define" /\ a \in 1 .. Len(t) + 1
        /\ DefineStatement(t, a) = Ok(a + 3, [part |-> "Define", name |-> name, def |-> e])
        /\ KindAt(t, a + 3) = "Newline" /\ a + 3 \in 1 .. Len(t) + 1
        /\ z = (a + 3) + 1
    BY <2>3, DefineRead
  <2>6. p.ok /\ p.at = a + 3 /\ p.val = v[m]
    BY <2>3, <2>4 DEF Ok, PartAt
  <2>7. f[a] = Prepend(v[m], f[a + 3])
    <3>1. f[a] = IF p.ok THEN Prepend(p.val, f[p.at]) ELSE Ok(a, <<>>)
      BY <2>4 DEF ReadsOn
    <3> HIDE DEF p
    <3> QED BY <3>1, <2>6
  <2> QED BY <2>2, <2>7, <2>4 DEF ReadsOn
<1>10. y[0] = f[i] /\ y[n] = Ok(at, rest)
  <2>1. 0 \in 0 .. n /\ n \in 0 .. n
    BY <1>1
  <2>2. y[0] = f[x[0]] /\ y[n] = f[x[n]]
    BY <2>1
  <2> HIDE DEF y
  <2> QED BY <2>2, <1>8
<1> HIDE DEF y
<1>11. y[0] = Ok(at, v \o rest)
  BY <1>2, <1>9, <1>10, Chain
<1> QED BY <1>10, <1>11 DEF v

\* And so are its grammars, up to the end.
LEMMA GrammarsRead ==
    ASSUME NEW t \in Tokens, NEW i, NEW g, IsMap(g, AnyGrammar), NEW layout \in Layouts,
           AllWellLaid(g, layout),
           Sits(t, i, GrammarsTokens(g, layout)),
           NEW last, last = i + Len(GrammarsTokens(g, layout)), KindAt(t, last) = "EOF",
           NEW f, ReadsOn(t, f)
    PROVE  f[i] = Ok(last, PartsOf("Grammar", g))
<1> DEFINE list == NamesOf(g)
           n == Len(list)
           v == PartsOf("Grammar", g)
           s == [m \in DOMAIN list |-> GrammarTokens(list[m], g[list[m]], layout)]
<1>1. /\ n \in Nat /\ DOMAIN list = 1 .. n
      /\ \A m \in 1 .. n : list[m] \in DOMAIN g /\ list[m] \in Texts /\ g[list[m]] \in AnyGrammar
  BY NamesAre
<1>2. Len(v) = n /\ v \in Seq(AnyPart)
  <2> DEFINE P == [part : {"Grammar"}, name : Texts, def : AnyGrammar]
  <2>1. Len(v) = n /\ v \in Seq(P)
    BY PartsAre
  <2>2. P \subseteq AnyPart
    BY DEF AnyPart
  <2> HIDE DEF v, P
  <2> QED BY <2>1, <2>2, SeqMore
<1>3. \A m \in 1 .. n : v[m] = [part |-> "Grammar", name |-> list[m], def |-> g[list[m]]]
  BY DEF PartsOf
<1>4. \A m \in 1 .. n : s[m] = GrammarTokens(list[m], g[list[m]], layout)
  BY <1>1
<1>5. s = [m \in 1 .. n |-> s[m]] /\ DOMAIN s = 1 .. n
  BY <1>1
<1>6. Sits(t, i, FlattenSeq(s)) /\ last = i + Len(FlattenSeq(s))
  BY DEF GrammarsTokens
<1> HIDE DEF list, n, v, s
<1>7. s \in Seq(Tokens) /\ Len(s) = n
  <2>2. s \in Seq(Tokens)
    BY <1>1, <1>5, <1>4, GrammarTokensIs, SeqIs
  <2> QED BY <1>1, <1>5, <2>2, LenIs
<1>8. PICK x \in [0 .. n -> 1 .. Len(t) + 1] :
        /\ x[0] = i /\ x[n] = last
        /\ \A m \in 1 .. n : Sits(t, x[m - 1], s[m]) /\ x[m] = x[m - 1] + Len(s[m])
  <2>1. \E x \in [0 .. Len(s) -> 1 .. Len(t) + 1] :
          /\ x[0] = i /\ x[Len(s)] = i + Len(FlattenSeq(s))
          /\ \A m \in 1 .. Len(s) : Sits(t, x[m - 1], s[m]) /\ x[m] = x[m - 1] + Len(s[m])
    BY <1>6, <1>7, SitsFlat, ZenonT(60)
  <2> QED BY <1>6, <1>7, <2>1, ZenonT(30)
<1>9. \A m \in 1 .. n : /\ Sits(t, x[m - 1], GrammarTokens(list[m], g[list[m]], layout))
                        /\ x[m] = x[m - 1] + Len(GrammarTokens(list[m], g[list[m]], layout))
                        /\ WellLaid(g[list[m]].stmts, layout)
  BY <1>1, <1>4, <1>8 DEF AllWellLaid
\* A grammar is followed by the next one, or by the end.
<1>10. ASSUME NEW m \in 1 .. n PROVE KindAt(t, x[m - 1]) = "Grammar"
  <2> DEFINE a == x[m - 1]
             name == list[m]
             h == g[list[m]]
  <2>1. Sits(t, a, GrammarTokens(name, h, layout)) /\ WellLaid(h.stmts, layout) /\ name \in Texts /\ h \in AnyGrammar
    BY <1>1, <1>9
  <2> HIDE DEF a, name, h
  <2>2. KindAt(t, a) = "Grammar"
    BY <2>1, GrammarRead
  <2> QED BY <2>2 DEF a
<1>11. ASSUME NEW m \in 1 .. n PROVE KindAt(t, x[m]) \in {"Grammar", "EOF"}
  <2>1. CASE m = n
    BY <2>1, <1>8
  <2>2. CASE m # n
    <3>1. m + 1 \in 1 .. n /\ (m + 1) - 1 = m
      BY <2>2, <1>1
    <3> QED BY <3>1, <1>10
  <2> QED BY <2>1, <2>2
<1> DEFINE y == [m \in 0 .. n |-> f[x[m]]]
<1>12. ASSUME NEW m \in 1 .. n PROVE y[m - 1] = Prepend(v[m], y[m])
  <2> DEFINE a == x[m - 1]
             z == x[m]
             name == list[m]
             h == g[list[m]]
             p == PartAt(t, a)
  <2>2. y[m - 1] = f[a] /\ y[m] = f[z]
    BY <1>1
  <2>3. /\ Sits(t, a, GrammarTokens(name, h, layout)) /\ z = a + Len(GrammarTokens(name, h, layout))
        /\ WellLaid(h.stmts, layout) /\ name \in Texts /\ h \in AnyGrammar
        /\ v[m] = [part |-> "Grammar", name |-> name, def |-> h]
        /\ KindAt(t, z) \in {"Grammar", "EOF"}
    BY <1>1, <1>3, <1>9, <1>11
  <2> HIDE DEF y, a, z, name, h
  <2>4. KindAt(t, a) = "Grammar" /\ a \in 1 .. Len(t) + 1 /\ IsReadTo(t, a, z, name, h)
    <3>1. KindAt(t, a + Len(GrammarTokens(name, h, layout))) \in {"Grammar", "EOF"}
      BY <2>3
    <3> QED BY <2>3, <3>1, GrammarRead
  <2>5. PICK b \in 1 .. Len(t) + 1 :
          /\ GrammarStatement(t, a) = Ok(b, [part |-> "Grammar", name |-> name, def |-> h])
          /\ KindAt(t, b) = "Newline" /\ z = b + 1
    BY <2>4 DEF IsReadTo
  <2>6. p = Ok(b, v[m])
    BY <2>3, <2>4, <2>5 DEF PartAt
  <2>7. p.ok /\ p.at = b /\ p.val = v[m]
    BY <2>6 DEF Ok
  <2>8. f[a] = Prepend(v[m], f[b])
    <3>1. f[a] = IF p.ok THEN Prepend(p.val, f[p.at]) ELSE Ok(a, <<>>)
      BY <2>4 DEF ReadsOn
    <3> HIDE DEF p
    <3> QED BY <3>1, <2>7
  <2> QED BY <2>2, <2>8, <2>5 DEF ReadsOn
<1>13. y[0] = f[i] /\ y[n] = Ok(last, <<>>)
  <2>1. 0 \in 0 .. n /\ n \in 0 .. n /\ x[n] \in 1 .. Len(t) + 1
    BY <1>1
  <2>2. y[0] = f[x[0]] /\ y[n] = f[x[n]]
    BY <2>1
  <2> HIDE DEF y
  <2>3. last \in 1 .. Len(t) + 1
    BY <2>1, <1>8
  <2>5. ~ PartAt(t, last).ok
    BY DEF Fail, PartAt
  <2>6. f[last] = Ok(last, <<>>)
    BY <2>3, <2>5 DEF ReadsOn
  <2> QED BY <2>2, <2>6, <1>8
<1> HIDE DEF y
<1>14. y[0] = Ok(last, v \o <<>>)
  <2>1. <<>> \in Seq(AnyPart)
    OBVIOUS
  <2> QED BY <1>2, <1>12, <1>13, <2>1, Chain
<1>15. v \o <<>> = v
  BY <1>2, ConcatEmptySeq
<1> QED BY <1>13, <1>14, <1>15 DEF v

\* A document is read as it was written.
LEMMA DocumentRead ==
    ASSUME NEW doc, IsDoc(doc), NEW layout \in Layouts, WellLaidOut(doc, layout)
    PROVE  \E at : Document(TokensOf(doc, layout)) = Ok(at, doc)
<1> DEFINE t == TokensOf(doc, layout)
           d == DefinesTokens(doc.defines)
           g == GrammarsTokens(doc.grammars, layout)
           e == Mark("EOF")
<1>1. /\ doc = [defines |-> doc.defines, grammars |-> doc.grammars]
      /\ IsMap(doc.defines, AnyExpr) /\ IsMap(doc.grammars, AnyGrammar)
  BY DEF IsDoc
<1>2. t \in Tokens
  BY TokensOfIs
<1>3. t = (d \o g) \o e
  BY DEF TokensOf, DefinesTokens, GrammarsTokens, NamesOf
<1>4. d \in Tokens /\ g \in Tokens /\ e \in Tokens
  <2>1. d \in Tokens
    BY <1>1, DefinesTokensIs
  <2> QED BY <2>1, <1>1, GrammarsTokensIs, MarkIs
<1>5. Len(e) = 1 /\ e[1].kind = "EOF"
  BY OneToken
<1> HIDE DEF t, d, g, e
<1> DEFINE mid == 1 + Len(d)
           last == mid + Len(g)
<1>6. Sits(t, 1, d) /\ Sits(t, mid, g) /\ Sits(t, last, e)
  <2>1. Sits(t, 1, t)
    <3>1. Len(t) \in Nat
      BY <1>2 DEF Tokens
    <3> QED BY <3>1 DEF Sits
  <2>2. Sits(t, 1, (d \o g) \o e)
    BY <2>1, <1>3
  <2> QED BY <1>2, <1>4, <2>2, SitsThree
<1>7. last = mid + Len(g) /\ mid = 1 + Len(d)
  OBVIOUS
<1> HIDE DEF mid, last
<1>8. KindAt(t, last) = "EOF"
  BY <1>2, <1>5, <1>6, SitsOne
<1>9. PICK f : /\ ReadsOn(t, f)
               /\ Document(t) = IF f[1].ok
                                THEN IF KindAt(t, f[1].at) # "EOF" THEN Fail
                                     ELSE Ok(f[1].at, [defines |-> MapOf("Define", f[1].val),
                                                       grammars |-> MapOf("Grammar", f[1].val)])
                                ELSE Fail
  <2> HIDE DEF Prepend
  <2> QED BY <1>2, DocumentUnfold DEF ReadsOn
<1> DEFINE a == PartsOf("Define", doc.defines)
           b == PartsOf("Grammar", doc.grammars)
           c == a \o b
<1>10. /\ a \in Seq([part : {"Define"}, name : Texts, def : AnyExpr])
       /\ b \in Seq([part : {"Grammar"}, name : Texts, def : AnyGrammar])
  BY <1>1, PartsAre
<1>11. a \in Seq(AnyPart) /\ b \in Seq(AnyPart)
  <2> DEFINE P == [part : {"Define"}, name : Texts, def : AnyExpr]
             Q == [part : {"Grammar"}, name : Texts, def : AnyGrammar]
  <2> HIDE DEF P, Q, a, b
  <2> QED BY <1>10, SeqMore DEF AnyPart
<1>12. f[mid] = Ok(last, b)
  <2> DEFINE gs == doc.grammars
  <2>1. AllWellLaid(gs, layout)
    BY DEF WellLaidOut, WellLaid, AllWellLaid
  <2>2. Sits(t, mid, GrammarsTokens(gs, layout)) /\ last = mid + Len(GrammarsTokens(gs, layout))
    BY <1>6, <1>7 DEF g
  <2>3. IsMap(gs, AnyGrammar) /\ ReadsOn(t, f)
    BY <1>1, <1>9
  <2> HIDE DEF gs
  <2>4. f[mid] = Ok(last, PartsOf("Grammar", gs))
    BY <1>2, <1>8, <2>1, <2>2, <2>3, GrammarsRead
  <2> QED BY <2>4 DEF gs
<1>13. f[1] = Ok(last, c)
  <2> HIDE DEF b
  <2> QED BY <1>1, <1>2, <1>6, <1>7, <1>9, <1>11, <1>12, DefinesRead DEF d
<1>14. Document(t) = Ok(last, [defines |-> MapOf("Define", c), grammars |-> MapOf("Grammar", c)])
  <2> HIDE DEF c
  <2> QED BY <1>13, <1>8, <1>9 DEF Ok
<1> DEFINE n == Len(a)
           m == Len(b)
<1>15. /\ n \in Nat /\ m \in Nat
       /\ \A i \in 1 .. n : a[i].part = "Define"
       /\ \A i \in 1 .. m : b[i].part = "Grammar"
  <2> DEFINE P == [part : {"Define"}, name : Texts, def : AnyExpr]
             Q == [part : {"Grammar"}, name : Texts, def : AnyGrammar]
  <2>1. (\A x \in P : x.part = "Define") /\ \A x \in Q : x.part = "Grammar"
    OBVIOUS
  <2>2. a \in Seq(P) /\ b \in Seq(Q)
    BY <1>10
  <2> HIDE DEF a, b, P, Q
  <2> QED BY <2>1, <2>2
<1>16. /\ c \in Seq(AnyPart) /\ Len(c) = n + m
       /\ \A i \in 1 .. n : c[i] = a[i]
       /\ \A i \in 1 .. m : c[n + i] = b[i]
  <2> HIDE DEF a, b
  <2> QED BY <1>11
<1>17. /\ DOMAIN c = 1 .. n + m
       /\ \A i \in 1 .. n + m : /\ i \in Nat /\ (c[i].part = "Define" <=> i \in 1 .. n)
                                /\ (c[i].part = "Grammar" <=> i \in n + 1 .. n + m)
  <2> HIDE DEF a, b, c, n, m
  <2>2. ASSUME NEW i \in 1 .. n + m
        PROVE  /\ i \in Nat /\ (c[i].part = "Define" <=> i \in 1 .. n)
               /\ (c[i].part = "Grammar" <=> i \in n + 1 .. n + m)
    <3>1. CASE i \in 1 .. n
      BY <3>1, <1>15, <1>16
    <3>2. CASE i \notin 1 .. n
      <4>1. i - n \in 1 .. m /\ n + (i - n) = i /\ i \in n + 1 .. n + m /\ i \in Nat
        BY <3>2, <1>15
      <4> QED BY <3>2, <4>1, <1>15, <1>16
    <3> QED BY <3>1, <3>2
  <2> QED BY <1>15, <1>16, <2>2
<1>18. MapOf("Define", c) = doc.defines
  <2> DEFINE z == 0
  <2>1. z \in Nat
    OBVIOUS
  <2>2. \A i \in DOMAIN c : i \in Nat /\ (c[i].part = "Define" <=> i \in z + 1 .. z + Len(a))
    <3> HIDE DEF a, b, c, m
    <3>1. z + 1 = 1 /\ z + Len(a) = n
      BY <1>15
    <3> HIDE DEF z, n
    <3> QED BY <1>17, <3>1
  <2>3. \A i \in 1 .. Len(a) : z + i \in DOMAIN c /\ c[z + i] = a[i]
    <3> HIDE DEF a, b, c, m
    <3> TAKE i \in 1 .. Len(a)
    <3>1. z + i = i /\ i \in 1 .. n /\ i \in 1 .. n + m
      BY <1>15
    <3> HIDE DEF z, n
    <3> QED BY <1>16, <1>17, <3>1
  <2> HIDE DEF z, c, m, b
  <2> QED BY <1>1, <2>1, <2>2, <2>3, MapRead
<1>19. MapOf("Grammar", c) = doc.grammars
  <2>1. \A i \in DOMAIN c : i \in Nat /\ (c[i].part = "Grammar" <=> i \in n + 1 .. n + Len(b))
    <3> HIDE DEF a, b, c, n
    <3> QED BY <1>17
  <2>2. \A i \in 1 .. Len(b) : n + i \in DOMAIN c /\ c[n + i] = b[i]
    <3> HIDE DEF a, b, c, n
    <3> TAKE i \in 1 .. Len(b)
    <3>1. i \in 1 .. m /\ n + i \in 1 .. n + m
      BY <1>15
    <3> HIDE DEF m
    <3> QED BY <1>16, <1>17, <3>1
  <2> HIDE DEF n, c, a
  <2> QED BY <1>1, <1>15, <2>1, <2>2, MapRead
<1> HIDE DEF c
<1>20. Document(t) = Ok(last, doc)
  BY <1>1, <1>14, <1>18, <1>19
<1> QED BY <1>20 DEF t

\* A document laid out well is parsed to what was written, whatever it consists of
\* and whatever is done with it then.
THEOREM DocumentsAreRead == Spec => []ParsesAsWritten
<1>1. Init => ParsesAsWritten
  <2> SUFFICES ASSUME Init PROVE ParsesAsWritten
    OBVIOUS
  <2> QED BY DEF ParsesAsWritten, Init
<1>2. ASSUME IInv, ParsesAsWritten, [Next]_vars PROVE ParsesAsWritten'
  <2>1. CASE Parse
    <3> SUFFICES ASSUME WellLaidOut(source.doc, source.layout) PROVE ast' = source.doc
      BY <2>1 DEF Parse, ParsesAsWritten
    <3>2. PICK at : Document(TokensOf(source.doc, source.layout)) = Ok(at, source.doc)
      BY <1>2, DocumentRead DEF IInv, DocumentOK
    <3> DEFINE r == Document(TokensOf(source.doc, source.layout))
    <3>3. r.ok /\ r.val = source.doc
      BY <3>2 DEF Ok
    <3>4. ast' = IF r.ok THEN r.val ELSE NoDoc
      BY <2>1 DEF Parse
    <3> HIDE DEF r
    <3> QED BY <3>3, <3>4
  <2>2. CASE ~ Parse
    <3>1. (phase # "source" /\ UNCHANGED <<source, ast>>) \/ UNCHANGED vars
      <4>1. CASE Next
        BY <2>2, <4>1 DEF Next, Check, Compile, Act, RunInlineGrammar, Return, Restart, EvalMatch, EvalWhen,
                          EvalAction, EvalSkip, ReadInside, Run
      <4> QED BY <4>1, <1>2
    <3> QED BY <1>2, <3>1 DEF ParsesAsWritten, WellLaidOut, vars
  <2> QED BY <2>1, <2>2
<1> QED BY <1>1, <1>2, TypeCorrect, PTL DEF Spec
==============================================================================
