------------------------- MODULE StreamLexer_proof -------------------------
(***************************************************************************)
(* Proofs for StreamLexer, for every source, every size of the chunks and  *)
(* every size of a batch.                                                  *)
(***************************************************************************)
EXTENDS StreamLexer, TLAPS, SequenceTheorems, WellFoundedInduction

-----------------------------------------------------------------------------
(* Where tokens end                                                        *)

LEMMA Smallest ==
    ASSUME NEW T \in SUBSET Nat, T # {}
    PROVE  \E x \in T : \A y \in T : x <= y
<1>1. PICK x \in T : \A y \in T : ~ (<<y, x>> \in OpToRel(<, Nat))
  BY NatLessThanWellFounded, WFMin, Zenon
<1>2. \A y \in T : ~ (y < x)
  BY <1>1 DEF OpToRel
<1> QED BY <1>2

\* A stretch ends where the text does or before the first other character.
LEMMA StretchFacts ==
    ASSUME NEW p \in Nat, NEW e \in Nat, p <= e, NEW S
    PROVE  LET k == StretchEnd(p, e, S) IN
           k \in p .. e /\ (\A i \in p .. k - 1 : Ch(i) \in S) /\ (k = e \/ Ch(k) \notin S)
<1> DEFINE T == {i \in p .. e : i = e \/ Ch(i) \notin S}
<1>1. T \in SUBSET Nat /\ e \in T
  OBVIOUS
<1>2. PICK k \in T : \A y \in T : k <= y
  <2> HIDE DEF T
  <2> QED BY <1>1, Smallest
<1>3. \A i \in p .. k - 1 : i \in p .. e /\ i # e /\ i < k
  BY <1>2
<1>4. \A i \in p .. k - 1 : Ch(i) \in S
  BY <1>2, <1>3
<1>5. k \in p .. e /\ (k = e \/ Ch(k) \notin S)
  BY <1>2
<1>6. \E x \in p .. e : (\A i \in p .. x - 1 : Ch(i) \in S) /\ (x = e \/ Ch(x) \notin S)
  BY <1>4, <1>5
<1> QED BY <1>6 DEF StretchEnd

\* A literal is closed at its first delimiter.
LEMMA ClosedFacts ==
    ASSUME NEW p \in Nat, NEW e \in Nat, Closers(p, e) # {}
    PROVE  /\ ClosedAt(p, e) \in Closers(p, e) /\ ClosedAt(p, e) \in p + 1 .. e - 1
           /\ \A j \in Closers(p, e) : ClosedAt(p, e) <= j
<1>1. Closers(p, e) \in SUBSET Nat
  BY DEF Closers
<1>2. \E x \in Closers(p, e) : \A j \in Closers(p, e) : x <= j
  BY <1>1, Smallest
<1>3. ClosedAt(p, e) \in Closers(p, e) /\ \A j \in Closers(p, e) : ClosedAt(p, e) <= j
  BY <1>2 DEF ClosedAt
<1> QED BY <1>3 DEF Closers

\* A token is not empty and lies in the text.
LEMMA TokenEndFacts ==
    ASSUME NEW p \in Nat, NEW e \in Nat, p < e, ~ NoToken(p, e)
    PROVE  TokenEnd(p, e) \in p + 1 .. e
<1>1. CASE Ch(p) = "q"
  <2>1. Closers(p, e) # {}
    BY <1>1 DEF NoToken, Fragmented
  <2>2. ClosedAt(p, e) \in p + 1 .. e - 1
    BY <2>1, ClosedFacts
  <2>3. TokenEnd(p, e) = ClosedAt(p, e) + 1
    BY <1>1 DEF TokenEnd
  <2> QED BY <2>2, <2>3
<1>2. CASE Ch(p) # "q"
  <2>1. PICK S : TokenEnd(p, e) = StretchEnd(p, e, S) /\ Ch(p) \in S
    <3>1. CASE Ch(p) = "#"
      BY <3>1 DEF TokenEnd
    <3>2. CASE Ch(p) # "#"
      BY <1>2, <3>2 DEF TokenEnd
    <3> QED BY <3>1, <3>2
  <2>2. StretchEnd(p, e, S) \in p .. e /\ (StretchEnd(p, e, S) = e \/ Ch(StretchEnd(p, e, S)) \notin S)
    BY StretchFacts
  <2>3. StretchEnd(p, e, S) # p
    BY <2>1, <2>2
  <2> QED BY <2>1, <2>2, <2>3
<1> QED BY <1>1, <1>2

-----------------------------------------------------------------------------
(* Sequences of tokens in the order of the text                            *)

TokenRec == [kind : Char \cup {"eof", "open"}, start : Nat, len : Nat]

\* The tokens of s lie between a and b, in order.
Within(s, a, b) ==
    /\ s \in Seq(TokenRec)
    /\ \A i \in 1 .. Len(s) - 1 : s[i].start + s[i].len <= s[i + 1].start
    /\ \A i \in 1 .. Len(s) : a <= s[i].start /\ s[i].start + s[i].len <= b

LEMMA WithinConcat ==
    ASSUME NEW s, NEW t, NEW a \in Nat, NEW b \in Nat, NEW c \in Nat, a <= b, b <= c,
           Within(s, a, b), Within(t, b, c)
    PROVE  Within(s \o t, a, c)
<1> DEFINE q == s \o t
           n == Len(s)
<1>1. /\ s \in Seq(TokenRec) /\ t \in Seq(TokenRec) /\ n \in Nat /\ Len(t) \in Nat
      /\ \A i \in 1 .. n : s[i] \in TokenRec
      /\ \A i \in 1 .. Len(t) : t[i] \in TokenRec
  BY DEF Within
<1>2. /\ q \in Seq(TokenRec) /\ Len(q) = n + Len(t)
      /\ \A i \in 1 .. n : q[i] = s[i]
      /\ \A i \in n + 1 .. n + Len(t) : q[i] = t[i - n] /\ i - n \in 1 .. Len(t)
  BY <1>1
<1> HIDE DEF q, n
<1>3. ASSUME NEW i \in 1 .. Len(q)
      PROVE  a <= q[i].start /\ q[i].start + q[i].len <= c
  <2>1. CASE i \in 1 .. n
    <3>1. q[i] = s[i] /\ s[i].start \in Nat /\ s[i].len \in Nat
      BY <2>1, <1>1, <1>2 DEF TokenRec
    <3>2. a <= s[i].start /\ s[i].start + s[i].len <= b
      BY <2>1 DEF Within, n
    <3> QED BY <3>1, <3>2
  <2>2. CASE i \in n + 1 .. n + Len(t)
    <3>1. /\ q[i] = t[i - n] /\ t[i - n].start \in Nat /\ t[i - n].len \in Nat
          /\ i - n \in 1 .. Len(t)
      BY <2>2, <1>1, <1>2 DEF TokenRec
    <3>2. b <= t[i - n].start /\ t[i - n].start + t[i - n].len <= c
      BY <3>1 DEF Within
    <3> QED BY <3>1, <3>2
  <2> QED BY <2>1, <2>2, <1>1, <1>2
<1>4. ASSUME NEW i \in 1 .. Len(q) - 1
      PROVE  q[i].start + q[i].len <= q[i + 1].start
  <2>1. CASE i + 1 <= n
    <3>1. q[i] = s[i] /\ q[i + 1] = s[i + 1] /\ i \in 1 .. n - 1
      BY <2>1, <1>1, <1>2
    <3> QED BY <3>1 DEF Within, n
  <2>2. CASE i = n
    <3>1. q[i] = s[i] /\ q[i + 1] = t[1] /\ i \in 1 .. n /\ 1 \in 1 .. Len(t)
      BY <2>2, <1>1, <1>2
    <3>2. /\ s[i].start \in Nat /\ s[i].len \in Nat /\ t[1].start \in Nat
      BY <3>1, <1>1 DEF TokenRec
    <3>3. s[i].start + s[i].len <= b /\ b <= t[1].start
      BY <3>1 DEF Within, n
    <3> QED BY <3>1, <3>2, <3>3
  <2>3. CASE i >= n + 1
    <3> DEFINE j == i + 1
               k == i - n
    <3>1. n \in Nat /\ Len(t) \in Nat /\ i \in Int /\ i <= n + Len(t) - 1
      BY <1>1, <1>2
    <3>2. /\ i \in n + 1 .. n + Len(t) /\ j \in n + 1 .. n + Len(t)
          /\ k \in 1 .. Len(t) - 1 /\ j - n = k + 1
      BY <3>1, <2>3
    <3> HIDE DEF j
    <3>3. q[j] = t[j - n] /\ q[i] = t[i - n]
      BY <3>2, <1>2
    <3>4. q[i] = t[k] /\ q[j] = t[k + 1]
      BY <3>2, <3>3
    <3> HIDE DEF k
    <3>5. t[k].start + t[k].len <= t[k + 1].start
      BY <3>2 DEF Within
    <3> QED BY <3>4, <3>5 DEF j
  <2> QED BY <2>1, <2>2, <2>3, <1>1
<1> QED BY <1>2, <1>3, <1>4 DEF Within, q

LEMMA WithinOne ==
    ASSUME NEW a \in Nat, NEW c \in Nat, NEW t \in TokenRec, a <= t.start, t.start + t.len <= c
    PROVE  Within(<<t>>, a, c)
BY DEF Within

LEMMA WithinNone ==
    ASSUME NEW a \in Nat, NEW c \in Nat
    PROVE  Within(<<>>, a, c)
BY DEF Within

LEMMA WithinLater ==
    ASSUME NEW s, NEW a \in Nat, NEW b \in Nat, NEW c \in Nat, a <= b, b <= c, Within(s, a, b)
    PROVE  Within(s, a, c)
<1>1. Within(s \o <<>>, a, c)
  BY WithinConcat, WithinNone
<1>2. s \o <<>> = s
  BY DEF Within
<1> QED BY <1>1, <1>2

LEMMA WithinAppend ==
    ASSUME NEW s, NEW a \in Nat, NEW b \in Nat, NEW c \in Nat, a <= b, b <= c, Within(s, a, b),
           NEW t \in TokenRec, b <= t.start, t.start + t.len <= c
    PROVE  Within(Append(s, t), a, c)
<1>1. Within(s \o <<t>>, a, c)
  BY WithinConcat, WithinOne
<1>2. s \o <<t>> = Append(s, t)
  BY DEF Within
<1> QED BY <1>1, <1>2

-----------------------------------------------------------------------------
(* The inductive invariant of the order                                    *)

NoEof(s) == \A i \in 1 .. Len(s) : s[i].kind # "eof"

\* The tokens returned lie before offset, those of the batch between offset and
\* At; the EOF token is the last one and comes when the lexer is finished.
IInv ==
    /\ input \in Seq(Char)
    /\ offset \in Nat /\ local \in Nat /\ read \in Nat
    /\ offset + local <= read /\ read <= Len(input)
    /\ cuts \subseteq 1 .. Len(input)
    /\ phase \in {"idle", "start", "lex", "full", "end", "failed"}
    /\ eof => read = Len(input)
    /\ Within(out, 0, offset)
    /\ phase \in {"lex", "full"} => Within(batch, offset, offset + local) /\ NoEof(batch)
    /\ finished => /\ phase \in {"idle", "end"} /\ offset = Len(input)
                   /\ out # <<>> /\ out[Len(out)].kind = "eof"
    /\ phase = "end" => finished
    /\ \A i \in 1 .. Len(out) : out[i].kind = "eof" =>
          finished /\ i = Len(out) /\ out[i].start = Len(input)

Flags == eof \in BOOLEAN /\ finished \in BOOLEAN

LEMMA SpecFlags == Spec => []Flags
<1>1. Init => Flags
  BY DEF Init, Flags
<1>2. Flags /\ [Next]_vars => Flags'
  BY DEF Flags, Next, vars, Call, Start, LexToken, LexGarbage, LexUnterminated, Retry, Deliver, Fill
<1> QED BY <1>1, <1>2, PTL DEF Spec

LEMMA FillFacts ==
    ASSUME IInv, Fill
    PROVE  /\ read' \in Nat /\ read <= read' /\ read' <= Len(input)
           /\ cuts' \subseteq 1 .. Len(input) /\ (eof' => read' = Len(input))
<1>0. Len(input) \in Nat
  BY DEF IInv
<1>1. CASE eof
  BY <1>1 DEF Fill, IInv
<1>2. CASE ~ eof /\ \E n \in 1 .. MaxChunk :
                  /\ read + n <= Len(input)
                  /\ read' = read + n /\ cuts' = cuts \cup {read + n} /\ UNCHANGED eof
  <2>1. PICK n \in 1 .. MaxChunk :
                  /\ read + n <= Len(input)
                  /\ read' = read + n /\ cuts' = cuts \cup {read + n} /\ UNCHANGED eof
    BY <1>2
  <2>2. n \in Nat /\ n >= 1
    BY MaxChunkAssumption
  <2>3. read \in Nat /\ cuts \subseteq 1 .. Len(input)
    BY DEF IInv
  <2>4. read + n \in 1 .. Len(input)
    BY <1>0, <2>1, <2>2, <2>3
  <2> QED BY <1>2, <2>1, <2>2, <2>3, <2>4
<1>3. CASE ~ eof /\ read = Len(input) /\ eof' = TRUE /\ UNCHANGED <<read, cuts>>
  BY <1>3, <1>0 DEF IInv
<1> QED BY <1>1, <1>2, <1>3 DEF Fill

LEMMA EofFacts ==
    ASSUME NEW p \in Nat
    PROVE  /\ EofToken(p) \in TokenRec /\ EofToken(p).kind = "eof"
           /\ EofToken(p).start = p /\ EofToken(p).len = 0
BY DEF EofToken, TokenRec

\* The EOF token goes to the end of what is returned.
LEMMA EofAppended ==
    ASSUME NEW s \in Seq(TokenRec), NoEof(s), NEW p \in Nat
    PROVE  LET q == Append(s, EofToken(p)) IN
           /\ q # <<>> /\ q[Len(q)].kind = "eof"
           /\ \A i \in 1 .. Len(q) : q[i].kind = "eof" => i = Len(q) /\ q[i].start = p
<1> DEFINE t == EofToken(p)
           q == Append(s, t)
<1>1. t \in TokenRec /\ t.kind = "eof" /\ t.start = p
  BY EofFacts
<1> HIDE DEF t
<1>2. /\ q # <<>> /\ Len(q) = Len(s) + 1 /\ q[Len(q)] = t /\ Len(s) \in Nat
      /\ \A i \in 1 .. Len(s) : q[i] = s[i]
  BY <1>1
<1> HIDE DEF q
<1>3. \A i \in 1 .. Len(q) : i = Len(q) \/ i \in 1 .. Len(s)
  BY <1>2
<1> QED BY <1>1, <1>2, <1>3 DEF NoEof, q, t

LEMMA StartIInv == IInv /\ Start => IInv'
<1> SUFFICES ASSUME IInv, Start PROVE IInv'
  OBVIOUS
<1>1. /\ phase = "start" /\ ~ finished /\ local' = 0 /\ batch' = <<>> /\ input' = input
      /\ offset' = offset
  BY DEF Start, IInv
<1>2. /\ read' \in Nat /\ read <= read' /\ read' <= Len(input)
      /\ cuts' \subseteq 1 .. Len(input) /\ (eof' => read' = Len(input))
  <2>1. CASE Pending
    <3>1. read' = read /\ eof' = eof /\ cuts' = cuts
      BY <2>1 DEF Start
    <3>2. read \in Nat /\ read <= Len(input) /\ cuts \subseteq 1 .. Len(input)
      BY DEF IInv
    <3>3. eof => read = Len(input)
      BY DEF IInv
    <3> QED BY <3>1, <3>2, <3>3
  <2>2. CASE ~ Pending
    BY <2>2, FillFacts DEF Start
  <2> QED BY <2>1, <2>2
<1>3. /\ offset \in Nat /\ read \in Nat /\ local \in Nat /\ offset + local <= read
      /\ Within(out, 0, offset) /\ input \in Seq(Char) /\ Len(input) \in Nat
  BY DEF IInv
<1>4. NoEof(out) /\ out \in Seq(TokenRec)
  BY <1>1 DEF IInv, NoEof, Within
<1>5. offset' + local' <= read'
  BY <1>1, <1>2, <1>3
<1>6. Within(batch', offset', offset' + local') /\ NoEof(batch')
  <2>1. offset + local' \in Nat
    BY <1>1, <1>3
  <2> QED BY <1>1, <1>3, <2>1, WithinNone DEF NoEof
<1>7. CASE offset = read' /\ eof'
  <2>1. finished' = TRUE /\ out' = Append(out, EofToken(offset)) /\ phase' = "idle"
    BY <1>7 DEF Start
  <2>2. Within(out', 0, offset)
    <3>1. EofToken(offset) \in TokenRec /\ EofToken(offset).start = offset /\ EofToken(offset).len = 0
      BY <1>3, EofFacts
    <3> QED BY <1>3, <2>1, <3>1, WithinAppend
  <2>3. /\ out' # <<>> /\ out'[Len(out')].kind = "eof"
        /\ \A i \in 1 .. Len(out') : out'[i].kind = "eof" => i = Len(out') /\ out'[i].start = offset
    BY <1>3, <1>4, <2>1, EofAppended
  <2>4. offset = Len(input)
    BY <1>2, <1>7
  <2> QED BY <1>1, <1>2, <1>3, <1>5, <2>1, <2>2, <2>3, <2>4 DEF IInv
<1>8. CASE ~ (offset = read' /\ eof')
  <2>1. finished' = finished /\ out' = out /\ phase' = "lex"
    BY <1>8 DEF Start
  <2> QED BY <1>1, <1>2, <1>3, <1>4, <1>5, <1>6, <2>1 DEF IInv, NoEof
<1> QED BY <1>7, <1>8

LEMMA LexTokenIInv == IInv /\ LexToken => IInv'
<1> SUFFICES ASSUME IInv, LexToken PROVE IInv'
  OBVIOUS
<1> DEFINE end == TokenEnd(At, read)
<1>1. /\ phase = "lex" /\ At < read /\ ~ NoToken(At, read)
      /\ local' = end - offset
      /\ batch' = IF Pushed(At) THEN Append(batch, Token(At, end)) ELSE batch
      /\ phase' \in {"lex", "full"}
      /\ UNCHANGED <<input, read, eof, finished, offset, out, cuts>>
  BY DEF LexToken, Lexing
<1>2. /\ offset \in Nat /\ local \in Nat /\ read \in Nat /\ At = offset + local /\ At \in Nat
      /\ Within(batch, offset, At) /\ NoEof(batch) /\ read <= Len(input)
  BY <1>1 DEF IInv, At
<1>3. end \in At + 1 .. read
  BY <1>1, <1>2, TokenEndFacts
<1> HIDE DEF end
<1>4. local' \in Nat /\ offset + local' = end /\ end \in Nat /\ At <= end /\ offset <= At
  BY <1>1, <1>2, <1>3
<1>5. Within(batch', offset, end) /\ NoEof(batch')
  <2>1. CASE ~ Pushed(At)
    BY <2>1, <1>1, <1>2, <1>4, WithinLater
  <2>2. CASE Pushed(At)
    <3> DEFINE t == Token(At, end)
    <3>1. t \in TokenRec /\ t.start = At /\ t.len = end - At /\ t.kind # "eof"
      BY <2>2, <1>2, <1>4 DEF Token, TokenRec, Pushed, Char
    <3>2. batch' = Append(batch, t) /\ batch \in Seq(TokenRec)
      BY <2>2, <1>1, <1>2 DEF Within
    <3> HIDE DEF t
    <3>3. At + (end - At) = end
      BY <1>2, <1>4
    <3>4. Within(batch', offset, end)
      BY <3>1, <3>2, <3>3, <1>2, <1>4, WithinAppend
    <3>5. NoEof(batch')
      BY <3>1, <3>2, <1>2 DEF NoEof
    <3> QED BY <3>4, <3>5
  <2> QED BY <2>1, <2>2
<1>6. offset' + local' <= read'
  BY <1>1, <1>3, <1>4
<1>7. Within(batch, offset, offset + local)' /\ NoEof(batch)'
  BY <1>1, <1>4, <1>5
<1>8. ~ finished
  BY <1>1 DEF IInv
<1> QED BY <1>1, <1>4, <1>6, <1>7, <1>8 DEF IInv

LEMMA LexGarbageIInv == IInv /\ LexGarbage => IInv'
<1> SUFFICES ASSUME IInv, LexGarbage PROVE IInv'
  OBVIOUS
<1>1. /\ phase = "lex" /\ At < read /\ local' = local + 1
      /\ batch' = IF eof THEN Append(batch, Skipped(At)) ELSE batch
      /\ UNCHANGED <<input, read, eof, finished, offset, phase, out, cuts>>
  BY DEF LexGarbage, Lexing
<1>2. /\ offset \in Nat /\ local \in Nat /\ read \in Nat /\ At = offset + local /\ At \in Nat
      /\ Within(batch, offset, At) /\ NoEof(batch) /\ read <= Len(input)
  BY <1>1 DEF IInv, At
<1>3. local' \in Nat /\ offset + local' = At + 1 /\ offset <= At /\ At + 1 <= read
  BY <1>1, <1>2
<1>4. Within(batch', offset, At + 1) /\ NoEof(batch')
  <2>1. CASE ~ eof
    BY <2>1, <1>1, <1>2, <1>3, WithinLater
  <2>2. CASE eof
    <3> DEFINE t == Skipped(At)
    <3>1. t \in TokenRec /\ t.start = At /\ t.len = 0 /\ t.kind # "eof"
      BY <1>2 DEF Skipped, TokenRec, Char
    <3>2. batch' = Append(batch, t) /\ batch \in Seq(TokenRec)
      BY <2>2, <1>1, <1>2 DEF Within
    <3> HIDE DEF t
    <3>3. Within(batch', offset, At + 1)
      BY <3>1, <3>2, <1>2, <1>3, WithinAppend
    <3>4. NoEof(batch')
      BY <3>1, <3>2, <1>2 DEF NoEof
    <3> QED BY <3>3, <3>4
  <2> QED BY <2>1, <2>2
<1>5. offset' + local' <= read'
  BY <1>1, <1>3
<1>6. Within(batch, offset, offset + local)' /\ NoEof(batch)'
  BY <1>1, <1>3, <1>4
<1>7. ~ finished
  BY <1>1 DEF IInv
<1> QED BY <1>1, <1>3, <1>5, <1>6, <1>7 DEF IInv

LEMMA RetryIInv == IInv /\ Retry => IInv'
<1> SUFFICES ASSUME IInv, Retry PROVE IInv'
  OBVIOUS
<1>1. /\ phase \in {"lex", "full"} /\ batch = <<>> /\ ~ eof /\ Fill
      /\ offset' = offset + local /\ phase' \in {"idle", "start"} /\ local' = 0
      /\ UNCHANGED <<input, finished, batch, out>>
  BY DEF Retry, LoopOver, At
<1>2. /\ offset \in Nat /\ local \in Nat /\ read \in Nat /\ offset + local <= read
      /\ Within(out, 0, offset) /\ input \in Seq(Char) /\ ~ finished
  BY <1>1 DEF IInv
<1>3. /\ read' \in Nat /\ read <= read' /\ read' <= Len(input)
      /\ cuts' \subseteq 1 .. Len(input) /\ (eof' => read' = Len(input))
  BY <1>1, FillFacts
<1>4. offset' \in Nat /\ offset <= offset' /\ offset' + local' <= read' /\ local' \in Nat
  BY <1>1, <1>2, <1>3
<1>5. Within(out', 0, offset')
  BY <1>1, <1>2, <1>4, WithinLater
<1> QED BY <1>1, <1>2, <1>3, <1>4, <1>5 DEF IInv

LEMMA DeliverIInv == IInv /\ Deliver => IInv'
<1> SUFFICES ASSUME IInv, Deliver PROVE IInv'
  OBVIOUS
<1> DEFINE base == out \o batch
<1>1. /\ phase \in {"lex", "full"} /\ offset' = At /\ At = offset + local
      /\ finished' = (eof /\ At = read) /\ phase' = "idle" /\ local' = 0
      /\ out' = base \o (IF eof /\ At = read THEN <<EofToken(At)>> ELSE <<>>)
      /\ UNCHANGED <<input, read, eof, batch, cuts>>
  BY DEF Deliver, LoopOver, At
<1>2. /\ offset \in Nat /\ local \in Nat /\ read \in Nat /\ At \in Nat /\ At <= read
      /\ Within(out, 0, offset) /\ Within(batch, offset, At) /\ NoEof(batch) /\ ~ finished
      /\ eof => read = Len(input)
  BY <1>1 DEF IInv
<1>3. Within(base, 0, At)
  <2>1. 0 \in Nat /\ 0 <= offset /\ offset <= At
    BY <1>1, <1>2
  <2> QED BY <1>2, <2>1, WithinConcat
<1>4. NoEof(base) /\ base \in Seq(TokenRec)
  <2>1. out \in Seq(TokenRec) /\ batch \in Seq(TokenRec)
    BY <1>2 DEF Within
  <2>2. NoEof(out)
    BY <1>2 DEF IInv, NoEof
  <2>3. \A i \in 1 .. Len(base) : \/ i \in 1 .. Len(out) /\ base[i] = out[i]
                                  \/ i - Len(out) \in 1 .. Len(batch) /\ base[i] = batch[i - Len(out)]
    BY <2>1
  <2> QED BY <1>2, <2>1, <2>2, <2>3 DEF NoEof
<1> HIDE DEF base
<1>5. CASE eof /\ At = read
  <2>1. finished' /\ out' = base \o <<EofToken(At)>>
    BY <1>1, <1>5
  <2>2. EofToken(At) \in TokenRec /\ EofToken(At).start = At /\ EofToken(At).len = 0
    BY <1>2, EofFacts
  <2>3. out' = Append(base, EofToken(At))
    BY <2>1, <2>2, <1>4
  <2>4. Within(out', 0, At)
    BY <1>2, <1>3, <2>2, <2>3, WithinAppend
  <2>5. /\ out' # <<>> /\ out'[Len(out')].kind = "eof"
        /\ \A i \in 1 .. Len(out') : out'[i].kind = "eof" => i = Len(out') /\ out'[i].start = At
    BY <1>2, <1>4, <2>3, EofAppended
  <2>6. At = Len(input)
    BY <1>2, <1>5
  <2> QED BY <1>1, <1>2, <2>1, <2>4, <2>5, <2>6 DEF IInv
<1>6. CASE ~ (eof /\ At = read)
  <2>1. ~ finished'
    BY <1>1, <1>6
  <2>2. out' = base
    <3>1. out' = base \o <<>>
      BY <1>1, <1>6
    <3> QED BY <3>1, <1>4
  <2>3. Within(out', 0, offset')
    BY <1>1, <1>3, <2>2
  <2>4. \A i \in 1 .. Len(out') : out'[i].kind # "eof"
    BY <1>4, <2>2 DEF NoEof
  <2>5. offset' \in Nat /\ local' \in Nat /\ read' \in Nat /\ offset' + local' <= read'
    BY <1>1, <1>2
  <2>6. /\ input' \in Seq(Char) /\ read' <= Len(input') /\ cuts' \subseteq 1 .. Len(input')
        /\ (eof' => read' = Len(input'))
    BY <1>1, <1>2 DEF IInv
  <2>7. phase' = "idle"
    BY <1>1
  <2> QED BY <2>1, <2>3, <2>4, <2>5, <2>6, <2>7 DEF IInv
<1> QED BY <1>5, <1>6

\* Tokens in order: what holds in every state.
THEOREM SpecIInv == Spec => []IInv
<1>1. Init => IInv
  <2> SUFFICES ASSUME Init PROVE IInv
    OBVIOUS
  <2>1. input \in Seq(Char)
    BY InputsAssumption DEF Init
  <2>2. Within(<<>>, 0, 0)
    BY WithinNone
  <2> QED BY <2>1, <2>2 DEF Init, IInv
<1>2. IInv /\ [Next]_vars => IInv'
  <2> SUFFICES ASSUME IInv, [Next]_vars PROVE IInv'
    OBVIOUS
  <2>1. CASE Call
    BY <2>1 DEF Call, IInv
  <2>2. CASE LexUnterminated
    BY <2>2 DEF LexUnterminated, Lexing, IInv
  <2>3. CASE UNCHANGED vars
    BY <2>3 DEF vars, IInv
  <2> QED BY <2>1, <2>2, <2>3, StartIInv, LexTokenIInv, LexGarbageIInv, RetryIInv, DeliverIInv
        DEF Next
<1> QED BY <1>1, <1>2, PTL DEF Spec

\* The tokens returned over all batches are in the order of the text, do not
\* overlap, and EOF comes once, at the end.
THEOREM SpecInOrder == Spec => []InOrder
<1>1. IInv /\ Flags => InOrder
  <2> SUFFICES ASSUME IInv, Flags PROVE InOrder
    OBVIOUS
  <2>1. TypeOK
    BY DEF IInv, Flags, TypeOK
  <2>2. /\ out \in Seq(TokenRec) /\ DOMAIN out = 1 .. Len(out) /\ Len(out) \in Nat
        /\ \A i \in 1 .. Len(out) - 1 : out[i].start + out[i].len <= out[i + 1].start
        /\ \A i \in 1 .. Len(out) : out[i].start + out[i].len <= offset
    BY DEF IInv, Within
  <2>3. ASSUME finished PROVE \E i \in DOMAIN out : out[i].kind = "eof"
    <3>1. out # <<>> /\ out[Len(out)].kind = "eof"
      BY <2>3 DEF IInv
    <3>2. Len(out) \in DOMAIN out
      BY <2>2, <3>1
    <3> QED BY <3>1, <3>2
  <2> QED BY <2>1, <2>2, <2>3 DEF InOrder, IInv
<1> QED BY <1>1, SpecIInv, SpecFlags, PTL

-----------------------------------------------------------------------------
(* Recursive functions                                                     *)

\* A recursion on 0 .. n: the value is given on Stop, n included, and is at
\* every other position p made from the value at a later one, J[p].
Recursion(n, V, Stop, J, B, H) ==
    /\ n \in Nat /\ Stop \in SUBSET (0 .. n) /\ n \in Stop
    /\ J \in [0 .. n -> 0 .. n] /\ \A p \in 0 .. n : p \notin Stop => J[p] > p
    /\ B \in [0 .. n -> V] /\ H \in [(0 .. n) \X V -> V]

\* It defines a function.
LEMMA Unfolds ==
    ASSUME NEW n, NEW V, NEW Stop, NEW J, NEW B, NEW H, Recursion(n, V, Stop, J, B, H)
    PROVE  \E g \in [0 .. n -> V] :
              \A p \in 0 .. n : g[p] = IF p \in Stop THEN B[p] ELSE H[<<p, g[J[p]]>>]
<1> DEFINE Body(g, p) == IF p \in Stop THEN B[p] ELSE H[<<p, g[J[p]]>>]
           Is(g, m) == g \in [m .. n -> V] /\ \A p \in m .. n : g[p] = Body(g, p)
           T == {m \in 0 .. n : \E g : Is(g, m)}
<1>n. n \in Nat
  BY DEF Recursion
<1>s. Stop \in SUBSET (0 .. n) /\ n \in Stop
  BY DEF Recursion
<1>j. J \in [0 .. n -> 0 .. n]
  BY DEF Recursion
<1>l. \A p \in 0 .. n : p \notin Stop => J[p] > p
  BY DEF Recursion
<1>b. B \in [0 .. n -> V]
  BY DEF Recursion
<1>h. H \in [(0 .. n) \X V -> V]
  BY DEF Recursion
<1>1. n \in T
  <2> DEFINE g == [p \in n .. n |-> B[n]]
  <2>1. \A p \in n .. n : p = n /\ p \in 0 .. n
    BY <1>n
  <2>2. B[n] \in V
    BY <1>n, <1>b
  <2>3. g \in [n .. n -> V] /\ \A p \in n .. n : g[p] = B[n]
    BY <2>1, <2>2
  <2> HIDE DEF g
  <2>4. Is(g, n)
    BY <2>1, <2>3, <1>s
  <2> QED BY <2>4, <1>n
<1>2. PICK m \in T : \A k \in T : m <= k
  <2>1. T \in SUBSET Nat
    BY <1>n
  <2> HIDE DEF T
  <2> QED BY <1>1, <2>1, Smallest
<1>3. PICK g : Is(g, m)
  BY <1>2
<1>4. m = 0
  <2>1. SUFFICES ASSUME m # 0 PROVE FALSE
    OBVIOUS
  <2>2. m - 1 \in 0 .. n /\ m \in 0 .. n
    BY <2>1, <1>2, <1>n
  <2> DEFINE h == [p \in m - 1 .. n |-> IF p = m - 1 THEN Body(g, p) ELSE g[p]]
  <2>3. \A p \in m - 1 .. n : p \notin Stop => J[p] \in m .. n
    BY <2>2, <1>n, <1>j, <1>l
  <2>4. Body(g, m - 1) \in V
    <3>1. CASE m - 1 \in Stop
      BY <3>1, <2>2, <1>b
    <3>2. CASE m - 1 \notin Stop
      <4>1. J[m - 1] \in m .. n
        BY <3>2, <2>2, <2>3
      <4>2. g[J[m - 1]] \in V
        BY <4>1, <1>3
      <4>3. <<m - 1, g[J[m - 1]]>> \in (0 .. n) \X V
        BY <4>2, <2>2, <1>n
      <4>4. H[<<m - 1, g[J[m - 1]]>>] \in V
        BY <4>3, <1>h
      <4> QED BY <3>2, <4>4
    <3> QED BY <3>1, <3>2
  <2>5. h \in [m - 1 .. n -> V]
    <3> HIDE DEF Body
    <3> QED BY <1>3, <2>2, <2>4, <1>n
  <2>6. ASSUME NEW p \in m - 1 .. n PROVE h[p] = Body(h, p)
    <3>1. h[p] = Body(g, p)
      <4> HIDE DEF Body
      <4> QED BY <1>3, <2>2, <1>n
    <3>2. p \notin Stop => h[J[p]] = g[J[p]]
      <4>1. p \notin Stop => J[p] \in m .. n /\ J[p] # m - 1 /\ J[p] \in m - 1 .. n
        BY <2>2, <2>3, <1>n
      <4> HIDE DEF Body
      <4> QED BY <4>1
    <3> HIDE DEF h
    <3> QED BY <3>1, <3>2
  <2> HIDE DEF h, Body
  <2>7. m - 1 \in T
    BY <2>2, <2>5, <2>6
  <2> HIDE DEF T
  <2> QED BY <2>7, <1>2, <2>2
<1>5. g \in [0 .. n -> V] /\ \A p \in 0 .. n : g[p] = Body(g, p)
  <2> HIDE DEF Body
  <2> QED BY <1>3, <1>4
<1> QED BY <1>5

-----------------------------------------------------------------------------
(* The text in one piece                                                   *)

\* The token after the one at p, and the tokens that p gives.
After(p) == LET e == Len(input) IN
            IF Fragmented(p, e) THEN e ELSE IF NoToken(p, e) THEN p + 1 ELSE TokenEnd(p, e)
Open(p) == [kind |-> "open", start |-> p, len |-> Len(input) - p]
TokensAt(p) == LET e == Len(input) IN
               IF ~ NoToken(p, e) /\ Pushed(p) THEN <<Token(p, TokenEnd(p, e))>> ELSE <<>>

LEMMA AfterFacts ==
    ASSUME input \in Seq(Char), NEW p \in 0 .. Len(input), p # Len(input)
    PROVE  /\ After(p) \in p + 1 .. Len(input) /\ After(p) \in 0 .. Len(input)
           /\ TokensAt(p) \in Seq(TokenRec) /\ <<Open(p)>> \in Seq(TokenRec)
<1> DEFINE e == Len(input)
<1>1. e \in Nat /\ p \in Nat /\ p < e
  OBVIOUS
<1>2. ~ NoToken(p, e) => TokenEnd(p, e) \in p + 1 .. e
  BY <1>1, TokenEndFacts
<1> HIDE DEF e
<1>3. After(p) \in p + 1 .. e
  BY <1>1, <1>2 DEF After, e
<1>4. TokensAt(p) \in Seq(TokenRec)
  <2>1. CASE ~ NoToken(p, e) /\ Pushed(p)
    <3>1. Token(p, TokenEnd(p, e)) \in TokenRec
      BY <2>1, <1>1, <1>2 DEF Token, TokenRec, Pushed, Char
    <3> QED BY <2>1, <3>1 DEF TokensAt, e
  <2>2. CASE ~ (~ NoToken(p, e) /\ Pushed(p))
    <3>1. TokensAt(p) = <<>>
      BY <2>2 DEF TokensAt, e
    <3> QED BY <3>1
  <2> QED BY <2>1, <2>2
<1>5. Open(p) \in TokenRec
  BY <1>1 DEF Open, TokenRec, e
<1> QED BY <1>1, <1>3, <1>4, <1>5 DEF e

LEMMA WholeUnfolds ==
    ASSUME input \in Seq(Char)
    PROVE  /\ WholeFrom \in [0 .. Len(input) -> Seq(TokenRec)]
           /\ \A p \in 0 .. Len(input) : WholeFrom[p] =
                 IF p = Len(input) THEN <<EofToken(p)>>
                 ELSE IF Fragmented(p, Len(input)) THEN <<Open(p)>>
                 ELSE TokensAt(p) \o WholeFrom[After(p)]
<1> DEFINE e == Len(input)
           V == Seq(TokenRec)
           Stop == {p \in 0 .. e : p = e \/ Fragmented(p, e)}
           J == [p \in 0 .. e |-> IF p = e THEN e ELSE After(p)]
           B == [p \in 0 .. e |-> IF p = e THEN <<EofToken(p)>>
                                  ELSE IF p \in Stop THEN <<Open(p)>> ELSE <<>>]
           H == [x \in (0 .. e) \X V |-> IF x[1] = e THEN <<>> ELSE TokensAt(x[1]) \o x[2]]
           Full(f, p) == IF p = e THEN <<EofToken(p)>>
                         ELSE IF Fragmented(p, e) THEN <<[kind |-> "open", start |-> p, len |-> e - p]>>
                         ELSE IF NoToken(p, e) THEN f[p + 1]
                         ELSE IF Pushed(p) THEN <<Token(p, TokenEnd(p, e))>> \o f[TokenEnd(p, e)]
                         ELSE f[TokenEnd(p, e)]
           Body(f, p) == IF p = e THEN <<EofToken(p)>>
                         ELSE IF Fragmented(p, e) THEN <<Open(p)>>
                         ELSE TokensAt(p) \o f[After(p)]
<1>1. e \in Nat /\ e \in Stop /\ Stop \in SUBSET (0 .. e)
  OBVIOUS
<1>2. \A p \in 0 .. e : p # e =>
         /\ After(p) \in p + 1 .. e /\ After(p) \in 0 .. e
         /\ TokensAt(p) \in V /\ <<Open(p)>> \in V
  BY AfterFacts
<1>3. \A p \in 0 .. e : <<EofToken(p)>> \in V
  <2> TAKE p \in 0 .. e
  <2>1. EofToken(p) \in TokenRec
    BY EofFacts
  <2> QED BY <2>1
<1>4. \A p \in 0 .. e : \A f : p # e /\ f[After(p)] \in V => Full(f, p) = Body(f, p)
  <2> SUFFICES ASSUME NEW p \in 0 .. e, NEW f, p # e, f[After(p)] \in V PROVE Full(f, p) = Body(f, p)
    OBVIOUS
  <2>1. CASE Fragmented(p, e)
    BY <2>1 DEF Open
  <2>2. CASE ~ Fragmented(p, e) /\ (NoToken(p, e) \/ ~ Pushed(p))
    <3>1. TokensAt(p) = <<>>
      BY <2>2 DEF TokensAt
    <3>2. Full(f, p) = f[After(p)]
      BY <2>2 DEF After
    <3>3. Body(f, p) = TokensAt(p) \o f[After(p)]
      BY <2>2
    <3> HIDE DEF Full, Body
    <3> QED BY <3>1, <3>2, <3>3
  <2>3. CASE ~ Fragmented(p, e) /\ ~ NoToken(p, e) /\ Pushed(p)
    BY <2>3 DEF TokensAt, After
  <2> QED BY <2>1, <2>2, <2>3
<1>5. \E g : g = [p \in 0 .. e |-> Full(g, p)]
  <2>1. J \in [0 .. e -> 0 .. e] /\ \A p \in 0 .. e : p \notin Stop => J[p] > p
    BY <1>1, <1>2
  <2>2. B \in [0 .. e -> V]
    BY <1>2, <1>3
  <2>3. H \in [(0 .. e) \X V -> V]
    BY <1>2
  <2>4. \A p \in 0 .. e : p \notin Stop => p # e /\ J[p] = After(p)
    OBVIOUS
  <2>5. \A p \in 0 .. e, v \in V : p # e => H[<<p, v>>] = TokensAt(p) \o v
    OBVIOUS
  <2>6. \A p \in 0 .. e : p \in Stop => B[p] = IF p = e THEN <<EofToken(p)>> ELSE <<Open(p)>>
    OBVIOUS
  <2>s. Stop = {p \in 0 .. e : p = e \/ Fragmented(p, e)}
    OBVIOUS
  <2> HIDE DEF J, B, H, Stop, Full, e, V
  <2>7. PICK g \in [0 .. e -> V] :
            \A p \in 0 .. e : g[p] = IF p \in Stop THEN B[p] ELSE H[<<p, g[J[p]]>>]
    <3>1. Recursion(e, V, Stop, J, B, H)
      BY <1>1, <2>1, <2>2, <2>3 DEF Recursion
    <3> QED BY <3>1, Unfolds
  <2>8. ASSUME NEW p \in 0 .. e PROVE g[p] = Full(g, p)
    <3>1. CASE p = e
      BY <3>1, <2>6, <2>7, <2>s DEF Full
    <3>2. CASE p # e /\ p \in Stop
      <4>1. g[p] = <<Open(p)>> /\ Fragmented(p, e)
        BY <3>2, <2>6, <2>7, <2>s
      <4> QED BY <3>2, <4>1 DEF Full, Open, e
    <3>3. CASE p # e /\ p \notin Stop
      <4>1. After(p) \in 0 .. e /\ g[After(p)] \in V
        BY <3>3, <1>2, <2>7
      <4>2. g[p] = TokensAt(p) \o g[After(p)]
        BY <3>3, <4>1, <2>4, <2>5, <2>7
      <4>3. Body(g, p) = TokensAt(p) \o g[After(p)]
        BY <3>3, <2>s
      <4> QED BY <3>3, <4>1, <4>2, <4>3, <1>4
    <3> QED BY <3>1, <3>2, <3>3
  <2> QED BY <2>7, <2>8
<1>6. WholeFrom = [p \in 0 .. e |-> Full(WholeFrom, p)]
  BY <1>5 DEF WholeFrom
<1>7. \A p \in 0 .. e : WholeFrom[p] = Full(WholeFrom, p)
  <2> HIDE DEF Full
  <2> QED BY <1>6
<1>8. WholeFrom \in [0 .. e -> V]
  <2> DEFINE Bad == {x \in 0 .. e : WholeFrom[e - x] \notin V}
  <2>1. SUFFICES ASSUME Bad # {} PROVE FALSE
    <3> HIDE DEF Full, V
    <3>1. \A p \in 0 .. e : e - p \in 0 .. e /\ e - (e - p) = p
      BY <1>1
    <3>2. Bad = {} => \A p \in 0 .. e : WholeFrom[p] \in V
      BY <3>1
    <3> QED BY <3>2, <1>6
  <2>2. PICK x \in Bad : \A y \in Bad : x <= y
    <3>1. Bad \in SUBSET Nat
      OBVIOUS
    <3> HIDE DEF Bad
    <3> QED BY <2>1, <3>1, Smallest
  <2> DEFINE p == e - x
  <2>3. p \in 0 .. e /\ WholeFrom[p] \notin V /\ x \in 0 .. e
    BY <2>2, <1>1
  <2>4. p # e
    <3>1. Full(WholeFrom, e) = <<EofToken(e)>>
      OBVIOUS
    <3> HIDE DEF Full
    <3> QED BY <3>1, <2>3, <1>1, <1>3, <1>7
  <2>5. e - After(p) \in 0 .. e /\ e - After(p) < x /\ e - (e - After(p)) = After(p)
    <3>1. After(p) \in p + 1 .. e
      BY <2>3, <2>4, <1>2
    <3>2. x \in Nat
      BY <2>3
    <3> QED BY <3>1, <3>2, <1>1
  <2>6. WholeFrom[After(p)] \in V
    <3>1. e - After(p) \notin Bad
      <4> HIDE DEF Bad, p
      <4>1. x \in Nat
        BY <2>3
      <4> QED BY <2>2, <2>5, <4>1
    <3> HIDE DEF p
    <3> QED BY <3>1, <2>5
  <2> HIDE DEF p, Bad, e, V
  <2>7. WholeFrom[p] = Body(WholeFrom, p)
    <3> HIDE DEF Full, Body
    <3> QED BY <2>3, <2>4, <2>6, <1>4, <1>7
  <2>8. TokensAt(p) \in V /\ <<Open(p)>> \in V
    BY <2>3, <2>4, <1>2
  <2>9. TokensAt(p) \o WholeFrom[After(p)] \in V
    BY <2>6, <2>8 DEF V
  <2> QED BY <2>3, <2>4, <2>7, <2>8, <2>9
<1>9. ASSUME NEW p \in 0 .. e PROVE WholeFrom[p] = Body(WholeFrom, p)
  <2>1. CASE p = e
    BY <2>1, <1>7
  <2>2. CASE p # e
    <3>1. WholeFrom[After(p)] \in V
      BY <2>2, <1>2, <1>8
    <3> HIDE DEF Full, Body
    <3> QED BY <2>2, <3>1, <1>4, <1>7
  <2> QED BY <2>1, <2>2
<1> QED BY <1>8, <1>9

-----------------------------------------------------------------------------
(* The tokens without the comments                                         *)

\* f collects the tokens of q that are no comments.
Collects(f, q, m) ==
    /\ f \in [0 .. m -> Seq(TokenRec)] /\ f[0] = <<>>
    /\ \A i \in 1 .. m : f[i] = IF q[i].kind = "#" THEN f[i - 1] ELSE Append(f[i - 1], q[i])

LEMMA ContentCollects ==
    ASSUME NEW q \in Seq(TokenRec)
    PROVE  \E f : Collects(f, q, Len(q)) /\ Content(q) = f[Len(q)]
<1> DEFINE n == Len(q)
           V == Seq(TokenRec)
           J == [p \in 0 .. n |-> IF p = n THEN n ELSE p + 1]
           B == [p \in 0 .. n |-> <<>>]
           H == [x \in (0 .. n) \X V |->
                   IF x[1] = n THEN <<>>
                   ELSE IF q[n - x[1]].kind = "#" THEN x[2] ELSE Append(x[2], q[n - x[1]])]
           Body(f, i) == IF i = 0 THEN <<>>
                         ELSE IF q[i].kind = "#" THEN f[i - 1] ELSE Append(f[i - 1], q[i])
           C == CHOOSE f : f = [i \in 0 .. n |-> Body(f, i)]
<1>1. n \in Nat /\ \A i \in 1 .. n : q[i] \in TokenRec
  OBVIOUS
<1>2. Recursion(n, V, {n}, J, B, H)
  <2>1. J \in [0 .. n -> 0 .. n] /\ \A p \in 0 .. n : p \notin {n} => J[p] > p
    BY <1>1
  <2>2. B \in [0 .. n -> V]
    OBVIOUS
  <2>3. H \in [(0 .. n) \X V -> V]
    <3> SUFFICES ASSUME NEW p \in 0 .. n, NEW v \in V, p # n
                 PROVE  (IF q[n - p].kind = "#" THEN v ELSE Append(v, q[n - p])) \in V
      BY <1>1
    <3>1. n - p \in 1 .. n
      BY <1>1
    <3>2. q[n - p] \in TokenRec
      BY <3>1, <1>1
    <3> QED BY <3>2
  <2> HIDE DEF J, B, H, n, V
  <2> QED BY <1>1, <2>1, <2>2, <2>3 DEF Recursion
<1>3. \A p \in 0 .. n : p # n => J[p] = p + 1
  BY <1>1
<1>4. \A p \in 0 .. n, v \in V : p # n =>
         H[<<p, v>>] = IF q[n - p].kind = "#" THEN v ELSE Append(v, q[n - p])
  OBVIOUS
<1>5. B[n] = <<>>
  BY <1>1
<1> HIDE DEF J, B, H, V, n
<1>6. PICK g \in [0 .. n -> V] :
          \A p \in 0 .. n : g[p] = IF p \in {n} THEN B[p] ELSE H[<<p, g[J[p]]>>]
  BY <1>2, Unfolds
<1> DEFINE f == [i \in 0 .. n |-> g[n - i]]
<1>7. f \in [0 .. n -> V] /\ \A i \in 0 .. n : f[i] = g[n - i]
  BY <1>1, <1>6
<1>8. \A i \in 0 .. n : f[i] = Body(f, i)
  <2> TAKE i \in 0 .. n
  <2>1. CASE i = 0
    <3>1. f[i] = g[n]
      <4> HIDE DEF f
      <4> QED BY <2>1, <1>1, <1>7
    <3>2. g[n] = <<>>
      <4>1. n \in 0 .. n
        BY <1>1
      <4>2. g[n] = B[n]
        BY <4>1, <1>6
      <4> QED BY <4>2, <1>5
    <3> HIDE DEF f
    <3> QED BY <2>1, <3>1, <3>2
  <2>2. CASE i # 0
    <3> DEFINE p == n - i
    <3>1. p \in 0 .. n /\ p # n /\ p + 1 \in 0 .. n /\ n - p = i /\ n - (i - 1) = p + 1 /\ i - 1 \in 0 .. n
      BY <2>2, <1>1
    <3>2. f[i] = g[p] /\ f[i - 1] = g[p + 1]
      BY <3>1, <1>7
    <3> HIDE DEF f, p
    <3>3. g[p] = H[<<p, g[p + 1]>>] /\ g[p + 1] \in V
      BY <3>1, <1>3, <1>6
    <3>4. g[p] = IF q[n - p].kind = "#" THEN g[p + 1] ELSE Append(g[p + 1], q[n - p])
      BY <3>1, <3>3, <1>4
    <3> QED BY <3>1, <3>2, <3>4, <2>2
  <2> QED BY <2>1, <2>2
<1> HIDE DEF f
<1>9. f = [i \in 0 .. n |-> Body(f, i)]
  BY <1>7, <1>8
<1>10. C = [i \in 0 .. n |-> Body(C, i)]
  BY <1>9
<1>11. Content(q) = C[n]
  BY DEF Content, n
<1>12. ASSUME NEW m \in 0 .. n PROVE C[m] = f[m]
  <2> DEFINE Bad == {i \in 0 .. n : C[i] # f[i]}
  <2>1. SUFFICES ASSUME Bad # {} PROVE FALSE
    OBVIOUS
  <2>2. PICK i \in Bad : \A j \in Bad : i <= j
    <3>1. Bad \in SUBSET Nat
      BY <1>1
    <3> HIDE DEF Bad
    <3> QED BY <2>1, <3>1, Smallest
  <2>3. i \in 0 .. n /\ C[i] # f[i]
    BY <2>2
  <2>4. C[i] = Body(C, i)
    <3> HIDE DEF C, Body
    <3> QED BY <2>3, <1>10
  <2>5. i # 0
    <3>1. Body(C, 0) = <<>> /\ Body(f, 0) = <<>>
      OBVIOUS
    <3> HIDE DEF C, Body
    <3> QED BY <2>3, <2>4, <3>1, <1>8
  <2>6. i - 1 \in 0 .. n /\ i - 1 < i
    BY <2>3, <2>5, <1>1
  <2>7. C[i - 1] = f[i - 1]
    <3> HIDE DEF C
    <3>1. i - 1 \notin Bad
      <4> HIDE DEF Bad
      <4>1. i \in Nat
        BY <2>3, <1>1
      <4> QED BY <4>1, <2>2, <2>6
    <3> QED BY <3>1, <2>6
  <2>8. Body(C, i) = Body(f, i)
    <3> HIDE DEF C
    <3> QED BY <2>5, <2>7
  <2> HIDE DEF C, Body, Bad
  <2> QED BY <2>3, <2>4, <2>8, <1>8
<1>13. Collects(f, q, n)
  <2>1. f[0] = <<>>
    BY <1>1, <1>8
  <2>2. \A i \in 1 .. n : f[i] = IF q[i].kind = "#" THEN f[i - 1] ELSE Append(f[i - 1], q[i])
    BY <1>1, <1>8
  <2> QED BY <1>7, <2>1, <2>2 DEF Collects, V
<1> HIDE DEF C
<1> QED BY <1>1, <1>11, <1>12, <1>13 DEF n

LEMMA CollectsAgree ==
    ASSUME NEW q, NEW r, NEW m \in Nat, NEW n \in Nat, m <= n, NEW f, NEW g,
           Collects(f, q, m), Collects(g, r, n), \A i \in 1 .. m : q[i] = r[i]
    PROVE  f[m] = g[m]
<1> DEFINE Bad == {i \in 0 .. m : f[i] # g[i]}
<1>1. SUFFICES ASSUME Bad # {} PROVE FALSE
  OBVIOUS
<1>2. PICK i \in Bad : \A j \in Bad : i <= j
  <2>1. Bad \in SUBSET Nat
    OBVIOUS
  <2> HIDE DEF Bad
  <2> QED BY <1>1, <2>1, Smallest
<1>3. i \in 0 .. m /\ f[i] # g[i]
  BY <1>2
<1>4. i # 0
  BY <1>3 DEF Collects
<1>5. i \in 1 .. m /\ i \in 1 .. n /\ i - 1 \in 0 .. m /\ i - 1 < i
  BY <1>3, <1>4
<1>6. f[i - 1] = g[i - 1]
  BY <1>2, <1>5
<1> HIDE DEF Bad
<1>7. f[i] = IF q[i].kind = "#" THEN f[i - 1] ELSE Append(f[i - 1], q[i])
  BY <1>5 DEF Collects
<1>8. g[i] = IF r[i].kind = "#" THEN g[i - 1] ELSE Append(g[i - 1], r[i])
  BY <1>5 DEF Collects
<1> QED BY <1>3, <1>5, <1>6, <1>7, <1>8

\* A token more at the end.
LEMMA ContentAppend ==
    ASSUME NEW q \in Seq(TokenRec), NEW t \in TokenRec
    PROVE  /\ Content(q) \in Seq(TokenRec)
           /\ Content(Append(q, t)) = IF t.kind = "#" THEN Content(q) ELSE Append(Content(q), t)
<1> DEFINE n == Len(q)
           r == Append(q, t)
<1>1. /\ n \in Nat /\ r \in Seq(TokenRec) /\ Len(r) = n + 1 /\ r[n + 1] = t
      /\ \A i \in 1 .. n : q[i] = r[i]
  OBVIOUS
<1>2. PICK f : Collects(f, q, n) /\ Content(q) = f[n]
  BY ContentCollects
<1> HIDE DEF r, n
<1>3. PICK g : Collects(g, r, Len(r)) /\ Content(r) = g[Len(r)]
  BY <1>1, ContentCollects
<1>4. f[n] = g[n]
  <2>1. n + 1 \in Nat /\ n <= n + 1
    BY <1>1
  <2> QED BY <2>1, <1>1, <1>2, <1>3, CollectsAgree
<1>5. f[n] \in Seq(TokenRec)
  BY <1>1, <1>2 DEF Collects
<1> DEFINE k == n + 1
<1>6. k \in 1 .. k /\ k - 1 = n
  BY <1>1
<1>7. g[k] = IF r[k].kind = "#" THEN g[k - 1] ELSE Append(g[k - 1], r[k])
  <2> HIDE DEF k
  <2> QED BY <1>6, <1>3, <1>1 DEF Collects, k
<1> QED BY <1>1, <1>2, <1>3, <1>4, <1>5, <1>6, <1>7 DEF r

LEMMA ContentNone == Content(<<>>) = <<>>
<1>1. <<>> \in Seq(TokenRec) /\ Len(<<>>) = 0
  OBVIOUS
<1>2. PICK f : Collects(f, <<>>, 0) /\ Content(<<>>) = f[0]
  BY <1>1, ContentCollects
<1> QED BY <1>2 DEF Collects

-----------------------------------------------------------------------------
(* Where the tokens of the text start                                      *)

LEMMA StartsUnfolds ==
    ASSUME input \in Seq(Char)
    PROVE  \A p \in 0 .. Len(input) : StartsFrom[p] =
              {p} \cup (IF p = Len(input) THEN {}
                        ELSE IF Fragmented(p, Len(input)) THEN {Len(input)}
                        ELSE StartsFrom[After(p)])
<1> DEFINE e == Len(input)
           V == SUBSET (0 .. e)
           Stop == {p \in 0 .. e : p = e \/ Fragmented(p, e)}
           J == [p \in 0 .. e |-> IF p = e THEN e ELSE After(p)]
           B == [p \in 0 .. e |-> {p, e}]
           H == [x \in (0 .. e) \X V |-> {x[1]} \cup x[2]]
           Full(f, p) == {p} \cup (IF p = e THEN {}
                                   ELSE IF Fragmented(p, e) THEN {e}
                                   ELSE f[IF NoToken(p, e) THEN p + 1 ELSE TokenEnd(p, e)])
           Body(f, p) == {p} \cup (IF p = e THEN {}
                                   ELSE IF Fragmented(p, e) THEN {e} ELSE f[After(p)])
<1>1. e \in Nat /\ e \in Stop /\ Stop \in SUBSET (0 .. e)
  OBVIOUS
<1>2. \A p \in 0 .. e : p # e => After(p) \in p + 1 .. e /\ After(p) \in 0 .. e
  BY AfterFacts
<1>3. \A p, f : Full(f, p) = Body(f, p)
  BY DEF After
<1>4. \E g : g = [p \in 0 .. e |-> Full(g, p)]
  <2>1. J \in [0 .. e -> 0 .. e] /\ \A p \in 0 .. e : p \notin Stop => J[p] > p
    BY <1>1, <1>2
  <2>2. B \in [0 .. e -> V]
    BY <1>1
  <2>3. H \in [(0 .. e) \X V -> V]
    OBVIOUS
  <2>4. \A p \in 0 .. e : p \notin Stop => p # e /\ J[p] = After(p)
    OBVIOUS
  <2>5. \A p \in 0 .. e, v \in V : H[<<p, v>>] = {p} \cup v
    OBVIOUS
  <2>6. \A p \in 0 .. e : B[p] = {p, e}
    OBVIOUS
  <2>s. Stop = {p \in 0 .. e : p = e \/ Fragmented(p, e)}
    OBVIOUS
  <2> HIDE DEF J, B, H, Stop, Full, e, V
  <2>7. PICK g \in [0 .. e -> V] :
            \A p \in 0 .. e : g[p] = IF p \in Stop THEN B[p] ELSE H[<<p, g[J[p]]>>]
    <3>1. Recursion(e, V, Stop, J, B, H)
      BY <1>1, <2>1, <2>2, <2>3 DEF Recursion
    <3> QED BY <3>1, Unfolds
  <2>8. ASSUME NEW p \in 0 .. e PROVE g[p] = Full(g, p)
    <3>1. CASE p \in Stop
      <4>1. g[p] = {p, e} /\ (p = e \/ Fragmented(p, e))
        BY <3>1, <2>6, <2>7, <2>s
      <4>2. Body(g, p) = {p, e}
        BY <4>1
      <4> QED BY <4>1, <4>2, <1>3
    <3>2. CASE p \notin Stop
      <4>1. After(p) \in 0 .. e /\ g[After(p)] \in V
        BY <3>2, <1>2, <2>4, <2>7
      <4>2. g[p] = {p} \cup g[After(p)]
        BY <3>2, <4>1, <2>4, <2>5, <2>7
      <4>3. Body(g, p) = {p} \cup g[After(p)]
        BY <3>2, <2>s
      <4> QED BY <4>2, <4>3, <1>3
    <3> QED BY <3>1, <3>2
  <2> QED BY <2>7, <2>8
<1>5. StartsFrom = [p \in 0 .. e |-> Full(StartsFrom, p)]
  BY <1>4 DEF StartsFrom
<1>6. \A p \in 0 .. e : StartsFrom[p] = Full(StartsFrom, p)
  <2> HIDE DEF Full
  <2> QED BY <1>5
<1> QED BY <1>3, <1>6

\* S starts at p, and its elements follow one another.
Chain(S, p) ==
    /\ S \subseteq p .. Len(input) /\ p \in S
    /\ \A x \in S : x # Len(input) => After(x) \in S
    /\ \A x \in S, y \in S : x < y => After(x) <= y

LEMMA StartsChain ==
    ASSUME input \in Seq(Char), NEW p0 \in 0 .. Len(input)
    PROVE  Chain(StartsFrom[p0], p0)
<1> DEFINE e == Len(input)
           Bad == {x \in 0 .. e : ~ Chain(StartsFrom[e - x], e - x)}
<1>1. e \in Nat
  OBVIOUS
<1>2. SUFFICES ASSUME Bad # {} PROVE FALSE
  <2>1. e - p0 \in 0 .. e /\ e - (e - p0) = p0
    BY <1>1
  <2>2. e - p0 \in Bad \/ Chain(StartsFrom[e - (e - p0)], e - (e - p0))
    BY <2>1
  <2> QED BY <2>1, <2>2
<1>3. PICK x \in Bad : \A y \in Bad : x <= y
  <2>1. Bad \in SUBSET Nat
    BY <1>1
  <2> HIDE DEF Bad
  <2> QED BY <1>2, <2>1, Smallest
<1> DEFINE p == e - x
<1>4. p \in 0 .. e /\ ~ Chain(StartsFrom[p], p) /\ x \in 0 .. e
  BY <1>3, <1>1
<1>5. p # e => /\ After(p) \in p + 1 .. e /\ After(p) \in 0 .. e
  <2> HIDE DEF p
  <2> QED BY <1>4, AfterFacts
<1>6. p # e => Chain(StartsFrom[After(p)], After(p))
  <2> SUFFICES ASSUME p # e PROVE Chain(StartsFrom[After(p)], After(p))
    OBVIOUS
  <2>1. e - After(p) \in 0 .. e /\ e - After(p) < x /\ e - (e - After(p)) = After(p)
    <3>1. After(p) \in p + 1 .. e /\ x \in Nat
      BY <1>4, <1>5
    <3> QED BY <3>1, <1>1
  <2>2. e - After(p) \notin Bad
    <3> HIDE DEF Bad, p
    <3>1. x \in Nat
      BY <1>4
    <3> QED BY <1>3, <2>1, <3>1
  <2>3. Chain(StartsFrom[e - (e - After(p))], e - (e - After(p)))
    <3> HIDE DEF p
    <3> QED BY <2>1, <2>2
  <2> HIDE DEF p
  <2> QED BY <2>1, <2>3
<1> HIDE DEF Bad, p, e
<1>7. StartsFrom[p] = {p} \cup (IF p = e THEN {}
                               ELSE IF Fragmented(p, e) THEN {e} ELSE StartsFrom[After(p)])
  BY <1>4, StartsUnfolds DEF e
<1>8. CASE p = e
  <2>1. StartsFrom[p] = {p}
    BY <1>7, <1>8
  <2> QED BY <2>1, <1>1, <1>4, <1>8 DEF Chain, e
<1>9. CASE p # e /\ Fragmented(p, e)
  <2>1. StartsFrom[p] = {p, e} /\ After(p) = e
    BY <1>7, <1>9 DEF After, e
  <2> QED BY <2>1, <1>1, <1>4, <1>9 DEF Chain, e
<1>10. CASE p # e /\ ~ Fragmented(p, e)
  <2> DEFINE S == StartsFrom[After(p)]
             a == After(p)
  <2>1. StartsFrom[p] = {p} \cup S
    BY <1>7, <1>10
  <2>2. S \subseteq a .. e /\ a \in S
    BY <1>6, <1>10 DEF Chain, e
  <2>3. /\ \A y \in S : y # e => After(y) \in S
        /\ \A y \in S, z \in S : y < z => After(y) <= z
    BY <1>6, <1>10 DEF Chain, e
  <2>4. a \in p + 1 .. e /\ After(p) = a
    BY <1>5, <1>10
  <2> HIDE DEF S, a
  <2>5. /\ StartsFrom[p] \subseteq p .. e /\ p \in StartsFrom[p]
    BY <2>1, <2>2, <2>4, <1>1, <1>4
  <2>6. \A y \in StartsFrom[p] : y # e => After(y) \in StartsFrom[p]
    BY <2>1, <2>2, <2>3, <2>4
  <2>7. \A y \in StartsFrom[p], z \in StartsFrom[p] : y < z => After(y) <= z
    <3> SUFFICES ASSUME NEW y \in StartsFrom[p], NEW z \in StartsFrom[p], y < z PROVE After(y) <= z
      OBVIOUS
    <3>1. z \in S
      <4>1. y \in p .. e /\ z \in p .. e /\ p \in Nat
        BY <2>5, <1>4, <1>1
      <4>2. z # p
        BY <4>1, <1>1
      <4> QED BY <4>2, <2>1
    <3>2. CASE y = p
      BY <3>1, <3>2, <2>2, <2>4
    <3>3. CASE y \in S
      BY <3>1, <3>3, <2>3
    <3> QED BY <3>2, <3>3, <2>1
  <2> QED BY <2>5, <2>6, <2>7, <1>4 DEF Chain, e
<1> QED BY <1>8, <1>9, <1>10

-----------------------------------------------------------------------------
(* Chunks that cannot be seen                                              *)

Clean == cuts \subseteq Starts \cup Inside

\* The characters that a token which is no literal is a stretch of.
ClassAt(p) == IF Ch(p) = "#" THEN {"w", "t", "q", "#", "?"} ELSE {Ch(p)}

\* A token that a chunk completes is the one of the text in one piece.
LEMMA CleanToken ==
    ASSUME input \in Seq(Char), NEW p \in Starts, NEW r \in Nat, p < r, r <= Len(input),
           r \in Starts \cup Inside, ~ NoToken(p, r)
    PROVE  ~ NoToken(p, Len(input)) /\ TokenEnd(p, r) = TokenEnd(p, Len(input))
<1> DEFINE e == Len(input)
<1>1. Chain(Starts, 0) /\ 0 \in 0 .. e /\ e \in Nat
  BY StartsChain DEF Starts
<1>2. p \in 0 .. e /\ p # e /\ p \in Nat
  BY <1>1 DEF Chain
<1> HIDE DEF e
<1>3. Ch(p) # "?"
  BY DEF NoToken
<1>4. CASE Ch(p) = "q"
  <2>1. Closers(p, r) # {} /\ Closers(p, r) \subseteq Closers(p, e)
    BY <1>1, <1>2, <1>4 DEF NoToken, Fragmented, Closers, e
  <2>2. /\ ClosedAt(p, r) \in Closers(p, r) /\ ClosedAt(p, r) \in p + 1 .. r - 1
        /\ \A j \in Closers(p, r) : ClosedAt(p, r) <= j
    BY <2>1, <1>2, ClosedFacts
  <2>3. /\ ClosedAt(p, e) \in Closers(p, e) /\ ClosedAt(p, e) \in p + 1 .. e - 1
        /\ \A j \in Closers(p, e) : ClosedAt(p, e) <= j
    BY <2>1, <1>1, <1>2, ClosedFacts
  <2>4. ClosedAt(p, e) <= ClosedAt(p, r)
    BY <2>1, <2>2, <2>3
  <2>5. ClosedAt(p, e) \in Closers(p, r)
    <3>1. ClosedAt(p, e) \in p + 1 .. r - 1
      BY <2>2, <2>3, <2>4, <1>1, <1>2
    <3> QED BY <3>1, <2>3 DEF Closers
  <2>6. ClosedAt(p, e) = ClosedAt(p, r)
    BY <2>2, <2>3, <2>4, <2>5, <1>1, <1>2
  <2>7. ~ NoToken(p, e)
    BY <2>1, <1>3 DEF NoToken, Fragmented
  <2> QED BY <2>6, <2>7, <1>4 DEF TokenEnd, e
<1>5. CASE Ch(p) # "q"
  <2>1. ~ NoToken(p, e)
    BY <1>3, <1>5 DEF NoToken, Fragmented
  <2>2. \A x : TokenEnd(p, x) = StretchEnd(p, x, ClassAt(p))
    BY <1>5 DEF TokenEnd, ClassAt
  <2> DEFINE S == ClassAt(p)
             k == StretchEnd(p, r, S)
             m == StretchEnd(p, e, S)
  <2>3. k \in p .. r /\ (\A i \in p .. k - 1 : Ch(i) \in S) /\ (k = r \/ Ch(k) \notin S)
    BY <1>2, StretchFacts
  <2>4. m \in p .. e /\ (\A i \in p .. m - 1 : Ch(i) \in S) /\ (m = e \/ Ch(m) \notin S)
    BY <1>1, <1>2, StretchFacts DEF e
  <2>5. After(p) = m
    BY <2>1, <2>2, <1>2 DEF After, NoToken, e
  <2> HIDE DEF S, k, m
  <2>6. ~ (m < k)
    <3>1. SUFFICES ASSUME m < k PROVE FALSE
      OBVIOUS
    <3>2. m \in p .. k - 1 /\ m # e
      BY <3>1, <2>3, <2>4, <1>1, <1>2 DEF e
    <3> QED BY <3>2, <2>3, <2>4
  <2>7. k < m => k = r
    <3>1. SUFFICES ASSUME k < m PROVE k = r
      OBVIOUS
    <3>2. k \in p .. m - 1
      BY <3>1, <2>3, <2>4, <1>1, <1>2
    <3> QED BY <3>2, <2>3, <2>4
  <2>8. ~ (k = r /\ r < m)
    <3>1. SUFFICES ASSUME r < m PROVE FALSE
      OBVIOUS
    <3>2. \A y \in Starts : p < y => m <= y
      BY <2>5, <1>1 DEF Chain
    <3>3. CASE r \in Starts
      BY <3>1, <3>2, <3>3, <2>4, <1>1, <1>2
    <3>4. CASE r \in Inside
      <4>1. PICK s \in Starts : s < r /\ Ch(s) = "q" /\ \A y \in Starts : s < y => r < y
        BY <3>4 DEF Inside
      <4>2. s \in Nat
        BY <1>1 DEF Chain
      <4>3. CASE s < p
        BY <4>1, <4>2, <4>3, <1>2
      <4>4. CASE s = p
        BY <4>1, <4>4, <1>5
      <4>5. CASE p < s
        <5>1. m <= s
          BY <4>5, <3>2
        <5> QED BY <5>1, <4>1, <4>2, <3>1, <2>4, <1>1, <1>2
      <4> QED BY <4>2, <4>3, <4>4, <4>5, <1>2
    <3> QED BY <3>3, <3>4
  <2>9. k = m
    <3>1. k \in Nat /\ m \in Nat
      BY <2>3, <2>4, <1>1, <1>2
    <3> QED BY <3>1, <2>6, <2>7, <2>8
  <2> QED BY <2>1, <2>2, <2>9 DEF S, k, m, e
<1> QED BY <1>4, <1>5 DEF e

\* The tokens t and those of the text from p on are the tokens of the text.
Done(t, p) == p \in Starts /\ t \in Seq(TokenRec) /\ Content(t) \o WholeFrom[p] = Whole

\* A call that is to go on at p has the tokens before p.
CutInv ==
    /\ read = 0 \/ read \in cuts
    /\ Clean =>
         /\ phase \in {"lex", "full"} => Done(out \o batch, offset + local)
         /\ phase \in {"idle", "start"} /\ ~ finished => Done(out, offset)
         /\ finished => Content(out) = Whole
         /\ phase = "failed" => Whole[Len(Whole)].kind = "open"

LEMMA StartsIn ==
    ASSUME input \in Seq(Char)
    PROVE  Chain(Starts, 0) /\ Len(input) \in Nat /\ \A p \in Starts : p \in 0 .. Len(input)
<1>1. Chain(Starts, 0) /\ Len(input) \in Nat
  BY StartsChain DEF Starts
<1> QED BY <1>1 DEF Chain

\* The token at p, which the text has too.
LEMMA DoneToken ==
    ASSUME input \in Seq(Char), NEW t, NEW p, Done(t, p), p # Len(input),
           ~ Fragmented(p, Len(input))
    PROVE  /\ TokensAt(p) = <<>> => Done(t, After(p))
           /\ \A x \in TokenRec : TokensAt(p) = <<x>> /\ x.kind # "#" => Done(Append(t, x), After(p))
<1> DEFINE e == Len(input)
<1>1. /\ p \in 0 .. e /\ After(p) \in Starts /\ t \in Seq(TokenRec)
      /\ Content(t) \o WholeFrom[p] = Whole
  BY StartsIn DEF Done, Chain
<1>2. After(p) \in 0 .. e
  BY <1>1, AfterFacts
<1>3. /\ WholeFrom[p] = TokensAt(p) \o WholeFrom[After(p)]
      /\ WholeFrom[After(p)] \in Seq(TokenRec)
  BY <1>1, <1>2, WholeUnfolds
<1> DEFINE w == WholeFrom[After(p)]
<1>4. ASSUME TokensAt(p) = <<>> PROVE Done(t, After(p))
  <2>1. WholeFrom[p] = w
    BY <1>3, <1>4
  <2> QED BY <2>1, <1>1 DEF Done
<1>5. ASSUME NEW x \in TokenRec, TokensAt(p) = <<x>>, x.kind # "#"
      PROVE  Done(Append(t, x), After(p))
  <2>1. /\ Content(t) \in Seq(TokenRec) /\ Content(Append(t, x)) = Append(Content(t), x)
        /\ Append(t, x) \in Seq(TokenRec)
    BY <1>1, <1>5, ContentAppend
  <2> DEFINE c == Content(t)
  <2>2. c \o (<<x>> \o w) = Whole /\ c \in Seq(TokenRec) /\ w \in Seq(TokenRec)
    BY <1>1, <1>3, <1>5, <2>1
  <2> HIDE DEF c, w
  <2>3. c \o (<<x>> \o w) = Append(c, x) \o w
    <3>1. <<x>> \in Seq(TokenRec)
      OBVIOUS
    <3>2. c \o (<<x>> \o w) = (c \o <<x>>) \o w
      BY <2>2, <3>1, ConcatAssociative
    <3>3. c \o <<x>> = Append(c, x)
      BY <2>2
    <3> QED BY <3>2, <3>3
  <2> QED BY <2>1, <2>2, <2>3, <1>1 DEF Done, c, w
<1> QED BY <1>4, <1>5

\* A comment of the batch says nothing.
LEMMA DoneSkip ==
    ASSUME NEW t, NEW p, Done(t, p), NEW x \in TokenRec, x.kind = "#"
    PROVE  Done(Append(t, x), p)
<1>1. t \in Seq(TokenRec) /\ Content(Append(t, x)) = Content(t) /\ Append(t, x) \in Seq(TokenRec)
  BY ContentAppend DEF Done
<1> QED BY <1>1 DEF Done

LEMMA DoneEof ==
    ASSUME input \in Seq(Char), NEW t, Done(t, Len(input))
    PROVE  Content(Append(t, EofToken(Len(input)))) = Whole
<1> DEFINE e == Len(input)
           x == EofToken(e)
<1>1. e \in Nat /\ e \in 0 .. e
  OBVIOUS
<1>2. WholeFrom[e] = <<x>> /\ x \in TokenRec /\ x.kind = "eof"
  BY <1>1, WholeUnfolds, EofFacts
<1> HIDE DEF x
<1>3. /\ t \in Seq(TokenRec) /\ Content(t) \in Seq(TokenRec)
      /\ Content(Append(t, x)) = Append(Content(t), x)
  BY <1>2, ContentAppend DEF Done
<1>4. Content(t) \o <<x>> = Whole
  BY <1>2 DEF Done
<1>5. Content(t) \o <<x>> = Append(Content(t), x)
  BY <1>2, <1>3
<1> QED BY <1>3, <1>4, <1>5 DEF x

LEMMA DoneOpen ==
    ASSUME input \in Seq(Char), NEW t, NEW p, Done(t, p), p # Len(input),
           Fragmented(p, Len(input))
    PROVE  Whole[Len(Whole)].kind = "open"
<1>1. p \in 0 .. Len(input) /\ t \in Seq(TokenRec)
  BY StartsIn DEF Done
<1>2. WholeFrom[p] = <<Open(p)>>
  BY <1>1, WholeUnfolds
<1>3. Content(t) \o <<Open(p)>> = Whole
  BY <1>2 DEF Done
<1>4. Open(p).kind = "open" /\ Open(p) \in TokenRec
  BY <1>1 DEF Open, TokenRec
<1>5. Content(t) \in Seq(TokenRec)
  BY <1>1, <1>4, ContentAppend
<1>6. Content(t) \o <<Open(p)>> = Append(Content(t), Open(p))
  BY <1>4, <1>5
<1>7. /\ Len(Append(Content(t), Open(p))) = Len(Content(t)) + 1
      /\ Append(Content(t), Open(p))[Len(Content(t)) + 1] = Open(p)
  BY <1>4, <1>5
<1> QED BY <1>3, <1>4, <1>6, <1>7

\* The text does not change, and no chunk is taken back.
LEMMA Same ==
    ASSUME input' = input
    PROVE  /\ Starts' = Starts /\ Inside' = Inside /\ WholeFrom' = WholeFrom /\ Whole' = Whole
           /\ cuts \subseteq cuts' => (Clean' => Clean)
<1>1. Starts' = Starts
  BY DEF Starts, StartsFrom, Fragmented, Closers, NoToken, TokenEnd, StretchEnd, ClosedAt, Ch
<1>2. WholeFrom' = WholeFrom
  BY DEF WholeFrom, EofToken, Token, Pushed, Fragmented, Closers, NoToken, TokenEnd,
         StretchEnd, ClosedAt, Ch
<1>3. Inside' = Inside
  BY <1>1 DEF Inside, Ch
<1>4. Whole' = Whole
  BY <1>2 DEF Whole
<1> QED BY <1>1, <1>2, <1>3, <1>4 DEF Clean

LEMMA FillCuts ==
    ASSUME IInv, CutInv, Fill
    PROVE  cuts \subseteq cuts' /\ (read' = 0 \/ read' \in cuts')
BY DEF Fill, CutInv

LEMMA StartCut == IInv /\ CutInv /\ Start => CutInv'
<1> SUFFICES ASSUME IInv, CutInv, Start PROVE CutInv'
  OBVIOUS
<1>1. /\ phase = "start" /\ ~ finished /\ local' = 0 /\ batch' = <<>> /\ input' = input
      /\ offset' = offset /\ input \in Seq(Char) /\ offset \in Nat /\ read \in Nat
  BY DEF Start, IInv
<1>2. cuts \subseteq cuts' /\ (read' = 0 \/ read' \in cuts')
  <2>1. CASE Pending
    BY <2>1 DEF Start, CutInv
  <2>2. CASE ~ Pending
    BY <2>2, FillCuts DEF Start
  <2> QED BY <2>1, <2>2
<1>3. Clean' => Clean
  BY <1>1, <1>2, Same
<1>4. Clean => Done(out, offset)
  BY <1>1 DEF CutInv
<1>5. Starts' = Starts /\ WholeFrom' = WholeFrom /\ Whole' = Whole
  BY <1>1, Same
<1>6. CASE offset = read' /\ eof'
  <2>1. finished' = TRUE /\ out' = Append(out, EofToken(offset)) /\ phase' = "idle"
    BY <1>6 DEF Start
  <2>2. offset = Len(input)
    <3>1. eof' => read' = Len(input)
      <4>1. CASE Pending
        BY <4>1 DEF Start, IInv
      <4>2. CASE ~ Pending
        BY <4>2, FillFacts DEF Start
      <4> QED BY <4>1, <4>2
    <3> QED BY <3>1, <1>6
  <2>3. Clean => Content(out') = Whole
    <3>1. Clean => Done(out, Len(input))
      BY <1>4, <2>2
    <3>2. Clean => Content(Append(out, EofToken(Len(input)))) = Whole
      BY <3>1, <1>1, DoneEof
    <3> QED BY <3>2, <2>1, <2>2
  <2> QED BY <1>2, <1>3, <1>5, <2>1, <2>3 DEF CutInv
<1>7. CASE ~ (offset = read' /\ eof')
  <2>1. finished' = finished /\ out' = out /\ phase' = "lex"
    BY <1>7 DEF Start
  <2>2. Clean => Done(out' \o batch', offset' + local')
    <3>1. offset' + local' = offset
      BY <1>1
    <3>2. out' \o batch' = out
      <4>1. out \in Seq(TokenRec)
        BY DEF IInv, Within
      <4> QED BY <4>1, <2>1, <1>1
    <3> QED BY <3>1, <3>2, <1>4
  <2>3. Clean => Done(out \o batch, offset + local)'
    BY <2>2, <1>5 DEF Done
  <2> QED BY <1>1, <1>2, <1>3, <2>1, <2>3 DEF CutInv
<1> QED BY <1>6, <1>7

LEMMA LexTokenCut == IInv /\ CutInv /\ LexToken => CutInv'
<1> SUFFICES ASSUME IInv, CutInv, LexToken PROVE CutInv'
  OBVIOUS
<1> DEFINE e == Len(input)
           end == TokenEnd(At, read)
           s == out \o batch
<1>1. /\ phase = "lex" /\ At < read /\ ~ NoToken(At, read)
      /\ local' = end - offset
      /\ batch' = IF Pushed(At) THEN Append(batch, Token(At, end)) ELSE batch
      /\ phase' \in {"lex", "full"}
      /\ UNCHANGED <<input, read, eof, finished, offset, out, cuts>>
  BY DEF LexToken, Lexing
<1>2. /\ offset \in Nat /\ local \in Nat /\ read \in Nat /\ At = offset + local /\ At \in Nat
      /\ read <= e /\ out \in Seq(TokenRec) /\ batch \in Seq(TokenRec) /\ input \in Seq(Char)
      /\ ~ finished /\ e \in Nat
  BY <1>1 DEF IInv, At, Within
<1>3. end \in At + 1 .. read
  BY <1>1, <1>2, TokenEndFacts
<1>4. Starts' = Starts /\ WholeFrom' = WholeFrom /\ Whole' = Whole /\ (Clean' => Clean)
  BY <1>1, Same
<1>5. read \in cuts
  BY <1>1, <1>2 DEF CutInv
<1>6. ASSUME Clean PROVE Done(out' \o batch', offset' + local')
  <2>1. Done(s, At)
    BY <1>1, <1>2, <1>6 DEF CutInv
  <2>2. At \in Starts /\ read \in Starts \cup Inside
    BY <2>1, <1>5, <1>6 DEF Done, Clean
  <2>3. ~ NoToken(At, e) /\ end = TokenEnd(At, e)
    BY <2>2, <1>1, <1>2, CleanToken
  <2>4. At # e /\ ~ Fragmented(At, e)
    <3>1. At # e
      BY <1>1, <1>2
    <3> QED BY <3>1, <2>3 DEF NoToken
  <2>5. After(At) = end
    BY <2>3, <2>4 DEF After
  <2>6. offset' + local' = end
    BY <1>1, <1>2, <1>3
  <2>7. CASE ~ Pushed(At)
    <3>1. TokensAt(At) = <<>> /\ out' \o batch' = s
      BY <2>7, <1>1 DEF TokensAt
    <3>2. Done(s, After(At))
      BY <3>1, <2>1, <2>4, <1>2, DoneToken
    <3> QED BY <3>1, <3>2, <2>5, <2>6
  <2>8. CASE Pushed(At)
    <3> DEFINE x == Token(At, end)
    <3>1. x \in TokenRec /\ x.kind # "#"
      BY <2>8, <1>2, <1>3 DEF Token, TokenRec, Pushed, Char
    <3>2. TokensAt(At) = <<x>>
      BY <2>3, <2>8 DEF TokensAt
    <3>3. batch' = Append(batch, x) /\ out' = out
      BY <1>1, <2>8
    <3> HIDE DEF x
    <3>4. out' \o batch' = Append(s, x)
      BY <3>1, <3>3, <1>2
    <3>5. Done(Append(s, x), After(At))
      BY <3>1, <3>2, <2>1, <2>4, <1>2, DoneToken
    <3> QED BY <3>4, <3>5, <2>5, <2>6
  <2> QED BY <2>7, <2>8
<1>7. Clean => Done(out \o batch, offset + local)'
  BY <1>4, <1>6 DEF Done
<1> QED BY <1>1, <1>2, <1>4, <1>5, <1>7 DEF CutInv

LEMMA LexGarbageCut == IInv /\ CutInv /\ LexGarbage => CutInv'
<1> SUFFICES ASSUME IInv, CutInv, LexGarbage PROVE CutInv'
  OBVIOUS
<1> DEFINE e == Len(input)
           s == out \o batch
<1>1. /\ phase = "lex" /\ At < read /\ NoToken(At, read) /\ ~ Fragmented(At, read)
      /\ local' = local + 1
      /\ batch' = IF eof THEN Append(batch, Skipped(At)) ELSE batch
      /\ UNCHANGED <<input, read, eof, finished, offset, phase, out, cuts>>
  BY DEF LexGarbage, Lexing
<1>2. /\ offset \in Nat /\ local \in Nat /\ read \in Nat /\ At = offset + local /\ At \in Nat
      /\ read <= e /\ out \in Seq(TokenRec) /\ batch \in Seq(TokenRec) /\ input \in Seq(Char)
      /\ ~ finished /\ e \in Nat
  BY <1>1 DEF IInv, At, Within
<1>3. Starts' = Starts /\ WholeFrom' = WholeFrom /\ Whole' = Whole /\ (Clean' => Clean)
  BY <1>1, Same
<1>4. At # e /\ NoToken(At, e) /\ ~ Fragmented(At, e)
  <2>1. Ch(At) = "?"
    BY <1>1 DEF NoToken
  <2> QED BY <2>1, <1>1, <1>2 DEF NoToken, Fragmented
<1>5. After(At) = offset' + local' /\ TokensAt(At) = <<>>
  <2>1. After(At) = At + 1 /\ TokensAt(At) = <<>>
    BY <1>4 DEF After, TokensAt
  <2> QED BY <2>1, <1>1, <1>2
<1>6. ASSUME Clean PROVE Done(out' \o batch', offset' + local')
  <2>1. Done(s, At)
    BY <1>1, <1>2, <1>6 DEF CutInv
  <2>2. Done(s, offset' + local')
    BY <2>1, <1>2, <1>4, <1>5, DoneToken
  <2>3. CASE ~ eof
    BY <2>2, <2>3, <1>1
  <2>4. CASE eof
    <3> DEFINE x == Skipped(At)
    <3>1. x \in TokenRec /\ x.kind = "#"
      BY <1>2 DEF Skipped, TokenRec, Char
    <3>2. batch' = Append(batch, x) /\ out' = out
      BY <1>1, <2>4
    <3> HIDE DEF x
    <3>3. out' \o batch' = Append(s, x)
      BY <3>1, <3>2, <1>2
    <3> QED BY <3>1, <3>3, <2>2, DoneSkip
  <2> QED BY <2>3, <2>4
<1>7. Clean => Done(out \o batch, offset + local)'
  BY <1>3, <1>6 DEF Done
<1> QED BY <1>1, <1>2, <1>3, <1>7 DEF CutInv

LEMMA UnterminatedCut == IInv /\ CutInv /\ LexUnterminated => CutInv'
<1> SUFFICES ASSUME IInv, CutInv, LexUnterminated PROVE CutInv'
  OBVIOUS
<1>1. /\ phase = "lex" /\ At < read /\ Fragmented(At, read) /\ eof /\ phase' = "failed"
      /\ UNCHANGED <<input, read, eof, finished, offset, local, batch, out, cuts>>
  BY DEF LexUnterminated, Lexing
<1>2. /\ read = Len(input) /\ At # Len(input) /\ input \in Seq(Char) /\ ~ finished
      /\ At = offset + local
  <2>1. /\ offset \in Nat /\ local \in Nat /\ read = Len(input) /\ input \in Seq(Char)
        /\ ~ finished
    BY <1>1 DEF IInv
  <2>2. Len(input) \in Nat
    BY <2>1
  <2> QED BY <2>1, <2>2, <1>1 DEF At
<1>3. Whole' = Whole /\ (Clean' => Clean)
  BY <1>1, Same
<1>4. Clean => Whole[Len(Whole)].kind = "open"
  <2>1. Clean => Done(out \o batch, At)
    BY <1>1, <1>2 DEF CutInv
  <2>2. Fragmented(At, Len(input))
    BY <1>1, <1>2
  <2> QED BY <2>1, <2>2, <1>2, DoneOpen
<1> QED BY <1>1, <1>2, <1>3, <1>4 DEF CutInv

LEMMA RetryCut == IInv /\ CutInv /\ Retry => CutInv'
<1> SUFFICES ASSUME IInv, CutInv, Retry PROVE CutInv'
  OBVIOUS
<1>1. /\ phase \in {"lex", "full"} /\ batch = <<>> /\ Fill /\ offset' = At
      /\ phase' \in {"idle", "start"} /\ UNCHANGED <<input, finished, batch, out>>
  BY DEF Retry, LoopOver
<1>2. ~ finished /\ out \in Seq(TokenRec) /\ At = offset + local
  BY <1>1 DEF IInv, Within, At
<1>3. Starts' = Starts /\ WholeFrom' = WholeFrom /\ Whole' = Whole /\ (Clean' => Clean)
      /\ (read' = 0 \/ read' \in cuts')
  BY <1>1, FillCuts, Same
<1>4. Clean => Done(out, At)
  <2>1. out \o batch = out
    BY <1>1, <1>2
  <2> QED BY <2>1, <1>1, <1>2 DEF CutInv
<1>5. Clean => Done(out, offset)'
  BY <1>1, <1>3, <1>4 DEF Done
<1> QED BY <1>1, <1>2, <1>3, <1>5 DEF CutInv

LEMMA DeliverCut == IInv /\ CutInv /\ Deliver => CutInv'
<1> SUFFICES ASSUME IInv, CutInv, Deliver PROVE CutInv'
  OBVIOUS
<1> DEFINE base == out \o batch
<1>1. /\ phase \in {"lex", "full"} /\ offset' = At /\ phase' = "idle"
      /\ finished' = (eof /\ At = read)
      /\ out' = base \o (IF eof /\ At = read THEN <<EofToken(At)>> ELSE <<>>)
      /\ UNCHANGED <<input, read, eof, batch, cuts>>
  BY DEF Deliver, LoopOver
<1>2. /\ ~ finished /\ out \in Seq(TokenRec) /\ batch \in Seq(TokenRec) /\ At = offset + local
      /\ At \in Nat /\ input \in Seq(Char) /\ (eof => read = Len(input))
  BY <1>1 DEF IInv, Within, At
<1>3. Starts' = Starts /\ WholeFrom' = WholeFrom /\ Whole' = Whole /\ (Clean' => Clean)
  BY <1>1, Same
<1>4. Clean => Done(base, At)
  BY <1>1, <1>2 DEF CutInv
<1>5. base \in Seq(TokenRec)
  BY <1>2
<1> HIDE DEF base
<1>6. CASE eof /\ At = read
  <2>1. finished' /\ out' = base \o <<EofToken(At)>> /\ At = Len(input)
    BY <1>1, <1>2, <1>6
  <2>2. EofToken(At) \in TokenRec
    BY <1>2, EofFacts
  <2>3. out' = Append(base, EofToken(Len(input)))
    BY <2>1, <2>2, <1>5
  <2>4. Clean => Content(out') = Whole
    <3>1. Clean => Done(base, Len(input))
      BY <2>1, <1>4
    <3> QED BY <3>1, <2>3, <1>2, DoneEof
  <2> QED BY <1>1, <1>3, <2>1, <2>4 DEF CutInv
<1>7. CASE ~ (eof /\ At = read)
  <2>1. ~ finished'
    BY <1>1, <1>7
  <2>2. out' = base
    <3>1. out' = base \o <<>>
      BY <1>1, <1>7
    <3> QED BY <3>1, <1>5
  <2>3. Clean => Done(out, offset)'
    BY <2>2, <1>1, <1>3, <1>4 DEF Done
  <2> QED BY <1>1, <1>3, <2>1, <2>3 DEF CutInv
<1> QED BY <1>6, <1>7

\* What the calls have returned and the text from where they go on.
THEOREM SpecCutInv == Spec => []CutInv
<1>1. Init => CutInv
  <2> SUFFICES ASSUME Init PROVE CutInv
    OBVIOUS
  <2>1. /\ input \in Seq(Char) /\ read = 0 /\ finished = FALSE /\ offset = 0
        /\ phase = "idle" /\ out = <<>>
    BY InputsAssumption DEF Init
  <2>2. 0 \in Starts /\ 0 \in 0 .. Len(input)
    BY <2>1, StartsIn DEF Chain
  <2>3. Done(<<>>, 0)
    <3>1. WholeFrom[0] \in Seq(TokenRec)
      BY <2>1, <2>2, WholeUnfolds
    <3>2. Content(<<>>) \o WholeFrom[0] = Whole
      BY <3>1, ContentNone DEF Whole
    <3> QED BY <3>2, <2>2 DEF Done
  <2> QED BY <2>1, <2>3 DEF CutInv
<1>2. IInv /\ CutInv /\ [Next]_vars => CutInv'
  <2> SUFFICES ASSUME IInv, CutInv, [Next]_vars PROVE CutInv'
    OBVIOUS
  <2>1. CASE Call \/ UNCHANGED vars
    <3>1. /\ UNCHANGED <<input, read, eof, finished, offset, local, batch, out, cuts>>
      BY <2>1 DEF Call, vars
    <3>2. Starts' = Starts /\ WholeFrom' = WholeFrom /\ Whole' = Whole /\ (Clean' => Clean)
      BY <3>1, Same
    <3>3. /\ Done(out \o batch, offset + local)' <=> Done(out \o batch, offset + local)
          /\ Done(out, offset)' <=> Done(out, offset)
      BY <3>1, <3>2 DEF Done
    <3>4. CASE Call
      BY <3>1, <3>2, <3>3, <3>4 DEF Call, CutInv
    <3>5. CASE UNCHANGED vars
      BY <3>1, <3>2, <3>3, <3>5 DEF vars, CutInv
    <3> QED BY <2>1, <3>4, <3>5
  <2> QED BY <2>1, StartCut, LexTokenCut, LexGarbageCut, UnterminatedCut, RetryCut, DeliverCut
        DEF Next
<1> QED BY <1>1, <1>2, SpecIInv, PTL DEF Spec

\* Chunks that end between two tokens or inside a literal cannot be seen: the
\* tokens returned are those of the text in one piece, and a literal that is
\* never closed is an error.
THEOREM SpecCutsInvisible == Spec => []CutsInvisible
<1>1. IInv /\ CutInv => CutsInvisible
  <2>1. IInv => (phase = "end" => finished)
    BY DEF IInv
  <2> QED BY <2>1 DEF CutInv, Clean, CutsInvisible
<1> QED BY <1>1, SpecIInv, SpecCutInv, PTL
=============================================================================
