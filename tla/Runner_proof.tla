---------------------------- MODULE Runner_proof ----------------------------
(***************************************************************************)
(* Proofs for Runner, for every document, every input and every bound on   *)
(* the nesting of calls.                                                   *)
(***************************************************************************)
EXTENDS Runner, TLAPS, SequenceTheorems, FiniteSetTheorems

-----------------------------------------------------------------------------
(* The call stack                                                          *)

Fields == {"g", "via", "phase", "i", "start", "iter", "stmt", "acts", "prev", "auto",
           "ret", "next", "fail", "base"}
Ops == {"none", "next", "skip", "fail", "leave", "clear", "call", "return", "add", "open",
        "enter", "enqueue"}
Marks == {"top", "stmt", "act", "scan", "acts", "iter", "back"}
Value == Grammar \cup Int \cup Ops \cup Marks \cup Seq(Action) \cup BOOLEAN
Shape == [Fields -> Value]

PoliteAct(a) == a.op # "leave" /\ (a.op \in {"add", "open", "enter"} => a.path # <<>>)
PoliteDoc(d) == \A g \in DOMAIN d : \A i \in DOMAIN d[g] :
                   \A j \in DOMAIN d[g][i].acts : PoliteAct(d[g][i].acts[j])

\* A block that runs belongs to a statement that has one, began after the
\* iteration did, and owes a leave right after an out.open.
BlockOK(d, f, p) ==
    /\ f.i <= Len(d[f.g]) /\ f.iter <= f.stmt /\ f.stmt <= p
    /\ d[f.g][f.i].kind \in {"match", "when", "action"}
    /\ d[f.g][f.i].kind = "action" => Head(d[f.g][f.i].acts).op # "call"
    /\ f.acts # <<>> /\ f.prev = "open" => f.auto > 0
    /\ PoliteDoc(d) => \A j \in DOMAIN f.acts : PoliteAct(f.acts[j])

\* A frame of document d at position p.
FrameOK(d, f, p) ==
    /\ f.g \in Grammar /\ f.via \in {"top", "stmt", "act"}
    /\ f.phase \in {"scan", "acts", "iter", "back"} /\ f.i \in 1 .. Len(d[f.g]) + 1
    /\ f.start \in Nat /\ f.iter \in Nat /\ f.stmt \in Nat /\ f.acts \in Seq(Action)
    /\ f.auto \in Nat /\ f.ret \in Nat /\ f.base \in Nat
    /\ f.start <= f.iter /\ f.iter <= p
    /\ f.phase = "acts" => BlockOK(d, f, p)
    /\ f.phase # "acts" => f.auto = 0
    /\ f.phase \in {"scan", "iter"} \/ (f.phase = "acts" /\ f.acts # <<>>) =>
          f.ret = 0 /\ f.next = FALSE /\ f.fail = FALSE

\* Frame f waits for the call c: at a bare name in its block or at a statement.
\* The callee began where the caller stopped, with the caller's scopes open.
Waits(d, f, c) ==
    /\ c.via \in {"stmt", "act"}
    /\ f.iter <= f.stmt /\ f.stmt <= c.start
    /\ c.via = "act" => /\ f.phase = "acts" /\ f.acts # <<>>
                        /\ Head(f.acts).op = "call" /\ Head(f.acts).g = c.g
    /\ c.via = "stmt" => /\ f.phase = "scan" /\ f.i <= Len(d[f.g]) /\ d[f.g][f.i].kind = "action"
                         /\ Head(d[f.g][f.i].acts).op = "call" /\ Head(d[f.g][f.i].acts).g = c.g
    /\ c.base <= f.base + f.auto
    /\ PoliteDoc(d) => c.base = f.base + f.auto

Stack(d, fr, p) ==
    /\ fr \in Seq(Shape) /\ Len(fr) \in 1 .. MaxFrames
    /\ \A k \in 1 .. Len(fr) : FrameOK(d, fr[k], p)
    /\ \A k \in 1 .. Len(fr) - 1 : Waits(d, fr[k], fr[k + 1])
    /\ fr[1].via = "top" /\ fr[1].g = Main /\ fr[1].base = 0

\* What a frame keeps while it is on the stack.
SameCall(f, h) == f.via = h.via /\ f.g = h.g /\ f.start = h.start /\ f.base = h.base

LEMMA FrameLater ==
    ASSUME NEW d, NEW f, NEW p \in Nat, NEW q \in Nat, p <= q, FrameOK(d, f, p)
    PROVE  FrameOK(d, f, q)
<1>1. BlockOK(d, f, p) /\ f.stmt \in Nat => BlockOK(d, f, q)
  BY DEF BlockOK
<1> QED BY <1>1 DEF FrameOK

LEMMA WaitsSame ==
    ASSUME NEW d, NEW f, NEW c, NEW h, Waits(d, f, c), SameCall(c, h)
    PROVE  Waits(d, f, h)
BY DEF Waits, SameCall

LEMMA SetTopStack ==
    ASSUME NEW d, NEW fr, NEW p \in Nat, NEW q \in Nat, p <= q, Stack(d, fr, p),
           NEW f \in Shape, FrameOK(d, f, q), SameCall(fr[Len(fr)], f)
    PROVE  /\ Stack(d, [fr EXCEPT ![Len(fr)] = f], q)
           /\ Len([fr EXCEPT ![Len(fr)] = f]) = Len(fr)
           /\ [fr EXCEPT ![Len(fr)] = f][Len(fr)] = f
<1> DEFINE n == Len(fr)
           new == [fr EXCEPT ![n] = f]
<1>1. /\ fr \in Seq(Shape) /\ n \in 1 .. MaxFrames
      /\ \A k \in 1 .. n : FrameOK(d, fr[k], p)
      /\ \A k \in 1 .. n - 1 : Waits(d, fr[k], fr[k + 1])
      /\ fr[1].via = "top" /\ fr[1].g = Main /\ fr[1].base = 0
  BY DEF Stack
<1>2. /\ new \in Seq(Shape) /\ Len(new) = n /\ new[n] = f
      /\ \A k \in 1 .. n - 1 : new[k] = fr[k]
  BY <1>1
<1> HIDE DEF new, n
<1>3. \A k \in 1 .. n : FrameOK(d, new[k], q)
  BY <1>1, <1>2, FrameLater
<1>4. ASSUME NEW k \in 1 .. n - 1 PROVE Waits(d, new[k], new[k + 1])
  <2>1. Waits(d, fr[k], fr[k + 1]) /\ new[k] = fr[k] /\ n \in Nat
    BY <1>1, <1>2
  <2>2. CASE k + 1 = n
    BY <2>1, <2>2, <1>2, WaitsSame DEF n
  <2>3. CASE k + 1 # n
    BY <2>1, <2>3, <1>2
  <2> QED BY <2>2, <2>3
<1>5. new[1].via = "top" /\ new[1].g = Main /\ new[1].base = 0
  BY <1>1, <1>2 DEF SameCall, n
<1> QED BY <1>1, <1>2, <1>3, <1>4, <1>5 DEF Stack, new, n

LEMMA PushStack ==
    ASSUME NEW d, NEW fr, NEW p \in Nat, Stack(d, fr, p), Len(fr) < MaxFrames,
           NEW f \in Shape, FrameOK(d, f, p), SameCall(fr[Len(fr)], f),
           NEW c \in Shape, FrameOK(d, c, p), Waits(d, f, c)
    PROVE  LET new == Append([fr EXCEPT ![Len(fr)] = f], c)
           IN  Stack(d, new, p) /\ Len(new) = Len(fr) + 1 /\ new[Len(new)] = c
<1> DEFINE n == Len(fr)
           mid == [fr EXCEPT ![n] = f]
           new == Append(mid, c)
<1>1. Stack(d, mid, p) /\ Len(mid) = n /\ mid[n] = f
  BY SetTopStack
<1>2. /\ mid \in Seq(Shape) /\ n \in 1 .. MaxFrames
      /\ \A k \in 1 .. n : FrameOK(d, mid[k], p)
      /\ \A k \in 1 .. n - 1 : Waits(d, mid[k], mid[k + 1])
      /\ mid[1].via = "top" /\ mid[1].g = Main /\ mid[1].base = 0
  BY <1>1 DEF Stack
<1> HIDE DEF mid
<1>3. /\ new \in Seq(Shape) /\ Len(new) = n + 1 /\ new[n + 1] = c
      /\ \A k \in 1 .. n : new[k] = mid[k]
  BY <1>1, <1>2
<1> HIDE DEF new, n
<1>4. n + 1 \in 1 .. MaxFrames /\ n \in Nat
  BY <1>2, MaxFramesAssumption DEF n
<1>5. \A k \in 1 .. n + 1 : FrameOK(d, new[k], p)
  BY <1>2, <1>3, <1>4
<1>6. \A k \in 1 .. n : Waits(d, new[k], new[k + 1])
  BY <1>1, <1>2, <1>3, <1>4
<1>7. new[1].via = "top" /\ new[1].g = Main /\ new[1].base = 0
  BY <1>2, <1>3
<1>8. Stack(d, new, p)
  BY <1>3, <1>4, <1>5, <1>6, <1>7 DEF Stack
<1> QED BY <1>3, <1>8 DEF new, mid, n

LEMMA PopStack ==
    ASSUME NEW d, NEW fr, NEW p \in Nat, Stack(d, fr, p), Len(fr) > 1,
           NEW f \in Shape, FrameOK(d, f, p), SameCall(fr[Len(fr) - 1], f)
    PROVE  LET new == Append(SubSeq(fr, 1, Len(fr) - 2), f)
           IN  Stack(d, new, p) /\ Len(new) = Len(fr) - 1 /\ new[Len(new)] = f
<1> DEFINE n == Len(fr)
           new == Append(SubSeq(fr, 1, n - 2), f)
<1>1. /\ fr \in Seq(Shape) /\ n \in 1 .. MaxFrames /\ n > 1
      /\ \A k \in 1 .. n : FrameOK(d, fr[k], p)
      /\ \A k \in 1 .. n - 1 : Waits(d, fr[k], fr[k + 1])
      /\ fr[1].via = "top" /\ fr[1].g = Main /\ fr[1].base = 0
  BY DEF Stack
<1>2. /\ new \in Seq(Shape) /\ Len(new) = n - 1 /\ new[n - 1] = f
      /\ \A k \in 1 .. n - 2 : new[k] = fr[k]
  <2>1. n \in Nat /\ n - 2 \in 0 .. n
    BY <1>1
  <2>2. /\ SubSeq(fr, 1, n - 2) \in Seq(Shape) /\ Len(SubSeq(fr, 1, n - 2)) = n - 2
        /\ \A k \in 1 .. n - 2 : SubSeq(fr, 1, n - 2)[k] = fr[k]
    <3> DEFINE m == n - 2
    <3>1. m \in Int /\ \A i \in 1 .. m : fr[i] \in Shape
      BY <1>1, <2>1
    <3>2. m \in Nat
      BY <2>1
    <3> HIDE DEF m
    <3>3. SubSeq(fr, 1, m) \in Seq(Shape) /\ Len(SubSeq(fr, 1, m)) = IF 1 <= m THEN m - 1 + 1 ELSE 0
      BY <3>1, SubSeqProperties
    <3>4. \A k \in 1 .. m - 1 + 1 : SubSeq(fr, 1, m)[k] = fr[1 + k - 1]
      BY <3>1, SubSeqProperties
    <3>5. Len(SubSeq(fr, 1, m)) = m /\ \A k \in 1 .. m : SubSeq(fr, 1, m)[k] = fr[k]
      BY <3>2, <3>3, <3>4
    <3> QED BY <3>3, <3>5 DEF m
  <2> QED BY <2>1, <2>2
<1> HIDE DEF new, n
<1>3. n - 1 \in 1 .. MaxFrames /\ n \in Nat
  BY <1>1, MaxFramesAssumption
<1>4. \A k \in 1 .. n - 1 : FrameOK(d, new[k], p)
  BY <1>1, <1>2, <1>3
<1>5. ASSUME NEW k \in 1 .. n - 2 PROVE Waits(d, new[k], new[k + 1])
  <2>1. Waits(d, fr[k], fr[k + 1]) /\ new[k] = fr[k]
    BY <1>1, <1>2, <1>3
  <2>2. CASE k + 1 = n - 1
    BY <2>1, <2>2, <1>2, <1>3, WaitsSame DEF n
  <2>3. CASE k + 1 # n - 1
    BY <2>1, <2>3, <1>2, <1>3
  <2> QED BY <2>2, <2>3
<1>6. new[1].via = "top" /\ new[1].g = Main /\ new[1].base = 0
  BY <1>1, <1>2, <1>3 DEF SameCall, n
<1>7. Stack(d, new, p)
  BY <1>2, <1>3, <1>4, <1>5, <1>6 DEF Stack
<1> QED BY <1>2, <1>7 DEF new, n

-----------------------------------------------------------------------------
(* The inductive invariant of the call stack and the cursor                *)

\* Every frame is sound, every caller waits, and the cursor is no deeper than
\* the scopes whose leave is owed: as deep, if no block leaves by itself.
IInv ==
    /\ doc \in [Grammar -> Seq(Statement)] /\ input \in Seq(Token)
    /\ pos \in 0 .. Len(input) /\ depth \in Nat
    /\ Stack(doc, frames, pos)
    /\ depth <= Allowance(Top)
    /\ PoliteDoc(doc) => depth = Allowance(Top)
    /\ done => Len(frames) = 1 /\ Top.phase # "acts"
    /\ failed \in 0 .. MaxFrames

LEMMA TopFacts ==
    ASSUME IInv
    PROVE  /\ Top \in Shape /\ FrameOK(doc, Top, pos)
           /\ Len(frames) \in 1 .. MaxFrames /\ Len(frames) \in Nat /\ MaxFrames \in Nat
           /\ pos \in Nat /\ Len(input) \in Nat /\ pos <= Len(input) /\ depth \in Nat
           /\ frames \in Seq(Shape)
BY MaxFramesAssumption DEF IInv, Stack, Top

LEMMA StmtFacts ==
    ASSUME IInv, Top.i <= Len(Stmts)
    PROVE  /\ Stmt \in Statement /\ Stmt.acts \in Seq(Action)
           /\ Stmt.kind \in {"match", "when", "skip", "action"}
           /\ Stmt.kind = "action" => Head(Stmt.acts) \in Action
           /\ PoliteDoc(doc) => \A j \in DOMAIN Stmt.acts : PoliteAct(Stmt.acts[j])
           /\ Top.i \in 1 .. Len(Stmts) /\ Stmts \in Seq(Statement)
           /\ Stmts = doc[Top.g] /\ Stmt = doc[Top.g][Top.i]
<1>1. /\ Top.g \in Grammar /\ Top.i \in 1 .. Len(doc[Top.g]) + 1
      /\ doc \in [Grammar -> Seq(Statement)]
  BY TopFacts DEF FrameOK, IInv
<1>2. Stmts = doc[Top.g] /\ Stmts \in Seq(Statement)
  BY <1>1 DEF Stmts
<1>3. Top.i \in 1 .. Len(Stmts) /\ Stmt = Stmts[Top.i]
  BY <1>1, <1>2 DEF Stmt
<1>4. Stmt \in Statement
  BY <1>2, <1>3
<1>5. /\ Stmt.kind \in {"match", "when", "skip", "action"} /\ Stmt.acts \in Seq(Action)
      /\ Stmt.kind = "action" => Len(Stmt.acts) = 1
  BY <1>4 DEF Statement
<1>6. Stmt.kind = "action" => Head(Stmt.acts) \in Action
  BY <1>5
<1>7. PoliteDoc(doc) => \A j \in DOMAIN Stmt.acts : PoliteAct(Stmt.acts[j])
  BY <1>1, <1>2, <1>3 DEF PoliteDoc
<1> QED BY <1>2, <1>3, <1>4, <1>5, <1>6, <1>7

LEMMA CallerFacts ==
    ASSUME IInv, Top.via # "top"
    PROVE  /\ Len(frames) > 1 /\ Caller \in Shape /\ FrameOK(doc, Caller, pos)
           /\ Waits(doc, Caller, Top)
<1>1. Len(frames) # 1
  BY DEF IInv, Stack, Top
<1>2. Len(frames) \in Nat /\ Len(frames) > 1
  <2>1. Len(frames) \in 1 .. MaxFrames /\ MaxFrames \in Nat
    BY TopFacts
  <2> QED BY <1>1, <2>1
<1>3. Len(frames) - 1 \in 1 .. Len(frames) - 1 /\ Len(frames) - 1 + 1 = Len(frames)
  BY <1>2
<1> QED BY <1>2, <1>3 DEF IInv, Stack, Top, Caller

LEMMA NewFrameFacts ==
    ASSUME pos \in Nat, depth \in Nat, NEW g \in Grammar, NEW via \in {"top", "stmt", "act"}
    PROVE  LET c == NewFrame(g, via) IN
           /\ c \in Shape /\ c.g = g /\ c.via = via /\ c.phase = "scan" /\ c.i = 1
           /\ c.start = pos /\ c.iter = pos /\ c.stmt = pos /\ c.acts = <<>> /\ c.prev = "none"
           /\ c.auto = 0 /\ c.ret = 0 /\ c.next = FALSE /\ c.fail = FALSE /\ c.base = depth
<1> DEFINE c == NewFrame(g, via)
<1>1. /\ c.g = g /\ c.via = via /\ c.phase = "scan" /\ c.i = 1
      /\ c.start = pos /\ c.iter = pos /\ c.stmt = pos /\ c.acts = <<>> /\ c.prev = "none"
      /\ c.auto = 0 /\ c.ret = 0 /\ c.next = FALSE /\ c.fail = FALSE /\ c.base = depth
  BY DEF NewFrame
<1>2. c = [x \in Fields |-> c[x]]
  BY DEF NewFrame, Fields
<1>3. /\ c.g \in Value /\ c.via \in Value /\ c.phase \in Value /\ c.i \in Value
      /\ c.start \in Value /\ c.iter \in Value /\ c.stmt \in Value /\ c.acts \in Value
      /\ c.prev \in Value /\ c.auto \in Value /\ c.ret \in Value /\ c.base \in Value
  <2> HIDE DEF c
  <2> QED BY <1>1 DEF Value, Ops, Marks
<1>4. c.next \in Value /\ c.fail \in Value
  <2>1. FALSE \in Value
    BY DEF Value
  <2> HIDE DEF c
  <2> QED BY <1>1, <2>1
<1>5. c \in Shape
  <2> HIDE DEF c
  <2>1. \A x \in Fields : c[x] \in Value
    BY <1>3, <1>4 DEF Fields
  <2> QED BY <1>2, <2>1 DEF Shape
<1> QED BY <1>1, <1>5

\* A block begins.
Entered(f, acts, p) == [f EXCEPT !.phase = "acts", !.acts = acts, !.prev = "none", !.auto = 0, !.stmt = p]
LEMMA EnterFacts ==
    ASSUME NEW f \in Shape, NEW acts \in Seq(Action), NEW p \in Nat
    PROVE  LET h == Entered(f, acts, p) IN
           /\ h \in Shape /\ SameCall(f, h)
           /\ h.phase = "acts" /\ h.i = f.i /\ h.iter = f.iter /\ h.stmt = p /\ h.acts = acts
           /\ h.prev = "none" /\ h.auto = 0 /\ h.ret = f.ret /\ h.next = f.next /\ h.fail = f.fail
<1> DEFINE h == Entered(f, acts, p)
<1>1. "acts" \in Value /\ acts \in Value /\ "none" \in Value /\ 0 \in Value /\ p \in Value
  BY DEF Value, Ops, Marks
<1>2. h \in Shape
  BY <1>1 DEF Shape, Entered
<1>3. /\ h.phase = "acts" /\ h.i = f.i /\ h.iter = f.iter /\ h.stmt = p /\ h.acts = acts
      /\ h.prev = "none" /\ h.auto = 0 /\ h.ret = f.ret /\ h.next = f.next /\ h.fail = f.fail
      /\ h.via = f.via /\ h.g = f.g /\ h.start = f.start /\ h.base = f.base
  BY DEF Shape, Fields, Entered
<1> QED BY <1>2, <1>3 DEF SameCall

\* A frame goes to another phase.
InPhase(f, phase) == [f EXCEPT !.phase = phase]
LEMMA PhaseFacts ==
    ASSUME NEW f \in Shape, NEW phase \in Marks
    PROVE  LET h == InPhase(f, phase) IN
           /\ h \in Shape /\ SameCall(f, h)
           /\ h.phase = phase /\ h.i = f.i /\ h.iter = f.iter /\ h.stmt = f.stmt /\ h.acts = f.acts
           /\ h.prev = f.prev /\ h.auto = f.auto /\ h.ret = f.ret /\ h.next = f.next /\ h.fail = f.fail
<1> DEFINE h == InPhase(f, phase)
<1>1. phase \in Value
  BY DEF Value, Ops, Marks
<1>2. h \in Shape
  BY <1>1 DEF Shape, InPhase
<1>3. /\ h.phase = phase /\ h.i = f.i /\ h.iter = f.iter /\ h.stmt = f.stmt /\ h.acts = f.acts
      /\ h.prev = f.prev /\ h.auto = f.auto /\ h.ret = f.ret /\ h.next = f.next /\ h.fail = f.fail
      /\ h.via = f.via /\ h.g = f.g /\ h.start = f.start /\ h.base = f.base
  BY DEF Shape, Fields, InPhase
<1> QED BY <1>2, <1>3 DEF SameCall

\* The next statement.
AtStmt(f, n) == [f EXCEPT !.i = n]
LEMMA NextFacts ==
    ASSUME NEW f \in Shape, NEW n \in Nat
    PROVE  LET h == AtStmt(f, n) IN
           /\ h \in Shape /\ SameCall(f, h)
           /\ h.phase = f.phase /\ h.i = n /\ h.iter = f.iter /\ h.stmt = f.stmt /\ h.acts = f.acts
           /\ h.prev = f.prev /\ h.auto = f.auto /\ h.ret = f.ret /\ h.next = f.next /\ h.fail = f.fail
<1> DEFINE h == AtStmt(f, n)
<1>1. n \in Value
  BY DEF Value, Ops, Marks
<1>2. h \in Shape
  BY <1>1 DEF Shape, AtStmt
<1>3. /\ h.phase = f.phase /\ h.i = n /\ h.iter = f.iter /\ h.stmt = f.stmt /\ h.acts = f.acts
      /\ h.prev = f.prev /\ h.auto = f.auto /\ h.ret = f.ret /\ h.next = f.next /\ h.fail = f.fail
      /\ h.via = f.via /\ h.g = f.g /\ h.start = f.start /\ h.base = f.base
  BY DEF Shape, Fields, AtStmt
<1> QED BY <1>2, <1>3 DEF SameCall

\* The first statement of a new iteration.
Restarted(f, p) == [f EXCEPT !.phase = "scan", !.i = 1, !.iter = p]
LEMMA AgainFacts ==
    ASSUME NEW f \in Shape, NEW p \in Nat
    PROVE  LET h == Restarted(f, p) IN
           /\ h \in Shape /\ SameCall(f, h)
           /\ h.phase = "scan" /\ h.i = 1 /\ h.iter = p /\ h.stmt = f.stmt /\ h.acts = f.acts
           /\ h.prev = f.prev /\ h.auto = f.auto /\ h.ret = f.ret /\ h.next = f.next /\ h.fail = f.fail
<1> DEFINE h == Restarted(f, p)
<1>1. "scan" \in Value /\ 1 \in Value /\ p \in Value
  BY DEF Value, Ops, Marks
<1>2. h \in Shape
  BY <1>1 DEF Shape, Restarted
<1>3. /\ h.phase = "scan" /\ h.i = 1 /\ h.iter = p /\ h.stmt = f.stmt /\ h.acts = f.acts
      /\ h.prev = f.prev /\ h.auto = f.auto /\ h.ret = f.ret /\ h.next = f.next /\ h.fail = f.fail
      /\ h.via = f.via /\ h.g = f.g /\ h.start = f.start /\ h.base = f.base
  BY DEF Shape, Fields, Restarted
<1> QED BY <1>2, <1>3 DEF SameCall

\* A statement is a call.
Waiting(f, p) == [f EXCEPT !.stmt = p]
LEMMA CallFacts ==
    ASSUME NEW f \in Shape, NEW p \in Nat
    PROVE  LET h == Waiting(f, p) IN
           /\ h \in Shape /\ SameCall(f, h)
           /\ h.phase = f.phase /\ h.i = f.i /\ h.iter = f.iter /\ h.stmt = p /\ h.acts = f.acts
           /\ h.prev = f.prev /\ h.auto = f.auto /\ h.ret = f.ret /\ h.next = f.next /\ h.fail = f.fail
<1> DEFINE h == Waiting(f, p)
<1>1. p \in Value
  BY DEF Value, Ops, Marks
<1>2. h \in Shape
  BY <1>1 DEF Shape, Waiting
<1>3. /\ h.phase = f.phase /\ h.i = f.i /\ h.iter = f.iter /\ h.stmt = p /\ h.acts = f.acts
      /\ h.prev = f.prev /\ h.auto = f.auto /\ h.ret = f.ret /\ h.next = f.next /\ h.fail = f.fail
      /\ h.via = f.via /\ h.g = f.g /\ h.start = f.start /\ h.base = f.base
  BY DEF Shape, Fields, Waiting
<1> QED BY <1>2, <1>3 DEF SameCall

\* An action of a block has run.
Stepped(f, acts, op) == [f EXCEPT !.acts = acts, !.prev = op]
LEMMA RestFacts ==
    ASSUME NEW f \in Shape, NEW acts \in Seq(Action), NEW op \in Ops
    PROVE  LET h == Stepped(f, acts, op) IN
           /\ h \in Shape /\ SameCall(f, h)
           /\ h.phase = f.phase /\ h.i = f.i /\ h.iter = f.iter /\ h.stmt = f.stmt /\ h.acts = acts
           /\ h.prev = op /\ h.auto = f.auto /\ h.ret = f.ret /\ h.next = f.next /\ h.fail = f.fail
<1> DEFINE h == Stepped(f, acts, op)
<1>1. acts \in Value /\ op \in Value
  BY DEF Value, Ops, Marks
<1>2. h \in Shape
  BY <1>1 DEF Shape, Stepped
<1>3. /\ h.phase = f.phase /\ h.i = f.i /\ h.iter = f.iter /\ h.stmt = f.stmt /\ h.acts = acts
      /\ h.prev = op /\ h.auto = f.auto /\ h.ret = f.ret /\ h.next = f.next /\ h.fail = f.fail
      /\ h.via = f.via /\ h.g = f.g /\ h.start = f.start /\ h.base = f.base
  BY DEF Shape, Fields, Stepped
<1> QED BY <1>2, <1>3 DEF SameCall

\* A block owes more or fewer leaves.
Owing(f, n) == [f EXCEPT !.auto = n]
LEMMA AutoFacts ==
    ASSUME NEW f \in Shape, NEW n \in Nat
    PROVE  LET h == Owing(f, n) IN
           /\ h \in Shape /\ SameCall(f, h)
           /\ h.phase = f.phase /\ h.i = f.i /\ h.iter = f.iter /\ h.stmt = f.stmt /\ h.acts = f.acts
           /\ h.prev = f.prev /\ h.auto = n /\ h.ret = f.ret /\ h.next = f.next /\ h.fail = f.fail
<1> DEFINE h == Owing(f, n)
<1>1. n \in Value
  BY DEF Value, Ops, Marks
<1>2. h \in Shape
  BY <1>1 DEF Shape, Owing
<1>3. /\ h.phase = f.phase /\ h.i = f.i /\ h.iter = f.iter /\ h.stmt = f.stmt /\ h.acts = f.acts
      /\ h.prev = f.prev /\ h.auto = n /\ h.ret = f.ret /\ h.next = f.next /\ h.fail = f.fail
      /\ h.via = f.via /\ h.g = f.g /\ h.start = f.start /\ h.base = f.base
  BY DEF Shape, Fields, Owing
<1> QED BY <1>2, <1>3 DEF SameCall

\* do.skip, do.next and do.return.
Controlled(f, next, n) == [f EXCEPT !.acts = <<>>, !.next = next, !.ret = n]
LEMMA ControlFacts ==
    ASSUME NEW f \in Shape, NEW next \in BOOLEAN, NEW n \in Nat
    PROVE  LET h == Controlled(f, next, n) IN
           /\ h \in Shape /\ SameCall(f, h)
           /\ h.phase = f.phase /\ h.i = f.i /\ h.iter = f.iter /\ h.stmt = f.stmt /\ h.acts = <<>>
           /\ h.prev = f.prev /\ h.auto = f.auto /\ h.ret = n /\ h.next = next /\ h.fail = f.fail
<1> DEFINE h == Controlled(f, next, n)
<1>1. <<>> \in Value /\ next \in Value /\ n \in Value
  BY DEF Value, Ops, Marks
<1>2. h \in Shape
  BY <1>1 DEF Shape, Controlled
<1>3. /\ h.phase = f.phase /\ h.i = f.i /\ h.iter = f.iter /\ h.stmt = f.stmt /\ h.acts = <<>>
      /\ h.prev = f.prev /\ h.auto = f.auto /\ h.ret = n /\ h.next = next /\ h.fail = f.fail
      /\ h.via = f.via /\ h.g = f.g /\ h.start = f.start /\ h.base = f.base
  BY DEF Shape, Fields, Controlled
<1> QED BY <1>2, <1>3 DEF SameCall

\* do.fail.
Failing(f, fail) == [f EXCEPT !.acts = <<>>, !.fail = fail, !.ret = 1]
LEMMA FailFacts ==
    ASSUME NEW f \in Shape, NEW fail \in BOOLEAN
    PROVE  LET h == Failing(f, fail) IN
           /\ h \in Shape /\ SameCall(f, h)
           /\ h.phase = f.phase /\ h.i = f.i /\ h.iter = f.iter /\ h.stmt = f.stmt /\ h.acts = <<>>
           /\ h.prev = f.prev /\ h.auto = f.auto /\ h.ret = 1 /\ h.next = f.next /\ h.fail = fail
<1> DEFINE h == Failing(f, fail)
<1>1. <<>> \in Value /\ fail \in Value /\ 1 \in Value
  BY DEF Value, Ops, Marks
<1>2. h \in Shape
  BY <1>1 DEF Shape, Failing
<1>3. /\ h.phase = f.phase /\ h.i = f.i /\ h.iter = f.iter /\ h.stmt = f.stmt /\ h.acts = <<>>
      /\ h.prev = f.prev /\ h.auto = f.auto /\ h.ret = 1 /\ h.next = f.next /\ h.fail = fail
      /\ h.via = f.via /\ h.g = f.g /\ h.start = f.start /\ h.base = f.base
  BY DEF Shape, Fields, Failing
<1> QED BY <1>2, <1>3 DEF SameCall

\* A block ends.
Fresh(f, no) == [f EXCEPT !.next = no, !.fail = no]
LEMMA FreshFacts ==
    ASSUME NEW f \in Shape, NEW no \in BOOLEAN
    PROVE  LET h == Fresh(f, no) IN
           /\ h \in Shape /\ SameCall(f, h)
           /\ h.phase = f.phase /\ h.i = f.i /\ h.iter = f.iter /\ h.stmt = f.stmt /\ h.acts = f.acts
           /\ h.prev = f.prev /\ h.auto = f.auto /\ h.ret = f.ret /\ h.next = no /\ h.fail = no
<1> DEFINE h == Fresh(f, no)
<1>1. no \in Value
  BY DEF Value, Ops, Marks
<1>2. h \in Shape
  BY <1>1 DEF Shape, Fresh
<1>3. /\ h.phase = f.phase /\ h.i = f.i /\ h.iter = f.iter /\ h.stmt = f.stmt /\ h.acts = f.acts
      /\ h.prev = f.prev /\ h.auto = f.auto /\ h.ret = f.ret /\ h.next = no /\ h.fail = no
      /\ h.via = f.via /\ h.g = f.g /\ h.start = f.start /\ h.base = f.base
  BY DEF Shape, Fields, Fresh
<1> QED BY <1>2, <1>3 DEF SameCall

\* A call in a block has returned.
Resumed(f, acts, op, n) == [f EXCEPT !.acts = acts, !.prev = op, !.auto = n]
LEMMA BackFacts ==
    ASSUME NEW f \in Shape, NEW acts \in Seq(Action), NEW op \in Ops, NEW n \in Nat
    PROVE  LET h == Resumed(f, acts, op, n) IN
           /\ h \in Shape /\ SameCall(f, h)
           /\ h.phase = f.phase /\ h.i = f.i /\ h.iter = f.iter /\ h.stmt = f.stmt /\ h.acts = acts
           /\ h.prev = op /\ h.auto = n /\ h.ret = f.ret /\ h.next = f.next /\ h.fail = f.fail
<1> DEFINE h == Resumed(f, acts, op, n)
<1>1. acts \in Value /\ op \in Value /\ n \in Value
  BY DEF Value, Ops, Marks
<1>2. h \in Shape
  BY <1>1 DEF Shape, Resumed
<1>3. /\ h.phase = f.phase /\ h.i = f.i /\ h.iter = f.iter /\ h.stmt = f.stmt /\ h.acts = acts
      /\ h.prev = op /\ h.auto = n /\ h.ret = f.ret /\ h.next = f.next /\ h.fail = f.fail
      /\ h.via = f.via /\ h.g = f.g /\ h.start = f.start /\ h.base = f.base
  BY DEF Shape, Fields, Resumed
<1> QED BY <1>2, <1>3 DEF SameCall

\* A statement ends its grammar.
Left(f, n) == [f EXCEPT !.phase = "back", !.ret = n]
LEMMA LeaveFacts ==
    ASSUME NEW f \in Shape, NEW n \in Nat
    PROVE  LET h == Left(f, n) IN
           /\ h \in Shape /\ SameCall(f, h)
           /\ h.phase = "back" /\ h.i = f.i /\ h.iter = f.iter /\ h.stmt = f.stmt /\ h.acts = f.acts
           /\ h.prev = f.prev /\ h.auto = f.auto /\ h.ret = n /\ h.next = f.next /\ h.fail = f.fail
<1> DEFINE h == Left(f, n)
<1>1. "back" \in Value /\ n \in Value
  BY DEF Value, Ops, Marks
<1>2. h \in Shape
  BY <1>1 DEF Shape, Left
<1>3. /\ h.phase = "back" /\ h.i = f.i /\ h.iter = f.iter /\ h.stmt = f.stmt /\ h.acts = f.acts
      /\ h.prev = f.prev /\ h.auto = f.auto /\ h.ret = n /\ h.next = f.next /\ h.fail = f.fail
      /\ h.via = f.via /\ h.g = f.g /\ h.start = f.start /\ h.base = f.base
  BY DEF Shape, Fields, Left
<1> QED BY <1>2, <1>3 DEF SameCall

\* A step that changes the top frame to f.
LEMMA SetTopIInv ==
    ASSUME IInv, NEW f \in Shape, FrameOK(doc, f, pos'), SameCall(Top, f), SetTop(f),
           pos' \in pos .. Len(input), UNCHANGED <<doc, input>>,
           depth' \in Nat, depth' <= f.base + f.auto,
           PoliteDoc(doc) => depth' = f.base + f.auto,
           done' => Len(frames) = 1 /\ f.phase # "acts", failed' \in 0 .. MaxFrames
    PROVE  IInv' /\ Top' = f /\ Len(frames') = Len(frames)
<1>1. frames' = [frames EXCEPT ![Len(frames)] = f]
  BY DEF SetTop
<1>2. pos \in Nat /\ pos' \in Nat /\ pos <= pos' /\ SameCall(frames[Len(frames)], f)
  BY TopFacts DEF Top
<1>3. Stack(doc, frames, pos)
  BY DEF IInv
<1>4. Stack(doc, frames', pos') /\ Len(frames') = Len(frames) /\ frames'[Len(frames)] = f
  <2> DEFINE new == [frames EXCEPT ![Len(frames)] = f]
  <2>1. pos \in Nat /\ pos' \in Nat /\ pos <= pos' /\ SameCall(frames[Len(frames)], f)
    BY <1>2
  <2>2. Stack(doc, new, pos') /\ Len(new) = Len(frames) /\ new[Len(frames)] = f
    BY <2>1, <1>3, SetTopStack
  <2> QED BY <1>1, <2>2
<1>5. Top' = f
  BY <1>4 DEF Top
<1>6. PoliteDoc(doc)' <=> PoliteDoc(doc)
  BY DEF PoliteDoc, PoliteAct
<1>7. pos' \in 0 .. Len(input')
  BY TopFacts
<1>8. doc' = doc /\ input' = input /\ doc \in [Grammar -> Seq(Statement)] /\ input \in Seq(Token)
  BY DEF IInv
<1>9. Stack(doc, frames, pos)'
  BY <1>4, <1>8
<1>10. Allowance(Top)' = f.base + f.auto
  BY <1>5 DEF Allowance
<1> QED BY <1>4, <1>5, <1>6, <1>7, <1>8, <1>9, <1>10 DEF IInv

\* A call: the caller is f, the callee c.
LEMMA PushIInv ==
    ASSUME IInv, Len(frames) < MaxFrames, ~ done,
           NEW f \in Shape, FrameOK(doc, f, pos), SameCall(Top, f),
           NEW c \in Shape, FrameOK(doc, c, pos), Waits(doc, f, c),
           c.base = depth, c.auto = 0,
           frames' = Append([frames EXCEPT ![Len(frames)] = f], c),
           UNCHANGED <<doc, input, pos, depth, done, failed>>
    PROVE  IInv' /\ Top' = c /\ Len(frames') = Len(frames) + 1
<1>1. pos \in Nat /\ SameCall(frames[Len(frames)], f) /\ depth \in Nat
  BY TopFacts DEF Top
<1>2. Stack(doc, frames, pos)
  BY DEF IInv
<1>3. Stack(doc, frames', pos) /\ Len(frames') = Len(frames) + 1 /\ frames'[Len(frames')] = c
  BY <1>1, <1>2, PushStack
<1>4. Top' = c
  BY <1>3 DEF Top
<1>5. doc' = doc /\ input' = input /\ doc \in [Grammar -> Seq(Statement)] /\ input \in Seq(Token)
  BY DEF IInv
<1>6. Stack(doc, frames, pos)'
  BY <1>3, <1>5
<1>7. Allowance(Top)' = depth
  BY <1>1, <1>4 DEF Allowance
<1> QED BY <1>1, <1>3, <1>4, <1>5, <1>6, <1>7 DEF IInv

\* A return to the caller, which becomes f.
LEMMA PopIInv ==
    ASSUME IInv, Len(frames) > 1, NEW f \in Shape, FrameOK(doc, f, pos), SameCall(Caller, f),
           PopTo(f), UNCHANGED <<doc, input, pos, failed>>,
           depth' \in Nat, depth' <= f.base + f.auto,
           PoliteDoc(doc) => depth' = f.base + f.auto,
           done' => Len(frames) = 2 /\ f.phase # "acts"
    PROVE  IInv' /\ Top' = f /\ Len(frames') = Len(frames) - 1
<1>1. pos \in Nat /\ SameCall(frames[Len(frames) - 1], f)
  BY TopFacts DEF Caller
<1>2. Stack(doc, frames, pos) /\ frames' = Append(SubSeq(frames, 1, Len(frames) - 2), f)
  BY DEF IInv, PopTo
<1>3. Stack(doc, frames', pos) /\ Len(frames') = Len(frames) - 1 /\ frames'[Len(frames')] = f
  BY <1>1, <1>2, PopStack
<1>4. Top' = f
  BY <1>3 DEF Top
<1>5. doc' = doc /\ input' = input /\ doc \in [Grammar -> Seq(Statement)] /\ input \in Seq(Token)
  BY DEF IInv
<1>6. Stack(doc, frames, pos)'
  BY <1>3, <1>5
<1>7. Allowance(Top)' = f.base + f.auto
  BY <1>4 DEF Allowance
<1>8. PoliteDoc(doc)' <=> PoliteDoc(doc)
  BY <1>5
<1> QED BY <1>3, <1>4, <1>5, <1>6, <1>7, <1>8, TopFacts DEF IInv

-----------------------------------------------------------------------------
(* The statement loop keeps the invariant                                  *)

LEMMA ScanIInv == IInv /\ Scan => IInv'
<1> SUFFICES ASSUME IInv, Scan PROVE IInv'
  OBVIOUS
<1> USE DEF In
<1>t. FrameOK(doc, Top, pos)
  BY TopFacts
<1>h. Top \in Shape
  BY TopFacts
<1>n. pos \in Nat
  BY TopFacts
<1>p. /\ pos \in Nat /\ depth \in Nat /\ Len(input) \in Nat /\ pos <= Len(input)
      /\ failed \in 0 .. MaxFrames
  BY TopFacts DEF IInv
<1>d. /\ depth <= Top.base + Top.auto
      /\ PoliteDoc(doc) => depth = Top.base + Top.auto
  BY DEF IInv, Allowance
<1>s. Top.phase = "scan" => Top.i <= Len(Stmts) \/ Top.i = Len(Stmts) + 1
  BY <1>t DEF FrameOK, Stmts
<1>1. CASE Hit
  <2> DEFINE f == Entered(Top, Stmt.acts, pos)
             n == IF Stmt.kind = "match" THEN MatchLen(Stmt.pat) ELSE 0
  <2>1. /\ Top.phase = "scan" /\ ~ done /\ Top.i <= Len(Stmts) /\ Stmt.kind \in {"match", "when"}
        /\ MatchLen(Stmt.pat) >= 0
    BY <1>1 DEF Hit
  <2>2. SetTop(f) /\ pos' = pos + n /\ UNCHANGED <<doc, input, depth, done, failed>>
    BY <1>1 DEF Hit, Entered
  <2>3. n \in Nat /\ pos + n <= Len(input)
    BY <2>1, <1>p DEF MatchLen
  <2> HIDE DEF n
  <2>4. /\ f \in Shape /\ SameCall(Top, f) /\ f.phase = "acts" /\ f.acts = Stmt.acts
        /\ f.prev = "none" /\ f.auto = 0 /\ f.stmt = pos /\ f.i = Top.i /\ f.iter = Top.iter
        /\ f.ret = Top.ret /\ f.next = Top.next /\ f.fail = Top.fail
    <3>1. Stmt.acts \in Seq(Action)
      BY <2>1, StmtFacts
    <3> QED BY <3>1, <1>h, <1>n, EnterFacts
  <2> HIDE DEF f
  <2>5. FrameOK(doc, f, pos')
    <3>1. BlockOK(doc, f, pos')
      BY <2>1, <2>2, <2>3, <2>4, <1>t, <1>p, StmtFacts DEF BlockOK, SameCall, FrameOK
    <3> QED BY <3>1, <2>1, <2>2, <2>3, <2>4, <1>t, <1>p, StmtFacts DEF SameCall, FrameOK
  <2>6. Top.auto = 0 /\ Top.base = f.base
    BY <2>1, <2>4, <1>t DEF FrameOK, SameCall
  <2> QED BY <2>1, <2>2, <2>3, <2>4, <2>5, <2>6, <1>d, <1>p, SetTopIInv
<1>2. CASE SkipHit
  <2> DEFINE f == InPhase(Top, "iter")
  <2>1. /\ Top.phase = "scan" /\ ~ done /\ Top.i <= Len(Stmts) /\ MatchLen(Stmt.pat) > 0
        /\ SetTop(f) /\ pos' = pos + MatchLen(Stmt.pat)
        /\ UNCHANGED <<doc, input, depth, done, failed>>
    BY <1>2 DEF SkipHit, InPhase, tree
  <2>2. MatchLen(Stmt.pat) \in Nat /\ pos + MatchLen(Stmt.pat) <= Len(input)
    BY <2>1, <1>p DEF MatchLen
  <2>3. /\ f \in Shape /\ SameCall(Top, f) /\ f.phase = "iter" /\ f.i = Top.i
        /\ f.iter = Top.iter /\ f.stmt = Top.stmt /\ f.acts = Top.acts /\ f.auto = Top.auto
        /\ f.ret = Top.ret /\ f.next = Top.next /\ f.fail = Top.fail
    BY <1>h, PhaseFacts DEF Marks
  <2> HIDE DEF f
  <2>4. FrameOK(doc, f, pos')
    BY <2>1, <2>2, <2>3, <1>t, <1>p DEF SameCall, FrameOK
  <2>5. Top.auto = 0 /\ Top.base = f.base
    BY <2>1, <2>3, <1>t DEF FrameOK, SameCall
  <2> QED BY <2>1, <2>2, <2>3, <2>4, <2>5, <1>d, <1>p, SetTopIInv
<1>3. CASE NoHit
  <2> DEFINE f == AtStmt(Top, Top.i + 1)
  <2>1. /\ Top.phase = "scan" /\ ~ done /\ Top.i <= Len(Stmts)
        /\ SetTop(f) /\ UNCHANGED <<doc, input, pos, depth, done, failed>>
    BY <1>3 DEF NoHit, AtStmt, tree
  <2>2. Top.i + 1 \in Nat /\ Top.i + 1 \in 1 .. Len(doc[Top.g]) + 1
    BY <2>1, StmtFacts
  <2>3. /\ f \in Shape /\ SameCall(Top, f) /\ f.phase = Top.phase /\ f.i = Top.i + 1
        /\ f.iter = Top.iter /\ f.stmt = Top.stmt /\ f.acts = Top.acts /\ f.auto = Top.auto
        /\ f.ret = Top.ret /\ f.next = Top.next /\ f.fail = Top.fail
    BY <1>h, <2>2, NextFacts
  <2> HIDE DEF f
  <2>4. FrameOK(doc, f, pos')
    BY <2>1, <2>2, <2>3, <1>t, <1>p DEF SameCall, FrameOK
  <2>5. Top.base = f.base
    BY <2>3 DEF SameCall
  <2> QED BY <2>1, <2>3, <2>4, <2>5, <1>d, <1>p, SetTopIInv
<1>4. CASE StmtCall
  <2> DEFINE f == Waiting(Top, pos)
             c == NewFrame(Head(Stmt.acts).g, "stmt")
  <2>1. /\ Top.phase = "scan" /\ ~ done /\ Top.i <= Len(Stmts) /\ Stmt.kind = "action"
        /\ Head(Stmt.acts).op = "call" /\ Len(frames) < MaxFrames
        /\ UNCHANGED <<doc, input, pos, depth, done, failed>>
    BY <1>4 DEF StmtCall, tree
  <2>2. frames' = Append([frames EXCEPT ![Len(frames)] = f], c)
    BY <1>4 DEF StmtCall, Waiting, Top
  <2>3. Head(Stmt.acts).g \in Grammar
    BY <2>1, StmtFacts DEF Action
  <2>4. /\ f \in Shape /\ SameCall(Top, f) /\ f.phase = Top.phase /\ f.i = Top.i
        /\ f.iter = Top.iter /\ f.stmt = pos /\ f.acts = Top.acts /\ f.auto = Top.auto
        /\ f.ret = Top.ret /\ f.next = Top.next /\ f.fail = Top.fail
    BY <1>h, <1>n, CallFacts
  <2>5. /\ c \in Shape /\ c.g = Head(Stmt.acts).g /\ c.via = "stmt" /\ c.phase = "scan" /\ c.i = 1
        /\ c.start = pos /\ c.iter = pos /\ c.stmt = pos /\ c.acts = <<>> /\ c.prev = "none"
        /\ c.auto = 0 /\ c.ret = 0 /\ c.next = FALSE /\ c.fail = FALSE /\ c.base = depth
    BY <2>3, <1>p, NewFrameFacts
  <2> HIDE DEF f, c
  <2>6. FrameOK(doc, f, pos)
    BY <2>1, <2>4, <1>t, <1>p DEF SameCall, FrameOK
  <2>7. FrameOK(doc, c, pos)
    <3>1. <<>> \in Seq(Action)
      OBVIOUS
    <3>2. 1 \in 1 .. Len(doc[c.g]) + 1
      BY <2>3, <2>5 DEF IInv
    <3> QED BY <2>3, <2>5, <3>1, <3>2, <1>p DEF FrameOK
  <2>8. Waits(doc, f, c)
    <3>1. f.g = Top.g /\ doc[f.g][f.i] = Stmt /\ f.i <= Len(doc[f.g])
      BY <2>1, <2>4, StmtFacts DEF SameCall
    <3>2. f.iter <= f.stmt /\ f.stmt <= c.start
      BY <2>4, <2>5, <1>t, <1>p DEF FrameOK
    <3>3. c.base <= f.base + f.auto /\ (PoliteDoc(doc) => c.base = f.base + f.auto)
      BY <2>4, <2>5, <1>d DEF SameCall
    <3> QED BY <2>1, <2>4, <2>5, <3>1, <3>2, <3>3 DEF Waits
  <2> QED BY <2>1, <2>2, <2>4, <2>5, <2>6, <2>7, <2>8, PushIInv
<1>5. CASE StmtAction
  <2> DEFINE f == Entered(Top, Stmt.acts, pos)
  <2>1. /\ Top.phase = "scan" /\ ~ done /\ Top.i <= Len(Stmts) /\ Stmt.kind = "action"
        /\ Head(Stmt.acts).op # "call"
        /\ SetTop(f) /\ UNCHANGED <<doc, input, pos, depth, done, failed>>
    BY <1>5 DEF StmtAction, Entered, tree
  <2>2. Stmt.acts \in Seq(Action)
    BY <2>1, StmtFacts
  <2>3. /\ f \in Shape /\ SameCall(Top, f) /\ f.phase = "acts" /\ f.acts = Stmt.acts
        /\ f.prev = "none" /\ f.auto = 0 /\ f.stmt = pos /\ f.i = Top.i /\ f.iter = Top.iter
        /\ f.ret = Top.ret /\ f.next = Top.next /\ f.fail = Top.fail
    BY <2>2, <1>h, <1>n, EnterFacts
  <2> HIDE DEF f
  <2>4. FrameOK(doc, f, pos')
    <3>1. f.g = Top.g /\ doc[f.g][f.i] = Stmt /\ f.i <= Len(doc[f.g])
      BY <2>1, <2>3, StmtFacts DEF SameCall
    <3>2. f.iter <= f.stmt /\ f.stmt <= pos'
      BY <2>1, <2>3, <1>t, <1>p DEF FrameOK
    <3>3. PoliteDoc(doc) => \A j \in DOMAIN f.acts : PoliteAct(f.acts[j])
      BY <2>1, <2>3, StmtFacts
    <3>4. BlockOK(doc, f, pos')
      BY <2>1, <2>3, <3>1, <3>2, <3>3 DEF BlockOK
    <3> QED BY <3>4, <2>1, <2>3, <1>t, <1>p, StmtFacts DEF SameCall, FrameOK
  <2>5. Top.auto = 0 /\ Top.base = f.base
    BY <2>1, <2>3, <1>t DEF FrameOK, SameCall
  <2> QED BY <2>1, <2>3, <2>4, <2>5, <1>d, <1>p, SetTopIInv
<1>6. CASE EndFor \/ Return
  <2> DEFINE phase == IF Top.phase = "scan" THEN "iter" ELSE "back"
             f == InPhase(Top, phase)
  <2>1. /\ Top.phase \in {"scan", "iter"} /\ ~ done
        /\ SetTop(f) /\ UNCHANGED <<doc, input, pos, depth, done, failed>>
    BY <1>6 DEF EndFor, Return, InPhase, tree
  <2>2. phase \in Marks /\ phase \in {"iter", "back"}
    BY DEF Marks
  <2> HIDE DEF phase
  <2>3. /\ f \in Shape /\ SameCall(Top, f) /\ f.phase = phase /\ f.i = Top.i
        /\ f.iter = Top.iter /\ f.stmt = Top.stmt /\ f.acts = Top.acts /\ f.auto = Top.auto
        /\ f.ret = Top.ret /\ f.next = Top.next /\ f.fail = Top.fail
    BY <1>h, <2>2, PhaseFacts
  <2> HIDE DEF f
  <2>4. FrameOK(doc, f, pos')
    BY <2>1, <2>2, <2>3, <1>t, <1>p DEF SameCall, FrameOK
  <2>5. Top.auto = 0 /\ Top.base = f.base
    BY <2>1, <2>3, <1>t DEF FrameOK, SameCall
  <2> QED BY <2>1, <2>3, <2>4, <2>5, <1>d, <1>p, SetTopIInv
<1>7. CASE Again
  <2> DEFINE f == Restarted(Top, pos)
  <2>1. /\ Top.phase = "iter" /\ ~ done
        /\ SetTop(f) /\ UNCHANGED <<doc, input, pos, depth, done, failed>>
    BY <1>7 DEF Again, Restarted, tree
  <2>2. /\ f \in Shape /\ SameCall(Top, f) /\ f.phase = "scan" /\ f.i = 1
        /\ f.iter = pos /\ f.stmt = Top.stmt /\ f.acts = Top.acts /\ f.auto = Top.auto
        /\ f.ret = Top.ret /\ f.next = Top.next /\ f.fail = Top.fail
    BY <1>h, <1>n, AgainFacts
  <2> HIDE DEF f
  <2>3. FrameOK(doc, f, pos')
    <3>1. 1 \in 1 .. Len(doc[Top.g]) + 1
      BY <1>t DEF FrameOK, IInv
    <3> QED BY <3>1, <2>1, <2>2, <1>t, <1>p DEF SameCall, FrameOK
  <2>4. Top.auto = 0 /\ Top.base = f.base
    BY <2>1, <2>2, <1>t DEF FrameOK, SameCall
  <2> QED BY <2>1, <2>2, <2>3, <2>4, <1>d, <1>p, SetTopIInv
<1>8. CASE Finish
  <2>1. /\ Top.phase = "iter" /\ Len(frames) = 1
        /\ UNCHANGED <<doc, input, pos, frames, depth, failed>>
    BY <1>8 DEF Finish, IsTop, tree
  <2> QED BY <2>1 DEF IInv, Top, Allowance
<1> QED BY <1>1, <1>2, <1>3, <1>4, <1>5, <1>6, <1>7, <1>8 DEF Scan

-----------------------------------------------------------------------------
(* The actions of a block keep the invariant                               *)

LEMMA BlockFacts ==
    ASSUME IInv, Top.phase = "acts"
    PROVE  /\ BlockOK(doc, Top, pos) /\ Top \in Shape /\ FrameOK(doc, Top, pos)
           /\ pos \in Nat /\ depth \in Nat /\ Len(input) \in Nat /\ pos <= Len(input)
           /\ Top.i \in Nat /\ Top.auto \in Nat /\ Top.base \in Nat /\ Top.acts \in Seq(Action)
           /\ Top.ret \in Nat /\ Top.stmt \in Nat
           /\ depth <= Top.base + Top.auto
           /\ PoliteDoc(doc) => depth = Top.base + Top.auto
           /\ failed \in 0 .. MaxFrames /\ Len(frames) \in 1 .. MaxFrames
           /\ Top.acts # <<>> => Top.ret = 0 /\ Top.next = FALSE /\ Top.fail = FALSE
<1>1. FrameOK(doc, Top, pos)
  BY TopFacts
<1>2. Top.i \in 1 .. Len(doc[Top.g]) + 1 /\ Len(doc[Top.g]) \in Nat
  BY <1>1 DEF FrameOK, IInv
<1>3. BlockOK(doc, Top, pos)
  BY <1>1 DEF FrameOK
<1>4. /\ Top.auto \in Nat /\ Top.base \in Nat /\ Top.acts \in Seq(Action)
      /\ Top.ret \in Nat /\ Top.stmt \in Nat
      /\ Top.acts # <<>> => Top.ret = 0 /\ Top.next = FALSE /\ Top.fail = FALSE
  BY <1>1 DEF FrameOK
<1>5. /\ depth <= Top.base + Top.auto
      /\ PoliteDoc(doc) => depth = Top.base + Top.auto
      /\ failed \in 0 .. MaxFrames
  BY DEF IInv, Allowance
<1> QED BY <1>1, <1>2, <1>3, <1>4, <1>5, TopFacts

LEMMA ActFacts ==
    ASSUME IInv, Top.phase = "acts", Top.acts # <<>>
    PROVE  /\ Act \in Action /\ Act.op \in Ops /\ Tail(Top.acts) \in Seq(Action)
           /\ PoliteDoc(doc) => PoliteAct(Act)
           /\ PoliteDoc(doc) => \A j \in DOMAIN Tail(Top.acts) : PoliteAct(Tail(Top.acts)[j])
<1>1. Top.acts \in Seq(Action) /\ (PoliteDoc(doc) => \A j \in DOMAIN Top.acts : PoliteAct(Top.acts[j]))
  BY BlockFacts DEF BlockOK
<1>2. Act \in Action /\ Act = Top.acts[1] /\ 1 \in DOMAIN Top.acts
  BY <1>1 DEF Act
<1>3. Tail(Top.acts) \in Seq(Action)
  BY <1>1
<1>4. \A j \in DOMAIN Tail(Top.acts) : j + 1 \in DOMAIN Top.acts /\ Tail(Top.acts)[j] = Top.acts[j + 1]
  BY <1>1
<1>5. Act.op \in Ops
  BY <1>2 DEF Action, Ops
<1> QED BY <1>1, <1>2, <1>3, <1>4, <1>5

\* A step of the block on top, which goes on as f.
LEMMA BlockStep ==
    ASSUME IInv, ~ done, Top.phase = "acts", NEW f \in Shape, SameCall(Top, f), SetTop(f),
           f.phase = "acts", f.i = Top.i, f.iter = Top.iter, f.stmt = Top.stmt,
           f.acts \in Seq(Action), f.auto \in Nat, f.ret \in Nat,
           f.acts # <<>> => f.ret = 0 /\ f.next = FALSE /\ f.fail = FALSE,
           f.acts # <<>> /\ f.prev = "open" => f.auto > 0,
           PoliteDoc(doc) => \A j \in DOMAIN f.acts : PoliteAct(f.acts[j]),
           pos' \in pos .. Len(input), UNCHANGED <<doc, input, done>>,
           depth' \in Nat, depth' <= f.base + f.auto,
           PoliteDoc(doc) => depth' = f.base + f.auto, failed' \in 0 .. MaxFrames
    PROVE  IInv' /\ Top' = f /\ Len(frames') = Len(frames)
<1>1. pos' \in Nat /\ pos <= pos' /\ pos \in Nat
  BY BlockFacts
<1>2. BlockOK(doc, f, pos')
  <2>1. BlockOK(doc, Top, pos) /\ Top.stmt \in Nat
    BY BlockFacts
  <2>2. f.g = Top.g
    BY DEF SameCall
  <2> QED BY <2>1, <2>2, <1>1 DEF BlockOK
<1>3. FrameOK(doc, f, pos')
  <2>1. FrameOK(doc, Top, pos)
    BY BlockFacts
  <2> QED BY <2>1, <1>1, <1>2 DEF FrameOK, SameCall
<1> QED BY <1>3, SetTopIInv

LEMMA StepFacts ==
    ASSUME IInv, Top.phase = "acts", Top.acts # <<>>
    PROVE  /\ Rest \in Shape /\ SameCall(Top, Rest)
           /\ Rest.phase = Top.phase /\ Rest.i = Top.i /\ Rest.iter = Top.iter
           /\ Rest.stmt = Top.stmt /\ Rest.acts = Tail(Top.acts) /\ Rest.prev = Act.op
           /\ Rest.auto = Top.auto /\ Rest.ret = 0 /\ Rest.next = FALSE /\ Rest.fail = FALSE
<1>1. Rest = Stepped(Top, Tail(Top.acts), Act.op)
  BY DEF Rest, Stepped
<1>2. Top \in Shape
  BY BlockFacts
<1>3. Tail(Top.acts) \in Seq(Action)
  BY ActFacts
<1>4. Act.op \in Ops
  BY ActFacts
<1>5. /\ Rest \in Shape /\ SameCall(Top, Rest)
      /\ Rest.phase = Top.phase /\ Rest.i = Top.i /\ Rest.iter = Top.iter
      /\ Rest.stmt = Top.stmt /\ Rest.acts = Tail(Top.acts) /\ Rest.prev = Act.op
      /\ Rest.auto = Top.auto /\ Rest.ret = Top.ret /\ Rest.next = Top.next /\ Rest.fail = Top.fail
  BY <1>1, <1>2, <1>3, <1>4, RestFacts
<1> QED BY <1>5, BlockFacts

LEMMA LeaveFact == \A d \in Nat : Leave(d) \in Nat /\ Leave(d) <= d /\ (d > 0 => Leave(d) = d - 1)
BY DEF Leave

LEMMA Minus1Fact == \A d \in Nat : Minus1(d) \in Nat /\ Minus1(d) <= d /\ (d > 0 => Minus1(d) = d - 1)
BY DEF Minus1

LEMMA BlockIInv == IInv /\ Block => IInv'
<1> SUFFICES ASSUME IInv, Block PROVE IInv'
  OBVIOUS
<1> USE DEF In, Acting
<1>d. Top.phase = "acts" /\ ~ done
  BY DEF Block, ActCall, ActAdd, ActOpen, ActLeave, ActControl, ActFail, ActEnqueue, ActClear,
         AutoLeave, EndBlock
<1>h. Top \in Shape
  BY <1>d, BlockFacts
<1>f. FrameOK(doc, Top, pos)
  BY <1>d, BlockFacts
<1>p. /\ pos \in Nat /\ depth \in Nat /\ Len(input) \in Nat /\ pos <= Len(input)
      /\ Top.i \in Nat /\ Top.auto \in Nat /\ Top.base \in Nat /\ Top.acts \in Seq(Action)
      /\ Top.ret \in Nat
      /\ depth <= Top.base + Top.auto
      /\ PoliteDoc(doc) => depth = Top.base + Top.auto
      /\ failed \in 0 .. MaxFrames /\ Len(frames) \in 1 .. MaxFrames
  BY <1>d, BlockFacts
<1>1. CASE ActCall
  <2> DEFINE c == NewFrame(Act.g, "act")
  <2>1. /\ Top.acts # <<>> /\ Act.op = "call" /\ Len(frames) < MaxFrames
        /\ frames' = Append(frames, c)
        /\ UNCHANGED <<doc, input, pos, depth, done, failed>>
    BY <1>1 DEF ActCall, tree
  <2>2. frames = [frames EXCEPT ![Len(frames)] = Top]
    BY TopFacts DEF Top
  <2>3. Act.g \in Grammar
    BY <1>d, <2>1, ActFacts DEF Action
  <2>4. /\ c \in Shape /\ c.g = Act.g /\ c.via = "act" /\ c.phase = "scan" /\ c.i = 1
        /\ c.start = pos /\ c.iter = pos /\ c.stmt = pos /\ c.acts = <<>> /\ c.prev = "none"
        /\ c.auto = 0 /\ c.ret = 0 /\ c.next = FALSE /\ c.fail = FALSE /\ c.base = depth
    BY <2>3, <1>p, NewFrameFacts
  <2> HIDE DEF c
  <2>5. FrameOK(doc, c, pos)
    <3>1. <<>> \in Seq(Action)
      OBVIOUS
    <3>2. 1 \in 1 .. Len(doc[c.g]) + 1
      BY <2>3, <2>4 DEF IInv
    <3> QED BY <2>3, <2>4, <3>1, <3>2, <1>p DEF FrameOK
  <2>6. Waits(doc, Top, c)
    <3>1. Top.iter <= Top.stmt /\ Top.stmt <= c.start
      BY <1>d, <2>4, BlockFacts DEF BlockOK
    <3>2. Head(Top.acts).op = "call" /\ Head(Top.acts).g = c.g
      BY <2>1, <2>4 DEF Act
    <3> QED BY <1>d, <1>p, <2>1, <2>4, <3>1, <3>2 DEF Waits
  <2>7. SameCall(Top, Top)
    BY DEF SameCall
  <2>8. frames' = Append([frames EXCEPT ![Len(frames)] = Top], c)
    BY <2>1, <2>2
  <2> QED BY <1>d, <1>h, <1>f, <2>1, <2>4, <2>5, <2>6, <2>7, <2>8, PushIInv
<1>2. CASE ActAdd \/ ActEnqueue \/ ActClear
  <2>1. /\ Top.acts # <<>> /\ SetTop(Rest)
        /\ UNCHANGED <<doc, input, pos, done, failed>>
    BY <1>2 DEF ActAdd, ActEnqueue, ActClear
  <2>2. /\ Rest.phase = Top.phase /\ Rest.i = Top.i /\ Rest.iter = Top.iter
        /\ Rest.stmt = Top.stmt /\ Rest.acts = Tail(Top.acts) /\ Rest.prev = Act.op
        /\ Rest.auto = Top.auto /\ Rest.ret = 0 /\ Rest.next = FALSE /\ Rest.fail = FALSE
        /\ Rest \in Shape /\ SameCall(Top, Rest)
    BY <1>d, <2>1, StepFacts
  <2>3. Act.op \in {"add", "enqueue", "clear"}
    BY <1>2 DEF ActAdd, ActEnqueue, ActClear
  <2>4. depth' = depth \/ (depth' = Leave(depth) /\ ~ PoliteDoc(doc))
    BY <1>2, <1>d, <2>1, ActFacts DEF ActAdd, ActEnqueue, ActClear, PoliteAct
  <2>5. depth' \in Nat /\ depth' <= depth /\ (PoliteDoc(doc) => depth' = depth)
    <3>1. depth \in Nat /\ Leave(depth) \in Nat /\ Leave(depth) <= depth
      BY <1>p, LeaveFact
    <3>2. CASE depth' = depth
      BY <3>1, <3>2
    <3>3. CASE depth' = Leave(depth) /\ ~ PoliteDoc(doc)
      BY <3>1, <3>3
    <3> QED BY <2>4, <3>2, <3>3
  <2>6. /\ Tail(Top.acts) \in Seq(Action)
        /\ PoliteDoc(doc) => \A j \in DOMAIN Tail(Top.acts) : PoliteAct(Tail(Top.acts)[j])
    BY <1>d, <2>1, ActFacts
  <2>7. Rest.base = Top.base
    BY <2>2 DEF SameCall
  <2>8. /\ Rest.auto \in Nat /\ Rest.ret \in Nat /\ Rest.acts \in Seq(Action)
        /\ pos' \in pos .. Len(input) /\ failed' \in 0 .. MaxFrames
        /\ depth' <= Rest.base + Rest.auto
        /\ PoliteDoc(doc) => depth' = Rest.base + Rest.auto
        /\ Rest.prev # "open"
    BY <2>1, <2>2, <2>3, <2>5, <2>6, <2>7, <1>p
  <2> QED BY <1>d, <2>1, <2>2, <2>5, <2>6, <2>8, BlockStep
<1>3. CASE ActOpen \/ ActLeave
  <2> DEFINE n == IF ActOpen THEN Top.auto + 1 ELSE Minus1(Top.auto)
             f == Owing(Rest, n)
  <2>1. Top.acts # <<>> /\ UNCHANGED <<doc, input, pos, done, failed>>
    BY <1>3 DEF ActOpen, ActLeave
  <2>2. /\ Rest.phase = Top.phase /\ Rest.i = Top.i /\ Rest.iter = Top.iter
        /\ Rest.stmt = Top.stmt /\ Rest.acts = Tail(Top.acts) /\ Rest.prev = Act.op
        /\ Rest.auto = Top.auto /\ Rest.ret = 0 /\ Rest.next = FALSE /\ Rest.fail = FALSE
    BY <1>d, <2>1, StepFacts
  <2>3. Rest \in Shape
    BY <1>d, <2>1, StepFacts
  <2>4. SameCall(Top, Rest)
    BY <1>d, <2>1, StepFacts
  <2>5. n \in Nat
    <3>1. Minus1(Top.auto) \in Nat /\ Top.auto + 1 \in Nat
      <4>1. Top.auto \in Nat
        BY <1>p
      <4>2. Minus1(Top.auto) \in Nat
        BY <4>1, Minus1Fact
      <4> QED BY <4>1, <4>2
    <3> QED BY <3>1
  <2>6. SetTop(f)
    <3>1. CASE ActOpen
      BY <3>1, <2>2 DEF ActOpen, Owing
    <3>2. CASE ~ ActOpen
      BY <3>2, <1>3, <2>2 DEF ActLeave, Owing
    <3> QED BY <3>1, <3>2
  <2>7. /\ depth' \in Nat /\ depth' <= Top.base + n
        /\ PoliteDoc(doc) => depth' = Top.base + n
    <3>1. depth \in Nat /\ Leave(depth) \in Nat /\ Leave(depth) <= depth /\ (depth > 0 => Leave(depth) = depth - 1)
      BY <1>p, LeaveFact
    <3>2. CASE ActOpen
      <4>1. PoliteDoc(doc) => Act.path # <<>>
        BY <1>d, <2>1, <3>2, ActFacts DEF ActOpen, PoliteAct
      <4>2. n = Top.auto + 1
        BY <3>2
      <4>3. depth' = depth \/ depth' = depth + 1
        BY <3>2 DEF ActOpen
      <4>4. PoliteDoc(doc) => depth' = depth + 1
        BY <3>2, <4>1 DEF ActOpen
      <4> HIDE DEF n
      <4>5. Top.base \in Nat /\ Top.auto \in Nat /\ depth <= Top.base + Top.auto
        BY <1>p
      <4>6. PoliteDoc(doc) => depth = Top.base + Top.auto
        BY <1>p
      <4>7. depth' \in Nat /\ depth' <= Top.base + n
        BY <3>1, <4>2, <4>3, <4>5
      <4> QED BY <3>1, <4>2, <4>4, <4>5, <4>6, <4>7
    <3>3. CASE ~ ActOpen
      <4>1. ~ PoliteDoc(doc) /\ depth' = Leave(depth) /\ n = Minus1(Top.auto)
        BY <1>d, <1>3, <2>1, <3>3, ActFacts DEF ActLeave, PoliteAct
      <4> HIDE DEF n
      <4>2. Top.base \in Nat /\ Top.auto \in Nat /\ depth <= Top.base + Top.auto
        BY <1>p
      <4>3. Minus1(Top.auto) \in Nat /\ (Top.auto > 0 => Minus1(Top.auto) = Top.auto - 1)
        BY <4>2, Minus1Fact
      <4> QED BY <3>1, <4>1, <4>2, <4>3
    <3> QED BY <3>2, <3>3
  <2>8. f.acts # <<>> /\ f.prev = "open" => n > 0
    <3>1. f.prev = Rest.prev
      BY <2>3, <2>5, AutoFacts
    <3>2. CASE ActOpen
      BY <3>2, <1>p
    <3>3. CASE ~ ActOpen
      <4>1. Act.op = "leave"
        BY <1>3, <3>3 DEF ActLeave
      <4> HIDE DEF n, f
      <4> QED BY <3>1, <4>1, <2>2
    <3> QED BY <3>2, <3>3
  <2> HIDE DEF n
  <2>9. /\ f \in Shape /\ SameCall(Rest, f) /\ f.phase = Rest.phase /\ f.i = Rest.i
        /\ f.iter = Rest.iter /\ f.stmt = Rest.stmt /\ f.acts = Rest.acts /\ f.auto = n
        /\ f.ret = Rest.ret /\ f.next = Rest.next /\ f.fail = Rest.fail
    BY <2>3, <2>5, AutoFacts
  <2> HIDE DEF f
  <2>10. SameCall(Top, f)
    BY <2>4, <2>9 DEF SameCall
  <2>11. /\ Tail(Top.acts) \in Seq(Action)
         /\ PoliteDoc(doc) => \A j \in DOMAIN Tail(Top.acts) : PoliteAct(Tail(Top.acts)[j])
    BY <1>d, <2>1, ActFacts
  <2>12. /\ f.phase = "acts" /\ f.i = Top.i /\ f.iter = Top.iter /\ f.stmt = Top.stmt
         /\ f.acts = Tail(Top.acts) /\ f.auto = n /\ f.ret = 0 /\ f.next = FALSE
         /\ f.fail = FALSE /\ f.base = Top.base
    BY <1>d, <2>2, <2>9, <2>10 DEF SameCall
  <2>13. pos' \in pos .. Len(input) /\ failed' \in 0 .. MaxFrames
    BY <2>1, <1>p
  <2>14. /\ f.auto \in Nat /\ f.ret \in Nat /\ f.acts \in Seq(Action)
         /\ depth' <= f.base + f.auto /\ (PoliteDoc(doc) => depth' = f.base + f.auto)
         /\ PoliteDoc(doc) => \A j \in DOMAIN f.acts : PoliteAct(f.acts[j])
         /\ f.acts # <<>> /\ f.prev = "open" => f.auto > 0
    BY <2>5, <2>7, <2>8, <2>11, <2>12
  <2> QED BY <1>d, <2>1, <2>6, <2>7, <2>9, <2>10, <2>12, <2>13, <2>14, BlockStep
<1>4. CASE ActControl
  <2> DEFINE next == Act.op = "next"
             n == IF Act.op # "return" THEN 0 ELSE IF Act.levels < 1 THEN 1 ELSE Act.levels
             f == Controlled(Top, next, n)
  <2>1. /\ Top.acts # <<>> /\ SetTop(f) /\ UNCHANGED <<doc, input, pos, depth, done, failed>>
    BY <1>4 DEF ActControl, Controlled, tree
  <2>2. n \in Nat
    <3>1. Act.op = "return" => Act.levels \in Int
      BY <1>d, <2>1, ActFacts DEF Action
    <3> QED BY <3>1
  <2>3. next \in BOOLEAN
    OBVIOUS
  <2> HIDE DEF n, next
  <2>4. /\ f \in Shape /\ SameCall(Top, f) /\ f.phase = Top.phase /\ f.i = Top.i
        /\ f.iter = Top.iter /\ f.stmt = Top.stmt /\ f.acts = <<>> /\ f.auto = Top.auto
        /\ f.ret = n
    BY <1>h, <2>2, <2>3, ControlFacts
  <2> HIDE DEF f
  <2>5. f.base = Top.base /\ f.acts \in Seq(Action) /\ DOMAIN f.acts = {}
    BY <2>4 DEF SameCall
  <2>6. pos' \in pos .. Len(input) /\ failed' \in 0 .. MaxFrames
    BY <2>1, <1>p
  <2> QED BY <1>d, <1>p, <2>1, <2>2, <2>4, <2>5, <2>6, BlockStep
<1>5. CASE ActFail
  <2> DEFINE f == Failing(Top, TRUE)
  <2>1. /\ Top.acts # <<>> /\ SetTop(f) /\ UNCHANGED <<doc, input, depth, done>>
        /\ pos' = Len(input) /\ failed' = IF failed = 0 THEN Len(frames) ELSE failed
    BY <1>5 DEF ActFail, Failing, tree
  <2>2. /\ f \in Shape /\ SameCall(Top, f) /\ f.phase = Top.phase /\ f.i = Top.i
        /\ f.iter = Top.iter /\ f.stmt = Top.stmt /\ f.acts = <<>> /\ f.auto = Top.auto
        /\ f.ret = 1
    BY <1>h, FailFacts
  <2> HIDE DEF f
  <2>3. f.base = Top.base /\ f.acts \in Seq(Action) /\ DOMAIN f.acts = {}
    BY <2>2 DEF SameCall
  <2>4. pos' \in pos .. Len(input) /\ failed' \in 0 .. MaxFrames /\ f.ret \in Nat
    BY <2>1, <2>2, <1>p
  <2> QED BY <1>d, <1>p, <2>1, <2>2, <2>3, <2>4, BlockStep
<1>6. CASE AutoLeave
  <2> DEFINE f == Owing(Top, Top.auto - 1)
  <2>1. /\ Top.acts = <<>> /\ Top.auto > 0 /\ SetTop(f) /\ depth' = Leave(depth)
        /\ UNCHANGED <<doc, input, pos, done, failed>>
    BY <1>6 DEF AutoLeave, Owing
  <2>2. Top.auto - 1 \in Nat
    BY <2>1, <1>p
  <2>3. /\ f \in Shape /\ SameCall(Top, f) /\ f.phase = Top.phase /\ f.i = Top.i
        /\ f.iter = Top.iter /\ f.stmt = Top.stmt /\ f.acts = Top.acts /\ f.auto = Top.auto - 1
        /\ f.ret = Top.ret
    BY <1>h, <2>2, AutoFacts
  <2> HIDE DEF f
  <2>4. f.base = Top.base /\ f.acts \in Seq(Action) /\ f.acts = <<>> /\ DOMAIN f.acts = {}
    BY <2>1, <2>3 DEF SameCall
  <2>5. depth' \in Nat /\ depth' <= f.base + f.auto
    <3>1. depth \in Nat
      BY <1>p
    <3>2. Leave(depth) \in Nat /\ Leave(depth) <= depth /\ (depth > 0 => Leave(depth) = depth - 1)
      BY <3>1, LeaveFact
    <3>3. Top.auto \in Nat /\ Top.base \in Nat /\ depth <= Top.base + Top.auto
      BY <1>p
    <3> QED BY <3>1, <3>2, <3>3, <2>1, <2>3, <2>4
  <2>6. PoliteDoc(doc) => depth' = f.base + f.auto
    <3>1. depth \in Nat /\ (depth > 0 => Leave(depth) = depth - 1)
      BY <1>p, LeaveFact
    <3> QED BY <3>1, <2>1, <2>3, <2>4, <1>p
  <2>7. pos' \in pos .. Len(input) /\ failed' \in 0 .. MaxFrames
    BY <2>1, <1>p
  <2> QED BY <1>d, <1>p, <2>1, <2>2, <2>3, <2>4, <2>5, <2>6, <2>7, BlockStep
<1>7. CASE EndBlock
  <2> DEFINE g == Fresh(Top, FALSE)
             iter == Stmt.kind # "action" \/ Top.next \/ pos > Top.stmt
             f == IF Top.ret > 0 THEN InPhase(g, "back")
                  ELSE IF iter THEN InPhase(g, "iter")
                  ELSE AtStmt(InPhase(g, "scan"), Top.i + 1)
  <2>1. /\ g \in Shape /\ SameCall(Top, g) /\ g.phase = Top.phase /\ g.i = Top.i
        /\ g.iter = Top.iter /\ g.stmt = Top.stmt /\ g.acts = Top.acts /\ g.auto = Top.auto
        /\ g.ret = Top.ret /\ g.next = FALSE /\ g.fail = FALSE
    BY <1>h, FreshFacts
  <2>2. /\ Top.acts = <<>> /\ Top.auto = 0 /\ done' = (Len(frames) = 1 /\ Top.ret > 0)
        /\ UNCHANGED <<doc, input, pos, depth, failed>>
    BY <1>7 DEF EndBlock, IsTop
  <2>3. SetTop(f)
    <3> DEFINE h == [Top EXCEPT !.next = FALSE, !.fail = FALSE]
    <3>1. SetTop(IF Top.ret > 0 THEN [h EXCEPT !.phase = "back"]
                 ELSE IF iter THEN [h EXCEPT !.phase = "iter"]
                 ELSE [h EXCEPT !.phase = "scan", !.i = @ + 1])
      BY <1>7 DEF EndBlock
    <3>2. h = g
      BY DEF Fresh
    <3> HIDE DEF h, g
    <3>3. [g EXCEPT !.phase = "scan", !.i = @ + 1] = AtStmt(InPhase(g, "scan"), Top.i + 1)
      BY <2>1 DEF AtStmt, InPhase
    <3> HIDE DEF iter
    <3> QED BY <3>1, <3>2, <3>3 DEF InPhase
  <2> HIDE DEF g, iter
  <2>4. Top.i + 1 \in Nat /\ Top.i + 1 \in 1 .. Len(doc[Top.g]) + 1
    <3>1. Top.i \in Nat /\ Top.i <= Len(doc[Top.g]) /\ Len(doc[Top.g]) \in Nat
      BY <1>d, <1>p, <1>f, BlockFacts DEF BlockOK, FrameOK, IInv
    <3> QED BY <3>1
  <2>5. /\ f \in Shape /\ SameCall(g, f) /\ f.iter = g.iter /\ f.stmt = g.stmt /\ f.acts = g.acts
        /\ f.auto = g.auto /\ f.ret = g.ret /\ f.next = g.next /\ f.fail = g.fail
        /\ f.i \in {Top.i, Top.i + 1}
        /\ f.phase = IF Top.ret > 0 THEN "back" ELSE IF iter THEN "iter" ELSE "scan"
    <3> DEFINE b == InPhase(g, "back")
               r == InPhase(g, "iter")
               c == InPhase(g, "scan")
               e == AtStmt(c, Top.i + 1)
    <3>1. /\ b \in Shape /\ SameCall(g, b) /\ b.iter = g.iter /\ b.stmt = g.stmt /\ b.acts = g.acts
          /\ b.auto = g.auto /\ b.ret = g.ret /\ b.next = g.next /\ b.fail = g.fail
          /\ b.i = g.i /\ b.phase = "back"
      BY <2>1, PhaseFacts DEF Marks
    <3>2. /\ r \in Shape /\ SameCall(g, r) /\ r.iter = g.iter /\ r.stmt = g.stmt /\ r.acts = g.acts
          /\ r.auto = g.auto /\ r.ret = g.ret /\ r.next = g.next /\ r.fail = g.fail
          /\ r.i = g.i /\ r.phase = "iter"
      BY <2>1, PhaseFacts DEF Marks
    <3>3. /\ c \in Shape /\ SameCall(g, c) /\ c.iter = g.iter /\ c.stmt = g.stmt /\ c.acts = g.acts
          /\ c.auto = g.auto /\ c.ret = g.ret /\ c.next = g.next /\ c.fail = g.fail
          /\ c.i = g.i /\ c.phase = "scan"
      BY <2>1, PhaseFacts DEF Marks
    <3> HIDE DEF c
    <3>4. /\ e \in Shape /\ SameCall(c, e) /\ e.iter = c.iter /\ e.stmt = c.stmt /\ e.acts = c.acts
          /\ e.auto = c.auto /\ e.ret = c.ret /\ e.next = c.next /\ e.fail = c.fail
          /\ e.i = Top.i + 1 /\ e.phase = c.phase
      BY <3>3, <2>4, NextFacts
    <3>5. SameCall(g, e)
      BY <3>3, <3>4 DEF SameCall
    <3>6. f = IF Top.ret > 0 THEN b ELSE IF iter THEN r ELSE e
      BY DEF c
    <3> HIDE DEF b, r, e, f
    <3>7. CASE Top.ret > 0
      BY <3>7, <3>6, <3>1, <2>1
    <3>8. CASE ~ (Top.ret > 0) /\ iter
      BY <3>8, <3>6, <3>2, <2>1
    <3>9. CASE ~ (Top.ret > 0) /\ ~ iter
      BY <3>9, <3>6, <3>3, <3>4, <3>5, <2>1
    <3> QED BY <3>7, <3>8, <3>9
  <2> HIDE DEF f
  <2>6. SameCall(Top, f)
    BY <2>1, <2>5 DEF SameCall
  <2>7. FrameOK(doc, f, pos')
    <3>1. f.phase \in {"scan", "iter", "back"} /\ (f.phase # "back" => Top.ret = 0)
      BY <2>5, <1>p
    <3>2. f.i \in 1 .. Len(doc[f.g]) + 1
      BY <2>4, <2>5, <2>6, <1>f DEF SameCall, FrameOK
    <3>3. /\ f.iter = Top.iter /\ f.stmt = Top.stmt /\ f.acts = Top.acts /\ f.auto = 0
          /\ f.ret = Top.ret /\ f.next = FALSE /\ f.fail = FALSE /\ pos' = pos
      BY <2>1, <2>2, <2>5
    <3> QED BY <3>1, <3>2, <3>3, <2>6, <1>f DEF FrameOK, SameCall
  <2>8. /\ depth' \in Nat /\ depth' <= f.base + f.auto
        /\ PoliteDoc(doc) => depth' = f.base + f.auto
    BY <1>p, <2>1, <2>2, <2>5, <2>6 DEF SameCall
  <2>9. done' => Len(frames) = 1 /\ f.phase # "acts"
    BY <2>2, <2>5
  <2>10. pos' \in pos .. Len(input) /\ failed' \in 0 .. MaxFrames
    BY <2>2, <1>p
  <2> QED BY <2>2, <2>3, <2>5, <2>6, <2>7, <2>8, <2>9, <2>10, SetTopIInv
<1> QED BY <1>1, <1>2, <1>3, <1>4, <1>5, <1>6, <1>7 DEF Block

-----------------------------------------------------------------------------
(* The return to the caller keeps the invariant                            *)

LEMMA BackIInv == IInv /\ (BackToBlock \/ BackToStmt) => IInv'
<1> SUFFICES ASSUME IInv, BackToBlock \/ BackToStmt PROVE IInv'
  OBVIOUS
<1> USE DEF In
<1>d. Top.phase = "back" /\ Top.via \in {"act", "stmt"} /\ ~ done
  BY DEF BackToBlock, BackToStmt
<1>h. Caller \in Shape
  BY <1>d, CallerFacts
<1>f. FrameOK(doc, Caller, pos) /\ Waits(doc, Caller, Top) /\ Len(frames) > 1
  BY <1>d, CallerFacts
<1>p. /\ pos \in Nat /\ depth \in Nat /\ Len(frames) \in Nat
      /\ Caller.i \in Nat /\ Caller.auto \in Nat /\ Caller.base \in Nat
      /\ Caller.acts \in Seq(Action) /\ Caller.stmt \in Nat
  <2>1. Caller.i \in 1 .. Len(doc[Caller.g]) + 1 /\ Len(doc[Caller.g]) \in Nat
    BY <1>f DEF FrameOK, IInv
  <2>2. Caller.i \in Nat
    BY <2>1
  <2>3. /\ Caller.auto \in Nat /\ Caller.base \in Nat /\ Caller.acts \in Seq(Action)
        /\ Caller.stmt \in Nat
    BY <1>f DEF FrameOK
  <2> QED BY <2>2, <2>3, TopFacts
<1>b. /\ depth <= Caller.base + Caller.auto
      /\ PoliteDoc(doc) => depth = Caller.base + Caller.auto
  <2>1. Top.auto = 0 /\ Top.base \in Nat
    BY <1>d, TopFacts DEF FrameOK
  <2>2. depth <= Top.base /\ (PoliteDoc(doc) => depth = Top.base)
    BY <2>1 DEF IInv, Allowance
  <2> QED BY <2>1, <2>2, <1>f, <1>p DEF Waits
<1>r. Remaining \in Nat
  <2>1. Top.ret \in Nat
    BY TopFacts DEF FrameOK
  <2> QED BY <2>1, Minus1Fact DEF Remaining
<1>1. CASE BackToBlock
  <2> DEFINE opened == Caller.prev = "open"
             left == IF SubConsumed THEN <<>> ELSE Tail(Caller.acts)
             n == IF opened THEN Minus1(Caller.auto) ELSE Caller.auto
             f == Resumed(Caller, left, "call", n)
  <2>1. /\ Top.via = "act" /\ depth' = IF opened THEN Leave(depth) ELSE depth
        /\ UNCHANGED <<doc, input, pos, done, failed>>
    BY <1>1 DEF BackToBlock
  <2>2. PopTo(f)
    BY <1>1 DEF BackToBlock, Resumed
  <2>3. BlockOK(doc, Caller, pos) /\ Caller.phase = "acts" /\ Caller.acts # <<>>
    BY <1>f, <2>1 DEF Waits, FrameOK
  <2>4. left \in Seq(Action)
    <3>1. Tail(Caller.acts) \in Seq(Action)
      BY <2>3, <1>p
    <3>2. <<>> \in Seq(Action)
      OBVIOUS
    <3> QED BY <3>1, <3>2
  <2>5. PoliteDoc(doc) => \A j \in DOMAIN left : PoliteAct(left[j])
    <3>1. PoliteDoc(doc) => \A j \in DOMAIN Caller.acts : PoliteAct(Caller.acts[j])
      BY <2>3 DEF BlockOK
    <3>2. \A j \in DOMAIN Tail(Caller.acts) :
            j + 1 \in DOMAIN Caller.acts /\ Tail(Caller.acts)[j] = Caller.acts[j + 1]
      BY <2>3, <1>p
    <3>3. DOMAIN <<>> = {}
      OBVIOUS
    <3> QED BY <3>1, <3>2, <3>3
  <2>6. opened => Caller.auto > 0
    BY <2>3 DEF BlockOK
  <2>7. n \in Nat /\ depth' \in Nat /\ depth' <= Caller.base + n
    <3>1. depth \in Nat /\ Caller.auto \in Nat
      BY <1>p
    <3>2. /\ Leave(depth) \in Nat /\ Leave(depth) <= depth /\ (depth > 0 => Leave(depth) = depth - 1)
          /\ Minus1(Caller.auto) \in Nat /\ (Caller.auto > 0 => Minus1(Caller.auto) = Caller.auto - 1)
      BY <3>1, LeaveFact, Minus1Fact
    <3>3. Caller.base \in Nat
      BY <1>p
    <3>4. CASE opened
      BY <3>1, <3>2, <3>3, <3>4, <2>1, <2>6, <1>b
    <3>5. CASE ~ opened
      BY <3>1, <3>3, <3>5, <2>1, <1>b
    <3> QED BY <3>4, <3>5
  <2>8. PoliteDoc(doc) => depth' = Caller.base + n
    <3>1. depth \in Nat /\ Caller.auto \in Nat
      BY <1>p
    <3>2. /\ (depth > 0 => Leave(depth) = depth - 1)
          /\ (Caller.auto > 0 => Minus1(Caller.auto) = Caller.auto - 1)
      BY <3>1, LeaveFact, Minus1Fact
    <3>3. Caller.base \in Nat
      BY <1>p
    <3>4. CASE opened
      BY <3>1, <3>2, <3>3, <3>4, <2>1, <2>6, <1>b
    <3>5. CASE ~ opened
      BY <3>5, <2>1, <1>b
    <3> QED BY <3>4, <3>5
  <2> HIDE DEF n, left, opened
  <2>9. /\ f \in Shape /\ SameCall(Caller, f) /\ f.phase = Caller.phase /\ f.i = Caller.i
        /\ f.iter = Caller.iter /\ f.stmt = Caller.stmt /\ f.acts = left /\ f.prev = "call"
        /\ f.auto = n /\ f.ret = Caller.ret /\ f.next = Caller.next /\ f.fail = Caller.fail
    <3>1. "call" \in Ops
      BY DEF Ops
    <3>2. n \in Nat
      BY <2>7
    <3> QED BY <3>1, <3>2, <2>4, <1>h, BackFacts
  <2> HIDE DEF f
  <2>10. FrameOK(doc, f, pos)
    <3>1. f.g = Caller.g /\ f.base = Caller.base /\ f.via = Caller.via /\ f.start = Caller.start
      BY <2>9 DEF SameCall
    <3>2. BlockOK(doc, f, pos)
      BY <3>1, <2>3, <2>5, <2>9 DEF BlockOK
    <3>3. Caller.ret = 0 /\ Caller.next = FALSE /\ Caller.fail = FALSE
      BY <1>f, <2>3 DEF FrameOK
    <3> QED BY <3>1, <3>2, <3>3, <2>3, <2>4, <2>7, <2>9, <1>f DEF FrameOK
  <2>11. f.base = Caller.base /\ f.auto = n
    BY <2>9 DEF SameCall
  <2> QED BY <1>d, <1>f, <2>1, <2>2, <2>7, <2>8, <2>9, <2>10, <2>11, PopIInv
<1>2. CASE BackToStmt
  <2> DEFINE f == IF Remaining > 0 THEN Left(Caller, Remaining)
                  ELSE IF SubConsumed THEN InPhase(Caller, "iter")
                  ELSE AtStmt(Caller, Caller.i + 1)
  <2>1. /\ Top.via = "stmt" /\ done' = (Len(frames) = 2 /\ Remaining > 0)
        /\ UNCHANGED <<doc, input, pos, depth, failed>>
    BY <1>2 DEF BackToStmt, tree
  <2>2. PopTo(f)
    BY <1>2 DEF BackToStmt, Left, InPhase, AtStmt
  <2>3. /\ Caller.phase = "scan" /\ Caller.i <= Len(doc[Caller.g])
        /\ Caller.auto = 0 /\ Caller.ret = 0 /\ Caller.next = FALSE /\ Caller.fail = FALSE
    BY <1>f, <2>1 DEF Waits, FrameOK
  <2>4. Caller.i + 1 \in Nat /\ Caller.i + 1 \in 1 .. Len(doc[Caller.g]) + 1
    <3>1. Len(doc[Caller.g]) \in Nat
      BY <1>f DEF FrameOK, IInv
    <3> QED BY <3>1, <2>3, <1>p
  <2>5. /\ f \in Shape /\ SameCall(Caller, f) /\ f.iter = Caller.iter /\ f.stmt = Caller.stmt
        /\ f.acts = Caller.acts /\ f.auto = 0 /\ f.next = FALSE /\ f.fail = FALSE
        /\ f.ret \in Nat /\ f.i \in {Caller.i, Caller.i + 1}
        /\ f.phase \in {"scan", "iter", "back"} /\ (f.phase # "back" => f.ret = 0)
        /\ Remaining > 0 => f.phase = "back"
    <3> DEFINE b == Left(Caller, Remaining)
               r == InPhase(Caller, "iter")
               e == AtStmt(Caller, Caller.i + 1)
    <3>1. /\ b \in Shape /\ SameCall(Caller, b) /\ b.iter = Caller.iter /\ b.stmt = Caller.stmt
          /\ b.acts = Caller.acts /\ b.auto = Caller.auto /\ b.ret = Remaining
          /\ b.next = Caller.next /\ b.fail = Caller.fail /\ b.i = Caller.i /\ b.phase = "back"
      BY <1>h, <1>r, LeaveFacts
    <3>2. /\ r \in Shape /\ SameCall(Caller, r) /\ r.iter = Caller.iter /\ r.stmt = Caller.stmt
          /\ r.acts = Caller.acts /\ r.auto = Caller.auto /\ r.ret = Caller.ret
          /\ r.next = Caller.next /\ r.fail = Caller.fail /\ r.i = Caller.i /\ r.phase = "iter"
      BY <1>h, PhaseFacts DEF Marks
    <3>3. /\ e \in Shape /\ SameCall(Caller, e) /\ e.iter = Caller.iter /\ e.stmt = Caller.stmt
          /\ e.acts = Caller.acts /\ e.auto = Caller.auto /\ e.ret = Caller.ret
          /\ e.next = Caller.next /\ e.fail = Caller.fail /\ e.i = Caller.i + 1
          /\ e.phase = Caller.phase
      BY <1>h, <2>4, NextFacts
    <3>4. f = IF Remaining > 0 THEN b ELSE IF SubConsumed THEN r ELSE e
      OBVIOUS
    <3> HIDE DEF b, r, e, f
    <3>5. CASE Remaining > 0
      BY <3>5, <3>4, <3>1, <2>3, <1>r
    <3>6. CASE ~ (Remaining > 0) /\ SubConsumed
      BY <3>6, <3>4, <3>2, <2>3
    <3>7. CASE ~ (Remaining > 0) /\ ~ SubConsumed
      BY <3>7, <3>4, <3>3, <2>3
    <3> QED BY <3>5, <3>6, <3>7
  <2> HIDE DEF f
  <2>6. f.g = Caller.g /\ f.base = Caller.base /\ f.via = Caller.via /\ f.start = Caller.start
    BY <2>5 DEF SameCall
  <2>7. FrameOK(doc, f, pos)
    <3>1. f.i \in 1 .. Len(doc[f.g]) + 1
      BY <2>4, <2>5, <2>6, <1>f DEF FrameOK
    <3> QED BY <3>1, <2>5, <2>6, <1>f DEF FrameOK
  <2>8. /\ depth' \in Nat /\ depth' <= f.base + f.auto
        /\ PoliteDoc(doc) => depth' = f.base + f.auto
    BY <1>p, <1>b, <2>1, <2>3, <2>5, <2>6
  <2>9. done' => Len(frames) = 2 /\ f.phase # "acts"
    BY <2>1, <2>5
  <2> QED BY <1>f, <2>1, <2>2, <2>5, <2>7, <2>8, <2>9, PopIInv
<1> QED BY <1>1, <1>2

-----------------------------------------------------------------------------
(* The theorems                                                            *)

LEMMA InitIInv == Init => IInv
<1> SUFFICES ASSUME Init PROVE IInv
  OBVIOUS
<1> DEFINE c == NewFrame(Main, "top")
<1>1. /\ doc \in [Grammar -> Seq(Statement)] /\ input \in Seq(Token)
      /\ pos = 0 /\ depth = 0 /\ frames = <<c>> /\ done = FALSE /\ failed = 0
  BY DocsAssumption, InputsAssumption DEF Init
<1>2. pos \in Nat /\ depth \in Nat
  BY <1>1
<1>3. /\ c \in Shape /\ c.g = Main /\ c.via = "top" /\ c.phase = "scan" /\ c.i = 1
      /\ c.start = pos /\ c.iter = pos /\ c.stmt = pos /\ c.acts = <<>> /\ c.prev = "none"
      /\ c.auto = 0 /\ c.ret = 0 /\ c.next = FALSE /\ c.fail = FALSE /\ c.base = depth
  BY <1>2, MainAssumption, NewFrameFacts
<1> HIDE DEF c
<1>4. FrameOK(doc, c, pos)
  <2>1. <<>> \in Seq(Action)
    OBVIOUS
  <2>2. 1 \in 1 .. Len(doc[c.g]) + 1
    BY <1>1, <1>3, MainAssumption
  <2> QED BY <1>2, <1>3, <2>1, <2>2, MainAssumption DEF FrameOK
<1>5. frames \in Seq(Shape) /\ Len(frames) = 1 /\ frames[1] = c
  BY <1>1, <1>3
<1>6. Stack(doc, frames, pos)
  BY <1>1, <1>3, <1>4, <1>5, MaxFramesAssumption DEF Stack
<1>7. Top = c /\ Allowance(Top) = depth
  BY <1>1, <1>3, <1>5 DEF Top, Allowance
<1>8. failed \in 0 .. MaxFrames /\ pos \in 0 .. Len(input)
  BY <1>1, MaxFramesAssumption
<1> QED BY <1>1, <1>2, <1>6, <1>7, <1>8 DEF IInv

\* The call stack is sound and the cursor accounted for in every state.
THEOREM SpecIInv == Spec => []IInv
<1>1. IInv /\ [Next]_vars => IInv'
  <2> SUFFICES ASSUME IInv, [Next]_vars PROVE IInv'
    OBVIOUS
  <2>1. CASE Next
    BY <2>1, ScanIInv, BlockIInv, BackIInv DEF Next
  <2>2. CASE UNCHANGED vars
    BY <2>2 DEF vars, tree, IInv, Allowance, Top
  <2> QED BY <2>1, <2>2
<1> QED BY InitIInv, <1>1, PTL DEF Spec

\* The flags are Booleans.
Flags == error \in BOOLEAN /\ done \in BOOLEAN /\ late \in BOOLEAN

LEMMA SpecFlags == Spec => []Flags
<1>1. Init => Flags
  BY DEF Init, Flags
<1>2. Flags /\ [Next]_vars => Flags'
  BY DEF Flags, Next, vars, Scan, Block, Hit, SkipHit, NoHit, StmtCall, StmtAction, EndFor,
         Again, Finish, Return, ActCall, ActAdd, ActOpen, ActLeave, ActControl, ActFail,
         ActEnqueue, ActClear, AutoLeave, EndBlock, BackToBlock, BackToStmt, Ran
<1> QED BY <1>1, <1>2, PTL DEF Spec

\* No scope is left open behind a block, and the finished run is at the root.
THEOREM SpecScopesClosed == Spec => []ScopesClosed
<1>1. IInv => ScopesClosed
  <2> SUFFICES ASSUME IInv PROVE ScopesClosed
    OBVIOUS
  <2>1. \A k \in 1 .. Len(frames) - 1 : frames[k + 1].base <= Allowance(frames[k])
    BY DEF IInv, Stack, Waits, Allowance
  <2>2. ASSUME done PROVE depth = 0
    <3>1. Len(frames) = 1 /\ Top.phase # "acts"
      BY <2>2 DEF IInv
    <3>2. Top.auto = 0
      BY <3>1, TopFacts DEF FrameOK
    <3>3. Top.base = 0
      BY <3>1 DEF IInv, Stack, Top
    <3>4. depth \in Nat /\ depth <= Top.base + Top.auto
      BY DEF IInv, Allowance
    <3> QED BY <3>2, <3>3, <3>4
  <2> QED BY <2>1, <2>2 DEF ScopesClosed, IInv
<1> QED BY <1>1, SpecIInv, PTL

\* In a document whose blocks do not leave by themselves, a block and a called
\* grammar leave no scope they did not open.
THEOREM SpecScopesKept == Spec => []ScopesKept
<1>1. IInv => ScopesKept
  <2> SUFFICES ASSUME IInv, Polite
               PROVE  /\ \A k \in 1 .. Len(frames) - 1 : frames[k + 1].base = Allowance(frames[k])
                      /\ depth = Allowance(Top)
    BY DEF ScopesKept
  <2>1. PoliteDoc(doc)
    BY DEF Polite, PoliteDoc, PoliteAct
  <2>2. \A k \in 1 .. Len(frames) - 1 : frames[k + 1].base = Allowance(frames[k])
    BY <2>1 DEF IInv, Stack, Waits, Allowance
  <2> QED BY <2>1, <2>2 DEF IInv
<1> QED BY <1>1, SpecIInv, PTL

-----------------------------------------------------------------------------
(* What the grammar that is run has consumed                               *)

\* The position up to which frame 1 has counted: where it stands, or where the
\* statement began that is being executed.
Counted == IF Len(frames) = 1 /\ frames[1].phase # "acts" THEN pos ELSE frames[1].stmt

AccInv == /\ consumed \in Nat /\ consumed <= Counted
          /\ Accountable => consumed = Counted

LEMMA FirstKept ==
    ASSUME IInv, NEW f, SetTop(f)
    PROVE  /\ Len(frames') = Len(frames)
           /\ frames'[1] = IF Len(frames) = 1 THEN f ELSE frames[1]
BY TopFacts DEF SetTop

LEMMA CountedSame ==
    ASSUME AccInv, UNCHANGED <<doc, consumed>>, Counted' = Counted
    PROVE  AccInv'
BY DEF AccInv, Accountable

LEMMA BlockShape == Block => Top.phase = "acts" /\ ~ done
BY DEF Block, ActCall, ActAdd, ActOpen, ActLeave, ActControl, ActFail, ActEnqueue, ActClear,
       AutoLeave, EndBlock, Acting, In

LEMMA ScanAcc == IInv /\ AccInv /\ Scan => AccInv'
<1> SUFFICES ASSUME IInv, AccInv, Scan PROVE AccInv'
  OBVIOUS
<1> USE DEF In
<1>h. Top \in Shape
  BY TopFacts
<1>n. pos \in Nat
  BY TopFacts
<1>l. Len(frames) \in Nat /\ Len(frames) >= 1
  BY TopFacts
<1>d. doc' = doc
  BY DEF Scan, Hit, SkipHit, NoHit, StmtCall, StmtAction, EndFor, Again, Finish, Return
<1>1. CASE Hit \/ StmtAction
  <2> DEFINE f == Entered(Top, Stmt.acts, pos)
  <2>1. /\ SetTop(f) /\ Top.phase = "scan" /\ consumed' = consumed /\ Top.i <= Len(Stmts)
    BY <1>1 DEF Hit, StmtAction, Entered
  <2>2. Stmt.acts \in Seq(Action)
    BY <2>1, StmtFacts
  <2>3. f.phase = "acts" /\ f.stmt = pos
    BY <2>2, <1>h, <1>n, EnterFacts
  <2> HIDE DEF f
  <2>4. CASE Len(frames) = 1
    BY <2>1, <2>3, <2>4, <1>d, FirstKept, CountedSame DEF Counted, Top
  <2>5. CASE Len(frames) # 1
    BY <2>1, <2>5, <1>d, FirstKept, CountedSame DEF Counted
  <2> QED BY <2>4, <2>5
<1>2. CASE SkipHit
  <2> DEFINE f == InPhase(Top, "iter")
             n == MatchLen(Stmt.pat)
  <2>1. /\ SetTop(f) /\ Top.phase = "scan" /\ pos' = pos + n /\ n > 0
        /\ consumed' = IF IsTop THEN consumed + n ELSE consumed
    BY <1>2 DEF SkipHit, InPhase
  <2>2. n \in Nat
    BY <2>1 DEF MatchLen
  <2>3. f.phase = "iter"
    BY <1>h, PhaseFacts DEF Marks
  <2> HIDE DEF f, n
  <2>4. CASE Len(frames) = 1
    <3>1. Counted = pos /\ Counted' = pos + n /\ consumed' = consumed + n
      BY <2>1, <2>3, <2>4, FirstKept DEF Counted, Top, IsTop
    <3>2. consumed \in Nat /\ consumed <= pos /\ (Accountable => consumed = pos)
      BY <3>1 DEF AccInv
    <3>3. Accountable' <=> Accountable
      BY <1>d DEF Accountable
    <3>4. consumed' \in Nat /\ consumed' <= pos + n /\ (Accountable => consumed' = pos + n)
      BY <3>1, <3>2, <2>2, <1>n
    <3> QED BY <3>1, <3>3, <3>4 DEF AccInv
  <2>5. CASE Len(frames) # 1
    BY <2>1, <2>5, <1>d, FirstKept, CountedSame DEF Counted, IsTop
  <2> QED BY <2>4, <2>5
<1>3. CASE NoHit
  <2> DEFINE f == AtStmt(Top, Top.i + 1)
  <2>1. /\ SetTop(f) /\ Top.phase = "scan" /\ UNCHANGED <<pos, consumed>> /\ Top.i <= Len(Stmts)
    BY <1>3 DEF NoHit, AtStmt
  <2>2. Top.i + 1 \in Nat
    BY <2>1, StmtFacts
  <2>3. f.phase = "scan"
    BY <1>h, <2>1, <2>2, NextFacts
  <2> HIDE DEF f
  <2>4. CASE Len(frames) = 1
    BY <2>1, <2>3, <2>4, <1>d, FirstKept, CountedSame DEF Counted, Top
  <2>5. CASE Len(frames) # 1
    BY <2>1, <2>5, <1>d, FirstKept, CountedSame DEF Counted
  <2> QED BY <2>4, <2>5
<1>4. CASE StmtCall
  <2> DEFINE f == Waiting(Top, pos)
             c == NewFrame(Head(Stmt.acts).g, "stmt")
  <2>1. /\ frames' = Append([frames EXCEPT ![Len(frames)] = f], c)
        /\ Top.phase = "scan" /\ UNCHANGED <<pos, consumed>>
    BY <1>4 DEF StmtCall, Waiting, Top
  <2>2. f.stmt = pos
    BY <1>h, <1>n, CallFacts
  <2> HIDE DEF f, c
  <2>3. Len(frames') = Len(frames) + 1 /\ frames'[1] = IF Len(frames) = 1 THEN f ELSE frames[1]
    BY <2>1, TopFacts
  <2>4. CASE Len(frames) = 1
    BY <2>1, <2>2, <2>3, <2>4, <1>d, CountedSame DEF Counted, Top
  <2>5. CASE Len(frames) # 1
    BY <2>1, <2>3, <2>5, <1>d, <1>l, CountedSame DEF Counted
  <2> QED BY <2>4, <2>5
<1>5. CASE EndFor \/ Return
  <2> DEFINE phase == IF Top.phase = "scan" THEN "iter" ELSE "back"
             f == InPhase(Top, phase)
  <2>1. /\ Top.phase \in {"scan", "iter"} /\ SetTop(f) /\ UNCHANGED <<pos, consumed>>
    BY <1>5 DEF EndFor, Return, InPhase
  <2>2. phase \in Marks /\ phase \in {"iter", "back"}
    BY DEF Marks
  <2> HIDE DEF phase
  <2>3. f.phase = phase
    BY <1>h, <2>2, PhaseFacts
  <2> HIDE DEF f
  <2>4. CASE Len(frames) = 1
    BY <2>1, <2>2, <2>3, <2>4, <1>d, FirstKept, CountedSame DEF Counted, Top
  <2>5. CASE Len(frames) # 1
    BY <2>1, <2>5, <1>d, FirstKept, CountedSame DEF Counted
  <2> QED BY <2>4, <2>5
<1>6. CASE Again
  <2> DEFINE f == Restarted(Top, pos)
  <2>1. SetTop(f) /\ Top.phase = "iter" /\ UNCHANGED <<pos, consumed>>
    BY <1>6 DEF Again, Restarted
  <2>2. f.phase = "scan"
    BY <1>h, <1>n, AgainFacts
  <2> HIDE DEF f
  <2>3. CASE Len(frames) = 1
    BY <2>1, <2>2, <2>3, <1>d, FirstKept, CountedSame DEF Counted, Top
  <2>4. CASE Len(frames) # 1
    BY <2>1, <2>4, <1>d, FirstKept, CountedSame DEF Counted
  <2> QED BY <2>3, <2>4
<1>7. CASE Finish
  BY <1>7, <1>d, CountedSame DEF Finish, Counted
<1> QED BY <1>1, <1>2, <1>3, <1>4, <1>5, <1>6, <1>7 DEF Scan

LEMMA BlockAcc == IInv /\ AccInv /\ Block => AccInv'
<1> SUFFICES ASSUME IInv, AccInv, Block PROVE AccInv'
  OBVIOUS
<1>h. Top \in Shape
  BY TopFacts
<1>l. Len(frames) \in Nat /\ Len(frames) >= 1
  BY TopFacts
<1>s. Top.phase = "acts"
  BY BlockShape
<1>d. doc' = doc
  BY DEF Block, ActCall, ActAdd, ActOpen, ActLeave, ActControl, ActFail, ActEnqueue, ActClear,
         AutoLeave, EndBlock
<1> DEFINE Goes(f) == SetTop(f) /\ f.phase = "acts" /\ f.stmt = Top.stmt
<1>g. ASSUME NEW f, Goes(f), consumed' = consumed PROVE AccInv'
  <2>1. CASE Len(frames) = 1
    BY <1>g, <1>s, <2>1, <1>d, FirstKept, CountedSame DEF Counted, Top
  <2>2. CASE Len(frames) # 1
    BY <1>g, <2>2, <1>d, FirstKept, CountedSame DEF Counted
  <2> QED BY <2>1, <2>2
<1>1. CASE ActCall
  <2>1. /\ frames' = Append(frames, NewFrame(Act.g, "act")) /\ UNCHANGED consumed
    BY <1>1 DEF ActCall
  <2>2. Len(frames') = Len(frames) + 1 /\ frames'[1] = frames[1]
    <3> DEFINE c == NewFrame(Act.g, "act")
    <3> HIDE DEF c
    <3>1. frames' = Append(frames, c)
      BY <2>1 DEF c
    <3> QED BY <3>1, TopFacts
  <2>3. Counted' = Counted
    BY <2>2, <1>s, <1>l DEF Counted, Top
  <2> QED BY <2>1, <2>3, <1>d, CountedSame
<1>2. CASE ActAdd \/ ActEnqueue \/ ActClear
  <2>1. SetTop(Rest) /\ Top.acts # <<>> /\ consumed' = consumed
    BY <1>2 DEF ActAdd, ActEnqueue, ActClear, Acting
  <2>2. Rest.phase = "acts" /\ Rest.stmt = Top.stmt
    BY <1>s, <2>1, StepFacts
  <2> QED BY <2>1, <2>2, <1>g
<1>3. CASE ActOpen \/ ActLeave
  <2> DEFINE n == IF ActOpen THEN Top.auto + 1 ELSE Minus1(Top.auto)
             f == Owing(Rest, n)
  <2>1. Top.acts # <<>> /\ consumed' = consumed
    BY <1>3 DEF ActOpen, ActLeave, Acting
  <2>2. /\ Rest.phase = Top.phase /\ Rest.stmt = Top.stmt /\ Rest.auto = Top.auto
    BY <1>s, <2>1, StepFacts
  <2>3. Rest \in Shape
    BY <1>s, <2>1, StepFacts
  <2>4. Top.auto \in Nat
    BY <1>s, BlockFacts
  <2>5. n \in Nat
    BY <2>4, Minus1Fact
  <2>6. SetTop(f)
    <3>1. CASE ActOpen
      BY <3>1, <2>2 DEF ActOpen, Owing
    <3>2. CASE ~ ActOpen
      BY <3>2, <1>3, <2>2 DEF ActLeave, Owing
    <3> QED BY <3>1, <3>2
  <2> HIDE DEF n
  <2>7. f.phase = Rest.phase /\ f.stmt = Rest.stmt
    BY <2>3, <2>5, AutoFacts
  <2> HIDE DEF f
  <2> QED BY <1>s, <2>1, <2>2, <2>6, <2>7, <1>g
<1>4. CASE ActControl
  <2> DEFINE next == Act.op = "next"
             n == IF Act.op # "return" THEN 0 ELSE IF Act.levels < 1 THEN 1 ELSE Act.levels
             f == Controlled(Top, next, n)
  <2>1. Top.acts # <<>> /\ SetTop(f) /\ consumed' = consumed
    BY <1>4 DEF ActControl, Controlled, Acting
  <2>2. n \in Nat
    <3>1. Act.op = "return" => Act.levels \in Int
      BY <1>s, <2>1, ActFacts DEF Action
    <3> QED BY <3>1
  <2>3. next \in BOOLEAN
    OBVIOUS
  <2> HIDE DEF n, next
  <2>4. f.phase = Top.phase /\ f.stmt = Top.stmt
    BY <1>h, <2>2, <2>3, ControlFacts
  <2> HIDE DEF f
  <2> QED BY <1>s, <2>1, <2>4, <1>g
<1>5. CASE ActFail
  <2> DEFINE f == Failing(Top, TRUE)
  <2>1. SetTop(f) /\ consumed' = consumed
    BY <1>5 DEF ActFail, Failing
  <2>2. f.phase = Top.phase /\ f.stmt = Top.stmt
    BY <1>h, FailFacts
  <2> HIDE DEF f
  <2> QED BY <1>s, <2>1, <2>2, <1>g
<1>6. CASE AutoLeave
  <2> DEFINE f == Owing(Top, Top.auto - 1)
  <2>1. Top.auto > 0 /\ SetTop(f) /\ consumed' = consumed
    BY <1>6 DEF AutoLeave, Owing
  <2>2. Top.auto - 1 \in Nat
    BY <1>s, <2>1, BlockFacts
  <2>3. f.phase = Top.phase /\ f.stmt = Top.stmt
    BY <1>h, <2>2, AutoFacts
  <2> HIDE DEF f
  <2> QED BY <1>s, <2>1, <2>3, <1>g
<1>7. CASE EndBlock
  <2> DEFINE g == Fresh(Top, FALSE)
             iter == Stmt.kind # "action" \/ Top.next \/ pos > Top.stmt
             f == IF Top.ret > 0 THEN [g EXCEPT !.phase = "back"]
                  ELSE IF iter THEN [g EXCEPT !.phase = "iter"]
                  ELSE [g EXCEPT !.phase = "scan", !.i = @ + 1]
  <2>1. /\ SetTop(f) /\ pos' = pos
        /\ consumed' = consumed \/ (IsTop /\ consumed' = consumed + (pos - Top.stmt))
        /\ IsTop /\ Stmt.kind = "match" => consumed' = consumed + (pos - Top.stmt)
        /\ ~ IsTop => consumed' = consumed
    BY <1>7 DEF EndBlock, Fresh
  <2>2. f.phase # "acts"
    <3>1. g \in Shape
      BY <1>h, FreshFacts
    <3> HIDE DEF g
    <3>2. /\ [g EXCEPT !.phase = "back"].phase = "back"
          /\ [g EXCEPT !.phase = "iter"].phase = "iter"
          /\ [g EXCEPT !.phase = "scan", !.i = @ + 1].phase = "scan"
      BY <3>1 DEF Shape, Fields
    <3> QED BY <3>2
  <2> HIDE DEF f, iter, g
  <2>3. CASE Len(frames) = 1
    <3>1. Counted = Top.stmt /\ Counted' = pos
      BY <1>s, <2>1, <2>2, <2>3, FirstKept DEF Counted, Top
    <3>2. pos \in Nat /\ Top.stmt \in Nat /\ Top.stmt <= pos /\ consumed \in Nat /\ consumed <= Top.stmt
      BY <1>s, <3>1, BlockFacts DEF BlockOK, AccInv
    <3>3. consumed' \in Nat /\ consumed' <= pos
      BY <2>1, <3>2
    <3>4. ASSUME Accountable PROVE Stmt.kind = "match"
      <4>1. Top.g = Main
        BY <2>3 DEF IInv, Stack, Top
      <4>2. /\ Top.i \in 1 .. Len(doc[Main]) /\ Stmt = doc[Main][Top.i] /\ doc[Main] \in Seq(Statement)
            /\ Stmt.kind \in {"match", "when", "action"}
            /\ Stmt.kind = "action" => Head(Stmt.acts).op # "call"
        <5>1. Top.i <= Len(Stmts)
          BY <1>s, BlockFacts DEF BlockOK, Stmts
        <5>2. /\ Top.i \in 1 .. Len(Stmts) /\ Stmts \in Seq(Statement)
              /\ Stmts = doc[Top.g] /\ Stmt = doc[Top.g][Top.i]
          BY <5>1, StmtFacts
        <5>3. /\ doc[Top.g][Top.i].kind \in {"match", "when", "action"}
              /\ doc[Top.g][Top.i].kind = "action" => Head(doc[Top.g][Top.i].acts).op # "call"
          BY <1>s, BlockFacts DEF BlockOK
        <5> QED BY <4>1, <5>2, <5>3
      <4> QED BY <3>4, <4>2 DEF Accountable
    <3>5. Accountable => consumed' = pos
      <4>1. Accountable => consumed = Top.stmt
        BY <3>1 DEF AccInv
      <4> QED BY <2>1, <2>3, <3>2, <3>4, <4>1 DEF IsTop
    <3>6. Accountable' <=> Accountable
      BY <1>d DEF Accountable
    <3> QED BY <3>1, <3>3, <3>5, <3>6 DEF AccInv
  <2>4. CASE Len(frames) # 1
    BY <2>1, <2>4, <1>d, FirstKept, CountedSame DEF Counted, IsTop
  <2> QED BY <2>3, <2>4
<1> QED BY <1>1, <1>2, <1>3, <1>4, <1>5, <1>6, <1>7 DEF Block

LEMMA BackAcc == IInv /\ AccInv /\ (BackToBlock \/ BackToStmt) => AccInv'
<1> SUFFICES ASSUME IInv, AccInv, BackToBlock \/ BackToStmt PROVE AccInv'
  OBVIOUS
<1> USE DEF In
<1>f. Caller \in Shape /\ FrameOK(doc, Caller, pos) /\ Waits(doc, Caller, Top) /\ Len(frames) > 1
  BY CallerFacts DEF BackToBlock, BackToStmt
<1>h. Caller \in Shape
  BY <1>f
<1>l. Len(frames) \in Nat /\ Len(frames) > 1 /\ frames \in Seq(Shape)
  BY <1>f, TopFacts
<1>d. doc' = doc /\ pos' = pos
  BY DEF BackToBlock, BackToStmt
<1>k. ASSUME NEW f, PopTo(f)
      PROVE  /\ Len(frames') = Len(frames) - 1
             /\ frames'[1] = IF Len(frames) = 2 THEN f ELSE frames[1]
  <2> DEFINE m == Len(frames) - 2
             low == SubSeq(frames, 1, m)
  <2>1. m \in Nat /\ m <= Len(frames)
    BY <1>l
  <2>2. frames' = Append(low, f)
    BY <1>k DEF PopTo
  <2>3. Len(low) = m /\ (m > 0 => low[1] = frames[1]) /\ low \in Seq(Shape)
    <3>1. m \in Int /\ m \in Nat /\ \A i \in 1 .. m : frames[i] \in Shape
      BY <1>l
    <3> HIDE DEF m
    <3>2. low \in Seq(Shape) /\ Len(low) = IF 1 <= m THEN m - 1 + 1 ELSE 0
      BY <3>1, SubSeqProperties
    <3>3. \A i \in 1 .. m - 1 + 1 : low[i] = frames[1 + i - 1]
      BY <3>1, SubSeqProperties
    <3> QED BY <3>1, <3>2, <3>3
  <2> HIDE DEF low
  <2>4. Len(frames') = m + 1 /\ frames'[1] = IF m = 0 THEN f ELSE low[1]
    BY <2>1, <2>2, <2>3
  <2> QED BY <2>1, <2>3, <2>4, <1>l
<1>1. CASE BackToBlock
  <2> DEFINE left == IF SubConsumed THEN <<>> ELSE Tail(Caller.acts)
             n == IF Caller.prev = "open" THEN Minus1(Caller.auto) ELSE Caller.auto
             f == Resumed(Caller, left, "call", n)
  <2>1. PopTo(f) /\ consumed' = consumed /\ Top.via = "act"
    BY <1>1 DEF BackToBlock, Resumed
  <2>2. Caller.phase = "acts" /\ Caller.acts # <<>> /\ Caller.acts \in Seq(Action)
    BY <1>f, <2>1 DEF Waits, FrameOK
  <2>3. left \in Seq(Action)
    <3>1. Tail(Caller.acts) \in Seq(Action)
      BY <2>2
    <3>2. <<>> \in Seq(Action)
      OBVIOUS
    <3> QED BY <3>1, <3>2
  <2>4. n \in Nat
    <3>1. Caller.auto \in Nat
      BY <1>f DEF FrameOK
    <3> QED BY <3>1, Minus1Fact
  <2> HIDE DEF left, n
  <2>5. f.phase = Caller.phase /\ f.stmt = Caller.stmt
    <3>1. "call" \in Ops
      BY DEF Ops
    <3> QED BY <3>1, <2>3, <2>4, <1>h, BackFacts
  <2> HIDE DEF f
  <2>6. Counted' = Counted
    <3>1. CASE Len(frames) = 2
      <4>1. Len(frames') = 1 /\ frames'[1] = f
        BY <2>1, <3>1, <1>k
      <4>2. Caller = frames[1]
        BY <3>1 DEF Caller
      <4> QED BY <4>1, <4>2, <2>2, <2>5, <3>1 DEF Counted
    <3>2. CASE Len(frames) # 2
      <4>1. Len(frames') = Len(frames) - 1 /\ frames'[1] = frames[1]
        BY <2>1, <3>2, <1>k
      <4> QED BY <4>1, <3>2, <1>l DEF Counted
    <3> QED BY <3>1, <3>2
  <2> QED BY <2>1, <2>6, <1>d, CountedSame
<1>2. CASE BackToStmt
  <2> DEFINE f == IF Remaining > 0 THEN [Caller EXCEPT !.phase = "back", !.ret = Remaining]
                  ELSE IF SubConsumed THEN [Caller EXCEPT !.phase = "iter"]
                  ELSE [Caller EXCEPT !.i = @ + 1]
  <2>1. /\ PopTo(f) /\ Top.via = "stmt"
        /\ consumed' = IF Len(frames) = 2 THEN consumed + (pos - Caller.stmt) ELSE consumed
    BY <1>2 DEF BackToStmt
  <2>2. f.phase # "acts"
    <3>1. Caller.phase = "scan"
      BY <1>f, <2>1 DEF Waits
    <3>2. /\ [Caller EXCEPT !.phase = "back", !.ret = Remaining].phase = "back"
          /\ [Caller EXCEPT !.phase = "iter"].phase = "iter"
          /\ [Caller EXCEPT !.i = @ + 1].phase = Caller.phase
      BY <1>h DEF Shape, Fields
    <3> QED BY <3>1, <3>2
  <2> HIDE DEF f
  <2>3. CASE Len(frames) = 2
    <3>1. Len(frames') = 1 /\ frames'[1] = f /\ Caller = frames[1]
      BY <2>1, <2>3, <1>k DEF Caller
    <3>2. Counted = Caller.stmt /\ Counted' = pos
      BY <3>1, <2>2, <2>3, <1>d DEF Counted
    <3>3. Caller.stmt <= pos /\ Caller.stmt \in Nat /\ pos \in Nat
      <4>1. /\ Caller.stmt <= Top.start /\ Top.start <= Top.iter /\ Top.iter <= pos
            /\ Caller.stmt \in Nat /\ Top.start \in Nat /\ Top.iter \in Nat /\ pos \in Nat
        BY <1>f, TopFacts DEF Waits, FrameOK
      <4> QED BY <4>1
    <3>4. consumed \in Nat /\ consumed <= Caller.stmt /\ (Accountable => consumed = Caller.stmt)
      BY <3>2 DEF AccInv
    <3>5. consumed' \in Nat /\ consumed' <= pos /\ (Accountable => consumed' = pos)
      BY <2>1, <2>3, <3>3, <3>4
    <3>6. Accountable' <=> Accountable
      BY <1>d DEF Accountable
    <3> QED BY <3>2, <3>5, <3>6 DEF AccInv
  <2>4. CASE Len(frames) # 2
    <3>1. Counted' = Counted
      <4>1. Len(frames') = Len(frames) - 1 /\ frames'[1] = frames[1]
        BY <2>1, <2>4, <1>k
      <4> QED BY <4>1, <2>4, <1>l DEF Counted
    <3> QED BY <2>1, <2>4, <3>1, <1>d, CountedSame
  <2> QED BY <2>3, <2>4
<1> QED BY <1>1, <1>2

LEMMA SpecAccInv == Spec => []AccInv
<1>1. Init => AccInv
  <2> SUFFICES ASSUME Init PROVE AccInv
    OBVIOUS
  <2> DEFINE c == NewFrame(Main, "top")
  <2>1. pos = 0 /\ consumed = 0 /\ frames = <<c>>
    BY DEF Init
  <2>2. c.phase = "scan"
    BY DEF NewFrame
  <2> HIDE DEF c
  <2>3. Counted = 0
    BY <2>1, <2>2 DEF Counted
  <2> QED BY <2>1, <2>3 DEF AccInv
<1>2. IInv /\ AccInv /\ [Next]_vars => AccInv'
  <2> SUFFICES ASSUME IInv, AccInv, [Next]_vars PROVE AccInv'
    OBVIOUS
  <2>1. CASE Next
    BY <2>1, ScanAcc, BlockAcc, BackAcc DEF Next
  <2>2. CASE UNCHANGED vars
    BY <2>2, CountedSame DEF vars, Counted
  <2> QED BY <2>1, <2>2
<1> QED BY <1>1, <1>2, SpecIInv, PTL DEF Spec

\* consumed is never more than the position the run ended at, and equal to it
\* without when statements and actions as statements in the main grammar.
THEOREM SpecConsumedIsPosition == Spec => []ConsumedIsPosition
<1>1. IInv /\ AccInv => ConsumedIsPosition
  <2> SUFFICES ASSUME IInv, AccInv, done PROVE consumed <= pos /\ (Accountable => consumed = pos)
    BY DEF ConsumedIsPosition
  <2>1. Len(frames) = 1 /\ frames[1].phase # "acts"
    BY DEF IInv, Top
  <2>2. Counted = pos
    BY <2>1 DEF Counted
  <2> QED BY <2>2 DEF AccInv
<1> QED BY <1>1, SpecIInv, SpecAccInv, PTL

\* The state is well typed, every caller waits at the call it made, and
\* positions only grow from a caller to its callee.
THEOREM SpecCallStack == Spec => []CallStack
<1>1. IInv /\ AccInv /\ Flags => CallStack
  <2> SUFFICES ASSUME IInv, AccInv, Flags PROVE CallStack
    OBVIOUS
  <2>s. Stack(doc, frames, pos) /\ doc \in [Grammar -> Seq(Statement)] /\ DOMAIN frames = 1 .. Len(frames)
    BY TopFacts DEF IInv
  <2>1. ASSUME NEW k \in DOMAIN frames
        PROVE  /\ frames[k].phase \in {"scan", "acts", "iter", "back"}
               /\ frames[k].via \in {"top", "stmt", "act"} /\ frames[k].g \in DOMAIN doc
               /\ frames[k].i \in 1 .. Len(doc[frames[k].g]) + 1
               /\ {frames[k].auto, frames[k].ret, frames[k].base} \subseteq Nat
    <3>1. FrameOK(doc, frames[k], pos)
      BY <2>s DEF Stack
    <3> QED BY <2>s, <3>1 DEF FrameOK
  <2>2. TypeOK
    BY <2>1, <2>s DEF TypeOK, IInv, AccInv, Flags, Stack
  <2>3. \A k \in DOMAIN frames : LET f == frames[k] IN f.start <= f.iter /\ f.iter <= pos
    BY <2>s DEF Stack, FrameOK
  <2>4. ASSUME NEW k \in 1 .. Len(frames) - 1
        PROVE  LET f == frames[k]  callee == frames[k + 1]
                   call == IF callee.via = "act" THEN f.acts ELSE doc[f.g][f.i].acts
               IN  /\ f.iter <= f.stmt /\ f.stmt <= callee.start
                   /\ f.phase = IF callee.via = "act" THEN "acts" ELSE "scan"
                   /\ Head(call).op = "call" /\ Head(call).g = callee.g
                   /\ f.ret = 0 /\ ~f.next
    <3> DEFINE f == frames[k]
               callee == frames[k + 1]
    <3>1. Waits(doc, f, callee) /\ FrameOK(doc, f, pos)
      BY <2>s DEF Stack
    <3> HIDE DEF f, callee
    <3>2. CASE callee.via = "act"
      <4>1. f.ret = 0 /\ f.next = FALSE
        BY <3>1, <3>2 DEF Waits, FrameOK
      <4> QED BY <3>1, <3>2, <4>1 DEF Waits, f, callee
    <3>3. CASE callee.via # "act"
      <4>0. callee.via = "stmt"
        BY <3>1, <3>3 DEF Waits
      <4>1. f.ret = 0 /\ f.next = FALSE
        BY <3>1, <4>0 DEF Waits, FrameOK
      <4> QED BY <3>1, <3>3, <4>0, <4>1 DEF Waits, f, callee
    <3> QED BY <3>2, <3>3
  <2> QED BY <2>2, <2>3, <2>4 DEF CallStack
<1> QED BY <1>1, SpecIInv, SpecAccInv, SpecFlags, PTL

-----------------------------------------------------------------------------
(* do.fail in the grammar that is run                                      *)

\* Before a do.fail no action is late; after one in the main grammar only the
\* end of its block is left, which returns with the error.
FailInv ==
    /\ failed = 0 => ~ late
    /\ failed = 1 => /\ Len(frames) = 1 /\ ~ late
                     /\ \/ Top.phase = "acts" /\ Top.acts = <<>> /\ Top.fail = TRUE /\ Top.ret = 1
                        \/ done /\ error

LEMMA FailStep == IInv /\ FailInv /\ [Next]_vars => FailInv'
<1> SUFFICES ASSUME IInv, FailInv, [Next]_vars PROVE FailInv'
  OBVIOUS
<1> USE DEF In, Acting
<1>h. Top \in Shape
  BY TopFacts
<1>l. Len(frames) \in Nat /\ Len(frames) >= 1
  BY TopFacts
<1>1. CASE UNCHANGED vars
  BY <1>1 DEF vars, FailInv, Top
<1>2. CASE failed = 0 /\ failed' = 0 /\ Next
  <2>1. late' => late \/ failed # 0
    BY <1>2 DEF Next, Scan, Block, Hit, SkipHit, NoHit, StmtCall, StmtAction, EndFor, Again, Finish,
         Return, ActCall, ActAdd, ActOpen, ActLeave, ActControl, ActFail, ActEnqueue, ActClear,
         AutoLeave, EndBlock, BackToBlock, BackToStmt, Ran
  <2> QED BY <1>2, <2>1 DEF FailInv
<1>3. CASE failed = 0 /\ failed' # 0 /\ Next
  <2> DEFINE f == Failing(Top, TRUE)
  <2>1. ActFail
    BY <1>3 DEF Next, Scan, Block, Hit, SkipHit, NoHit, StmtCall, StmtAction, EndFor, Again, Finish,
         Return, ActCall, ActAdd, ActOpen, ActLeave, ActControl, ActEnqueue, ActClear,
         AutoLeave, EndBlock, BackToBlock, BackToStmt
  <2>2. SetTop(f) /\ failed' = Len(frames) /\ late' = (late \/ failed # 0) /\ Top.phase = "acts"
    BY <1>3, <2>1 DEF ActFail, Failing, Ran
  <2>3. f.phase = Top.phase /\ f.acts = <<>> /\ f.fail = TRUE /\ f.ret = 1
    BY <1>h, FailFacts
  <2> HIDE DEF f
  <2>4. ~ late'
    BY <1>3, <2>2 DEF FailInv
  <2>5. Len(frames') = Len(frames) /\ (Len(frames) = 1 => Top' = f)
    BY <2>2, FirstKept DEF Top
  <2> QED BY <1>3, <2>2, <2>3, <2>4, <2>5 DEF FailInv
<1>4. CASE failed # 0 /\ Next
  <2>1. failed' = failed
    BY <1>4 DEF Next, Scan, Block, Hit, SkipHit, NoHit, StmtCall, StmtAction, EndFor, Again, Finish,
         Return, ActCall, ActAdd, ActOpen, ActLeave, ActControl, ActFail, ActEnqueue, ActClear,
         AutoLeave, EndBlock, BackToBlock, BackToStmt
  <2>2. CASE failed # 1
    BY <1>4, <2>1, <2>2 DEF FailInv
  <2>3. CASE failed = 1
    <3>1. Len(frames) = 1 /\ ~ late
      BY <2>3 DEF FailInv
    <3>2. ~ done
      BY <1>4 DEF Next, Scan, Block, Hit, SkipHit, NoHit, StmtCall, StmtAction, EndFor, Again, Finish,
         Return, ActCall, ActAdd, ActOpen, ActLeave, ActControl, ActFail, ActEnqueue, ActClear,
         AutoLeave, EndBlock, BackToBlock, BackToStmt
    <3>3. Top.phase = "acts" /\ Top.acts = <<>> /\ Top.fail = TRUE /\ Top.ret = 1
      BY <2>3, <3>2 DEF FailInv
    <3>4. AutoLeave \/ EndBlock
      BY <1>4, <3>3 DEF Next, Scan, Block, Hit, SkipHit, NoHit, StmtCall, StmtAction, EndFor, Again,
         Finish, Return, ActCall, ActAdd, ActOpen, ActLeave, ActControl, ActFail, ActEnqueue, ActClear,
         BackToBlock, BackToStmt
    <3>5. CASE AutoLeave
      <4> DEFINE f == Owing(Top, Top.auto - 1)
      <4>1. Top.auto > 0 /\ SetTop(f) /\ late' = late
        BY <3>5 DEF AutoLeave, Owing
      <4>2. Top.auto - 1 \in Nat
        BY <3>3, <4>1, BlockFacts
      <4>3. f.phase = Top.phase /\ f.acts = Top.acts /\ f.fail = Top.fail /\ f.ret = Top.ret
        BY <1>h, <4>2, AutoFacts
      <4> HIDE DEF f
      <4>4. Len(frames') = 1 /\ Top' = f
        BY <3>1, <4>1, FirstKept DEF Top
      <4> QED BY <2>1, <2>3, <3>1, <3>3, <4>1, <4>3, <4>4 DEF FailInv
    <3>6. CASE EndBlock
      <4>1. late' = late /\ error' = (error \/ (IsTop /\ Top.fail)) /\ done' = (IsTop /\ Top.ret > 0)
        BY <3>6 DEF EndBlock
      <4>2. error' /\ done'
        <5>1. IsTop /\ Top.fail /\ Top.ret > 0
          BY <3>1, <3>3 DEF IsTop
        <5> QED BY <4>1, <5>1
      <4>3. Len(frames') = Len(frames)
        <5> DEFINE g == [Top EXCEPT !.next = FALSE, !.fail = FALSE]
                   f == IF Top.ret > 0 THEN [g EXCEPT !.phase = "back"]
                        ELSE IF Stmt.kind # "action" \/ Top.next \/ pos > Top.stmt
                               THEN [g EXCEPT !.phase = "iter"]
                        ELSE [g EXCEPT !.phase = "scan", !.i = @ + 1]
        <5>1. SetTop(f)
          BY <3>6 DEF EndBlock
        <5> HIDE DEF f
        <5> QED BY <5>1, FirstKept
      <4> QED BY <2>1, <2>3, <3>1, <4>1, <4>2, <4>3 DEF FailInv
    <3> QED BY <3>4, <3>5, <3>6
  <2> QED BY <2>2, <2>3
<1> QED BY <1>1, <1>2, <1>3, <1>4

\* A do.fail of the grammar that is run ends everything.
THEOREM SpecFailAtTopIsFinal == Spec => []FailAtTopIsFinal
<1>1. Init => FailInv
  BY DEF Init, FailInv
<1>2. IInv /\ FailInv => FailAtTopIsFinal
  <2> SUFFICES ASSUME IInv, FailInv, failed = 1 PROVE ~ late /\ (done => error)
    BY DEF FailAtTopIsFinal
  <2>1. done => Top.phase # "acts"
    BY DEF IInv
  <2> QED BY <2>1 DEF FailInv
<1> QED BY <1>1, <1>2, FailStep, SpecIInv, PTL DEF Spec

-----------------------------------------------------------------------------
(* Single-shot triggers                                                    *)

LEMMA Smallest ==
    ASSUME NEW T \in SUBSET Nat, T # {}
    PROVE  \E x \in T : \A y \in T : x <= y
<1>1. PICK x \in T : \A y \in T : ~ (<<y, x>> \in OpToRel(<, Nat))
  BY NatLessThanWellFounded, WFMin, Zenon
<1>2. \A y \in T : ~ (y < x)
  BY <1>1 DEF OpToRel
<1> QED BY <1>2

\* One removal, if n is a hit.
Removal(q, t, r, n) == IF Hits(q[n], t) THEN SwapRemove(r, n) ELSE r

\* What fire_list leaves, hit by hit, is well defined.
LEMMA FiredUnfolds ==
    ASSUME NEW V, NEW q \in Seq(V), NEW t
    PROVE  /\ FiredDownTo(q, t)[Len(q)] = q
           /\ \A m \in 1 .. Len(q) :
                FiredDownTo(q, t)[m - 1] = Removal(q, t, FiredDownTo(q, t)[m], m)
<1> DEFINE n == Len(q)
           Full(g, p) == IF p = n THEN q
                         ELSE IF Hits(q[p + 1], t) THEN SwapRemove(g[p + 1], p + 1) ELSE g[p + 1]
           Body(g, p) == IF p = n THEN q ELSE Removal(q, t, g[p + 1], p + 1)
           Is(g, m) == g = [p \in m .. n |-> g[p]] /\ \A p \in m .. n : g[p] = Body(g, p)
           T == {m \in 0 .. n : \E g : Is(g, m)}
<1>1. n \in Nat
  OBVIOUS
<1>2. \A g, p : Full(g, p) = Body(g, p)
  BY DEF Removal
<1>3. \E g : g = [p \in 0 .. n |-> Full(g, p)]
  <2>1. n \in T
    <3> DEFINE g == [p \in n .. n |-> q]
    <3>1. \A p \in n .. n : p = n /\ g[p] = q
      BY <1>1
    <3>2. g = [p \in n .. n |-> g[p]]
      OBVIOUS
    <3> HIDE DEF g
    <3>3. Is(g, n)
      BY <3>1, <3>2
    <3>4. n \in 0 .. n
      BY <1>1
    <3> QED BY <3>3, <3>4
  <2>2. PICK m \in T : \A k \in T : m <= k
    <3>1. T \in SUBSET Nat
      BY <1>1
    <3> HIDE DEF T
    <3> QED BY <2>1, <3>1, Smallest
  <2>3. PICK g : Is(g, m)
    BY <2>2
  <2>4. m = 0
    <3>1. SUFFICES ASSUME m # 0 PROVE FALSE
      OBVIOUS
    <3>2. m \in 0 .. n /\ m - 1 \in 0 .. n /\ m - 1 # n /\ (m - 1) + 1 = m
      BY <3>1, <2>2, <1>1
    <3> DEFINE x == Removal(q, t, g[m], m)
               h == [p \in m - 1 .. n |-> IF p = m - 1 THEN x ELSE g[p]]
    <3>3. h = [p \in m - 1 .. n |-> h[p]]
      OBVIOUS
    <3>4. ASSUME NEW p \in m - 1 .. n PROVE h[p] = Body(h, p)
      <4>1. CASE p = m - 1
        <5>1. h[p] = x
          BY <4>1
        <5>2. h[m] = g[m]
          BY <3>2, <1>1
        <5> QED BY <5>1, <5>2, <4>1, <3>2
      <4>2. CASE p # m - 1
        <5>1. p \in m .. n
          BY <4>2, <3>2, <1>1
        <5>2. h[p] = g[p] /\ g[p] = Body(g, p)
          BY <5>1, <4>2, <2>3
        <5>3. p # n => h[p + 1] = g[p + 1]
          <6>1. p # n => p + 1 \in m - 1 .. n /\ p + 1 # m - 1
            BY <5>1, <3>2, <1>1
          <6> QED BY <6>1
        <5> HIDE DEF h
        <5> QED BY <5>2, <5>3
      <4> QED BY <4>1, <4>2
    <3> HIDE DEF h, Body
    <3>5. m - 1 \in T
      BY <3>2, <3>3, <3>4
    <3> HIDE DEF T
    <3> QED BY <3>5, <2>2, <3>2
  <2>5. g = [p \in 0 .. n |-> g[p]] /\ \A p \in 0 .. n : g[p] = Body(g, p)
    <3> HIDE DEF Body
    <3> QED BY <2>3, <2>4
  <2>6. [p \in 0 .. n |-> g[p]] = [p \in 0 .. n |-> Full(g, p)]
    BY <2>5, <1>2
  <2> HIDE DEF Full, Body
  <2>7. g = [p \in 0 .. n |-> Full(g, p)]
    BY <2>5, <2>6
  <2> QED BY <2>7
<1> DEFINE f == FiredDownTo(q, t)
<1>4. f = CHOOSE g : g = [p \in 0 .. n |-> Full(g, p)]
  BY DEF FiredDownTo
<1>5. f = [p \in 0 .. n |-> Full(f, p)]
  <2> HIDE DEF f, Full
  <2> QED BY <1>3, <1>4
<1>6. ASSUME NEW p \in 0 .. n PROVE f[p] = Body(f, p)
  <2>1. f[p] = Full(f, p)
    <3> HIDE DEF f, Full
    <3> QED BY <1>5
  <2> HIDE DEF f, Full, Body
  <2> QED BY <2>1, <1>2
<1> HIDE DEF f
<1>7. f[n] = q
  BY <1>1, <1>6
<1>8. ASSUME NEW m \in 1 .. n PROVE f[m - 1] = Removal(q, t, f[m], m)
  <2>1. m - 1 \in 0 .. n /\ m - 1 # n /\ (m - 1) + 1 = m
    BY <1>1
  <2> QED BY <1>6, <2>1
<1> QED BY <1>7, <1>8 DEF f

\* r holds the entries of q at the places in S, those up to m where they were.
Keeps(r, q, S, m) ==
    /\ r \in Seq({q[i] : i \in DOMAIN q}) /\ m <= Len(r)
    /\ \E f \in [1 .. Len(r) -> S] :
         /\ \A i, j \in 1 .. Len(r) : f[i] = f[j] => i = j
         /\ \A x \in S : \E i \in 1 .. Len(r) : f[i] = x
         /\ \A i \in 1 .. Len(r) : r[i] = q[f[i]]
         /\ \A i \in 1 .. m : f[i] = i

\* Removing the hit at m drops it, whatever the last entry is moved to.
LEMMA SwapRemoveKeeps ==
    ASSUME NEW V, NEW q \in Seq(V), NEW S \in SUBSET (1 .. Len(q)), NEW m \in 1 .. Len(q), m \in S,
           NEW r, Keeps(r, q, S, m)
    PROVE  Keeps(SwapRemove(r, m), q, S \ {m}, m - 1)
<1> DEFINE W == {q[i] : i \in DOMAIN q}
           s == SwapRemove(r, m)
           n == Len(r)
           l == n - 1
<1>1. r \in Seq(W) /\ n \in Nat /\ m \in Nat /\ m >= 1 /\ m <= n /\ DOMAIN r = 1 .. n /\ l \in Nat /\ l + 1 = n
  BY DEF Keeps
<1>2. PICK f \in [1 .. n -> S] :
         /\ \A i, j \in 1 .. n : f[i] = f[j] => i = j
         /\ \A x \in S : \E i \in 1 .. n : f[i] = x
         /\ \A i \in 1 .. n : r[i] = q[f[i]]
         /\ \A i \in 1 .. m : f[i] = i
  BY DEF Keeps
<1> DEFINE g == [i \in 1 .. l |-> IF i = m THEN f[n] ELSE f[i]]
<1> HIDE DEF W, n, l
<1>3. \A i \in 1 .. l : i \in 1 .. n /\ i # n
  BY <1>1
<1>4. n \in 1 .. n /\ m \in 1 .. n /\ f[m] = m
  BY <1>1, <1>2
<1>5. s = [i \in 1 .. l |-> IF i = m THEN r[n] ELSE r[i]]
  BY DEF SwapRemove, n, l
<1>6. s \in Seq(W) /\ Len(s) = l
  <2>1. \A i \in 1 .. n : r[i] \in W
    BY <1>1
  <2>2. s \in [1 .. l -> W]
    BY <1>3, <1>4, <1>5, <2>1
  <2>3. l \in Nat
    BY <1>1
  <2> HIDE DEF s
  <2> QED BY <2>2, <2>3
<1>7. \A i \in 1 .. l : g[i] \in S \ {m}
  <2> TAKE i \in 1 .. l
  <2>1. CASE i = m
    <3>1. n # m /\ f[n] # m
      BY <2>1, <1>2, <1>3, <1>4
    <3> QED BY <2>1, <3>1, <1>2, <1>4
  <2>2. CASE i # m
    <3>1. f[i] # m
      BY <2>2, <1>2, <1>3, <1>4
    <3> QED BY <2>2, <3>1, <1>2, <1>3
  <2> QED BY <2>1, <2>2
<1>8. \A i, j \in 1 .. l : g[i] = g[j] => i = j
  BY <1>2, <1>3, <1>4
<1>9. ASSUME NEW x \in S \ {m} PROVE \E i \in 1 .. l : g[i] = x
  <2>1. PICK i \in 1 .. n : f[i] = x
    BY <1>2
  <2>2. i # m
    BY <2>1, <1>4
  <2>3. CASE i = n
    <3>1. m \in 1 .. l
      BY <2>2, <2>3, <1>1
    <3>2. g[m] = x
      BY <3>1, <2>1, <2>3
    <3> QED BY <3>1, <3>2
  <2>4. CASE i # n
    <3>1. i \in 1 .. l
      BY <2>4, <1>1
    <3>2. g[i] = x
      BY <3>1, <2>1, <2>2
    <3> QED BY <3>1, <3>2
  <2> QED BY <2>3, <2>4
<1>10. \A i \in 1 .. l : s[i] = q[g[i]]
  BY <1>2, <1>3, <1>4, <1>5
<1>11. \A i \in 1 .. m - 1 : g[i] = i
  <2> TAKE i \in 1 .. m - 1
  <2>1. i \in 1 .. l /\ i # m /\ i \in 1 .. m
    BY <1>1
  <2> QED BY <2>1, <1>2
<1>12. g \in [1 .. l -> S \ {m}]
  BY <1>7
<1>13. m - 1 <= l
  BY <1>1
<1> HIDE DEF g, s
<1>14. \E h \in [1 .. l -> S \ {m}] :
          /\ \A i, j \in 1 .. l : h[i] = h[j] => i = j
          /\ \A x \in S \ {m} : \E i \in 1 .. l : h[i] = x
          /\ \A i \in 1 .. l : s[i] = q[h[i]]
          /\ \A i \in 1 .. m - 1 : h[i] = i
  BY <1>8, <1>9, <1>10, <1>11, <1>12
<1>15. Keeps(s, q, S \ {m}, m - 1)
  <2>1. s \in Seq({q[i] : i \in DOMAIN q})
    BY <1>6 DEF W
  <2>2. m - 1 <= Len(s)
    BY <1>6, <1>13
  <2> DEFINE Moved(k) == \E h \in [1 .. k -> S \ {m}] :
                           /\ \A i, j \in 1 .. k : h[i] = h[j] => i = j
                           /\ \A x \in S \ {m} : \E i \in 1 .. k : h[i] = x
                           /\ \A i \in 1 .. k : s[i] = q[h[i]]
                           /\ \A i \in 1 .. m - 1 : h[i] = i
  <2>3. Moved(l)
    BY <1>14
  <2>4. Moved(Len(s))
    <3> HIDE DEF Moved
    <3> QED BY <1>6, <2>3
  <2> QED BY <2>1, <2>2, <2>4 DEF Keeps
<1> QED BY <1>15 DEF s

\* What fire_list leaves are the entries that do not hit, each where it was or
\* where a removal has moved it.
LEMMA FiredKeeps ==
    ASSUME NEW V, NEW q \in Seq(V), NEW t
    PROVE  Keeps(Fired(q, t), q, {i \in 1 .. Len(q) : ~ Hits(q[i], t)}, 0)
<1> DEFINE n == Len(q)
           f == FiredDownTo(q, t)
           Stays(m) == {i \in 1 .. n : i <= m \/ ~ Hits(q[i], t)}
           T == {m \in 0 .. n : Keeps(f[m], q, Stays(m), m)}
<1>1. n \in Nat /\ DOMAIN q = 1 .. n
  OBVIOUS
<1>2. f[n] = q /\ \A m \in 1 .. n : f[m - 1] = Removal(q, t, f[m], m)
  BY FiredUnfolds
<1> HIDE DEF f
<1>3. n \in T
  <2>1. Stays(n) = 1 .. n
    BY <1>1
  <2> DEFINE g == [i \in 1 .. n |-> i]
  <2>2. q \in Seq({q[i] : i \in DOMAIN q})
    BY <1>1
  <2>3. /\ g \in [1 .. n -> 1 .. n] /\ \A i, j \in 1 .. n : g[i] = g[j] => i = j
        /\ \A x \in 1 .. n : \E i \in 1 .. n : g[i] = x
        /\ \A i \in 1 .. n : q[i] = q[g[i]]
        /\ \A i \in 1 .. n : g[i] = i
    OBVIOUS
  <2> HIDE DEF g
  <2>4. Keeps(q, q, 1 .. n, n)
    BY <1>1, <2>2, <2>3 DEF Keeps
  <2>5. Keeps(f[n], q, Stays(n), n)
    <3> HIDE DEF n, Stays
    <3> QED BY <1>2, <2>1, <2>4
  <2>6. n \in 0 .. n
    BY <1>1
  <2> HIDE DEF n, Stays
  <2> QED BY <2>5, <2>6
<1>4. PICK m \in T : \A k \in T : m <= k
  <2>1. T \in SUBSET Nat
    BY <1>1
  <2> HIDE DEF T
  <2> QED BY <1>3, <2>1, Smallest
<1>5. m = 0
  <2>1. SUFFICES ASSUME m # 0 PROVE FALSE
    OBVIOUS
  <2>2. m \in 1 .. n /\ m - 1 \in 0 .. n /\ Keeps(f[m], q, Stays(m), m)
    BY <2>1, <1>1, <1>4
  <2>3. CASE Hits(q[m], t)
    <3>1. Stays(m - 1) = Stays(m) \ {m} /\ m \in Stays(m) /\ Stays(m) \in SUBSET (1 .. n)
      BY <2>2, <2>3, <1>1
    <3>2. f[m - 1] = SwapRemove(f[m], m)
      BY <2>2, <2>3, <1>2 DEF Removal
    <3> HIDE DEF Stays
    <3>3. Keeps(f[m - 1], q, Stays(m - 1), m - 1)
      BY <2>2, <3>1, <3>2, SwapRemoveKeeps
    <3>4. m - 1 \in T
      BY <2>2, <3>3
    <3> HIDE DEF T
    <3> QED BY <3>4, <1>4, <2>2
  <2>4. CASE ~ Hits(q[m], t)
    <3>1. Stays(m - 1) = Stays(m)
      BY <2>2, <2>4, <1>1
    <3>2. f[m - 1] = f[m]
      BY <2>2, <2>4, <1>2 DEF Removal
    <3>3. Keeps(f[m], q, Stays(m), m - 1)
      <4>1. m - 1 <= m /\ \A i \in 1 .. m - 1 : i \in 1 .. m
        BY <2>2, <1>1
      <4>2. f[m] \in Seq({q[i] : i \in DOMAIN q}) /\ m <= Len(f[m]) /\ Len(f[m]) \in Nat
        <5> HIDE DEF Stays, n
        <5> QED BY <2>2 DEF Keeps
      <4>3. m - 1 <= Len(f[m])
        BY <4>2, <2>2, <1>1
      <4> HIDE DEF Stays, n
      <4> QED BY <2>2, <4>1, <4>2, <4>3 DEF Keeps
    <3>4. m - 1 \in T
      BY <2>2, <3>1, <3>2, <3>3
    <3> HIDE DEF T
    <3> QED BY <3>4, <1>4, <2>2
  <2> QED BY <2>3, <2>4
<1>6. Stays(0) = {i \in 1 .. n : ~ Hits(q[i], t)}
  BY <1>1
<1>7. Keeps(f[0], q, Stays(0), 0)
  BY <1>4, <1>5
<1> HIDE DEF Stays
<1> QED BY <1>6, <1>7 DEF Fired, f

\* Whether a trigger hits is a matter of its expression.
LEMMA FiredExact ==
    ASSUME NEW V, NEW q \in Seq(V), NEW t, NEW k \in DOMAIN q
    PROVE  Copies(Fired(q, t), q[k].rx) = IF Hits(q[k], t) THEN 0 ELSE Copies(q, q[k].rx)
<1> DEFINE rx == q[k].rx
           n == Len(q)
           r == Fired(q, t)
           S == {i \in 1 .. n : ~ Hits(q[i], t)}
           A == {i \in DOMAIN r : r[i].rx = rx}
           B == {i \in DOMAIN q : q[i].rx = rx}
<1>1. Keeps(r, q, S, 0)
  BY FiredKeeps
<1>2. PICK f \in [1 .. Len(r) -> S] :
         /\ \A i, j \in 1 .. Len(r) : f[i] = f[j] => i = j
         /\ \A x \in S : \E i \in 1 .. Len(r) : f[i] = x
         /\ \A i \in 1 .. Len(r) : r[i] = q[f[i]]
  <2> HIDE DEF r, S
  <2> QED BY <1>1 DEF Keeps
<1>3. DOMAIN r = 1 .. Len(r) /\ Len(r) \in Nat
  <2> HIDE DEF r, S
  <2> QED BY <1>1 DEF Keeps
<1>4. \A i \in DOMAIN q : q[i].rx = rx => (Hits(q[i], t) <=> Hits(q[k], t))
  BY DEF Hits
<1>5. DOMAIN q = 1 .. n /\ n \in Nat
  OBVIOUS
<1> HIDE DEF r
<1>6. CASE Hits(q[k], t)
  <2>1. A = {}
    <3> SUFFICES ASSUME NEW i \in A PROVE FALSE
      OBVIOUS
    <3>1. i \in 1 .. Len(r) /\ f[i] \in S /\ q[f[i]].rx = rx
      BY <1>2, <1>3
    <3>2. ~ Hits(q[f[i]], t) /\ f[i] \in DOMAIN q
      BY <3>1, <1>5
    <3> QED BY <3>1, <3>2, <1>4, <1>6
  <2>2. Cardinality(A) = 0
    BY <2>1, FS_EmptySet
  <2> QED BY <1>6, <2>2 DEF Copies, r
<1>7. CASE ~ Hits(q[k], t)
  <2>1. B \subseteq S
    BY <1>4, <1>5, <1>7
  <2>2. A = {i \in 1 .. Len(r) : f[i] \in B}
    BY <1>2, <1>3, <1>5
  <2> DEFINE g == [i \in A |-> f[i]]
  <2> HIDE DEF B, S
  <2>3. g \in [A -> B]
    BY <2>2
  <2>4. \A i, j \in A : g[i] = g[j] => i = j
    BY <2>2, <1>2
  <2>5. \A x \in B : \E i \in A : g[i] = x
    BY <2>1, <2>2, <1>2
  <2> HIDE DEF A, g
  <2>6. ExistsBijection(A, B)
    BY <2>3, <2>4, <2>5 DEF ExistsBijection, Bijection, Injection, Surjection, IsInjective
  <2>7. IsFiniteSet(A)
    <3>1. IsFiniteSet(1 .. Len(r)) /\ A \in SUBSET (1 .. Len(r))
      BY <1>3, <2>2, FS_Interval
    <3> QED BY <3>1, FS_Subset
  <2>8. Cardinality(A) = Cardinality(B)
    BY <2>6, <2>7, FS_Bijection
  <2> QED BY <1>7, <2>8 DEF Copies, A, B, r
<1> QED BY <1>6, <1>7

Trigger == [rx : Pattern]
Queued == single \in [Kinds -> Seq(Trigger)]

\* A kind that fires loses the triggers that hit, and the other kinds keep all.
Exact == \A k \in Kinds :
            Len(single'[k]) < Len(single[k]) =>
               \A i \in DOMAIN single[k] :
                  Copies(single'[k], single[k][i].rx) =
                     IF Hits(single[k][i], text') THEN 0 ELSE Copies(single[k], single[k][i].rx)

LEMMA FiredType ==
    ASSUME NEW V, NEW q \in Seq(V), NEW t
    PROVE  Fired(q, t) \in Seq(V)
<1> DEFINE r == Fired(q, t)
           W == {q[i] : i \in DOMAIN q}
<1>1. r \in Seq(W)
  <2> HIDE DEF r
  <2>1. Keeps(r, q, {i \in 1 .. Len(q) : ~ Hits(q[i], t)}, 0)
    BY FiredKeeps DEF r
  <2> QED BY <2>1 DEF Keeps
<1>2. W \subseteq V
  OBVIOUS
<1> HIDE DEF r, W
<1>3. r \in Seq(V)
  BY <1>1, <1>2
<1> QED BY <1>3 DEF r

LEMMA FireStep ==
    ASSUME Queued, NEW kind \in Kinds, single' = AfterFire(kind, text')
    PROVE  Queued' /\ Exact
<1>1. single'[kind] = Fired(single[kind], text') /\ \A k \in Kinds : k # kind => single'[k] = single[k]
  BY DEF AfterFire, Queued
<1>2. \A k \in Kinds : single[k] \in Seq(Trigger) /\ Len(single[k]) \in Nat
  BY DEF Queued
<1>3. Fired(single[kind], text') \in Seq(Trigger)
  BY <1>2, FiredType
<1>4. Queued'
  BY <1>3 DEF Queued, AfterFire
<1>5. ASSUME NEW k \in Kinds, Len(single'[k]) < Len(single[k]), NEW i \in DOMAIN single[k]
      PROVE  Copies(single'[k], single[k][i].rx) =
                IF Hits(single[k][i], text') THEN 0 ELSE Copies(single[k], single[k][i].rx)
  <2>1. k = kind
    BY <1>1, <1>2, <1>5
  <2> QED BY <1>1, <1>2, <2>1, FiredExact
<1> QED BY <1>4, <1>5 DEF Exact

LEMMA KeepStep ==
    ASSUME Queued, single' = single
    PROVE  Queued' /\ Exact
<1>1. \A k \in Kinds : Len(single[k]) \in Nat /\ single'[k] = single[k]
  BY DEF Queued
<1> QED BY <1>1 DEF Queued, Exact

LEMMA EnqueueStep == IInv /\ Queued /\ ActEnqueue => Queued' /\ Exact
<1> SUFFICES ASSUME IInv, Queued, ActEnqueue PROVE Queued' /\ Exact
  OBVIOUS
<1>1. CASE single' = single
  BY <1>1, KeepStep
<1>2. CASE single' = [single EXCEPT ![Act.kind] = Append(@, [rx |-> Act.rx])]
  <2>1. Act \in Action /\ Act.op = "enqueue"
    BY ActFacts DEF ActEnqueue, Acting, In
  <2>2. Act.kind \in Kinds /\ [rx |-> Act.rx] \in Trigger
    BY <2>1 DEF Action, Trigger
  <2> DEFINE kind == Act.kind
             trig == [rx |-> Act.rx]
  <2> HIDE DEF kind, trig
  <2>3. single' = [single EXCEPT ![kind] = Append(@, trig)] /\ kind \in Kinds /\ trig \in Trigger
    BY <1>2, <2>2 DEF kind, trig
  <2>4. Append(single[kind], trig) \in Seq(Trigger) /\ Len(Append(single[kind], trig)) = Len(single[kind]) + 1
    BY <2>3 DEF Queued
  <2>5. Queued'
    BY <2>3, <2>4 DEF Queued
  <2>6. \A k \in Kinds : Len(single[k]) \in Nat /\ single'[k] = IF k = kind THEN Append(single[k], trig) ELSE single[k]
    BY <2>3 DEF Queued
  <2>7. ASSUME NEW k \in Kinds PROVE ~ (Len(single'[k]) < Len(single[k]))
    <3>1. CASE k = kind
      <4>1. Len(single'[k]) = Len(single[k]) + 1 /\ Len(single[k]) \in Nat
        BY <2>4, <2>6, <3>1
      <4> QED BY <4>1
    <3>2. CASE k # kind
      BY <2>6, <3>2
    <3> QED BY <3>1, <3>2
  <2> QED BY <2>5, <2>7 DEF Exact
<1> QED BY <1>1, <1>2 DEF ActEnqueue

LEMMA ClearStep == Queued /\ ActClear => Queued'
<1> SUFFICES ASSUME Queued, ActClear PROVE Queued'
  OBVIOUS
<1>1. single' = [k \in Kinds |-> IF k = "on_leave" THEN single[k] ELSE <<>>]
  BY DEF ActClear
<1>2. \A k \in Kinds : single[k] \in Seq(Trigger) /\ <<>> \in Seq(Trigger)
  BY DEF Queued
<1> QED BY <1>1, <1>2 DEF Queued

LEMMA QueueStep == IInv /\ Queued /\ [Next]_vars => Queued' /\ (~ ActClear => Exact)
<1> SUFFICES ASSUME IInv, Queued, [Next]_vars PROVE Queued' /\ (~ ActClear => Exact)
  OBVIOUS
<1> USE DEF tree
<1>1. CASE UNCHANGED vars
  BY <1>1, KeepStep DEF vars
<1>2. CASE SkipHit \/ NoHit \/ StmtCall \/ StmtAction \/ EndFor \/ Again \/ Finish \/ Return
  BY <1>2, KeepStep DEF SkipHit, NoHit, StmtCall, StmtAction, EndFor, Again, Finish, Return
<1>3. CASE Hit
  <2>1. single' = AfterFire("before", text')
    BY <1>3 DEF Hit
  <2> QED BY <2>1, FireStep DEF Kinds
<1>4. CASE ActAdd \/ ActOpen
  <2>1. single' = AfterFire("on_add", text')
    BY <1>4 DEF ActAdd, ActOpen
  <2> QED BY <2>1, FireStep DEF Kinds
<1>5. CASE ActLeave \/ AutoLeave
  <2>1. single' = AfterFire("on_leave", text')
    BY <1>5 DEF ActLeave, AutoLeave
  <2> QED BY <2>1, FireStep DEF Kinds
<1>6. CASE ActCall \/ ActControl \/ ActFail
  BY <1>6, KeepStep DEF ActCall, ActControl, ActFail
<1>7. CASE EndBlock
  <2>1. single' = AfterFire("after", text') \/ single' = single
    BY <1>7 DEF EndBlock
  <2> QED BY <2>1, FireStep, KeepStep DEF Kinds
<1>8. CASE BackToBlock \/ BackToStmt
  BY <1>8, KeepStep DEF BackToBlock, BackToStmt
<1>9. CASE ActEnqueue
  BY <1>9, EnqueueStep
<1>10. CASE ActClear
  BY <1>10, ClearStep
<1> QED BY <1>1, <1>2, <1>3, <1>4, <1>5, <1>6, <1>7, <1>8, <1>9, <1>10 DEF Next, Scan, Block

\* When a kind fires, exactly the single-shot triggers that hit leave its list,
\* and every other one stays as often as it was there.
THEOREM SpecSingleShotExact == Spec => SingleShotExact
<1>1. Init => Queued
  <2> SUFFICES ASSUME Init PROVE Queued
    OBVIOUS
  <2>1. single = [k \in Kinds |-> <<>>] /\ <<>> \in Seq(Trigger)
    BY DEF Init
  <2> QED BY <2>1 DEF Queued
<1>2. IInv /\ Queued /\ [Next]_vars => Queued' /\ [~ ActClear => Exact]_vars
  BY QueueStep
<1> QED BY <1>1, <1>2, SpecIInv, PTL DEF Spec, SingleShotExact, Exact

=============================================================================
