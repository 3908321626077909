----------------------- MODULE StreamingRunner_proof -----------------------
(***************************************************************************)
(* Proofs for StreamingRunner, for every grammar and every input.          *)
(***************************************************************************)
EXTENDS StreamingRunner, TLAPS, SequenceTheorems, WellFoundedInduction

-----------------------------------------------------------------------------
(* Patterns                                                                *)

LEMMA Smallest ==
    ASSUME NEW T \in SUBSET Nat, T # {}
    PROVE  \E x \in T : \A y \in T : x <= y
<1>1. PICK x \in T : \A y \in T : ~ (<<y, x>> \in OpToRel(<, Nat))
  BY NatLessThanWellFounded, WFMin, Zenon
<1>2. \A y \in T : ~ (y < x)
  BY <1>1 DEF OpToRel
<1> QED BY <1>2

\* A match lies within the buffer: the greedy repetition has a last token.
LEMMA MatchLenBounded ==
    ASSUME NEW pat \in Pattern, NEW p \in Nat, NEW n \in Nat, p <= n
    PROVE  MatchLenIn(pat, p, n) \in -1 .. n - p
<1>1. CASE pat.kind = "word"
  <2>1. Len(pat.toks) \in Nat
    BY <1>1 DEF Pattern
  <2> QED BY <1>1, <2>1 DEF MatchLenIn
<1>2. CASE pat.kind = "run"
  <2> DEFINE ends == {e \in p + 1 .. n : \A j \in p + 1 .. e : input[j] = pat.toks[1]}
             Last(k) == p + k \in ends /\ p + k + 1 \notin ends
  <2>1. MatchLenIn(pat, p, n) = IF ends = {} THEN -1 ELSE CHOOSE k \in 1 .. n : Last(k)
    BY <1>2 DEF MatchLenIn
  <2>2. ends \subseteq p + 1 .. n
    OBVIOUS
  <2> HIDE DEF ends
  <2>3. ASSUME ends # {} PROVE \E k \in 1 .. n : Last(k)
    <3> DEFINE T == {x \in Nat : n - x \in ends}
    <3>1. T # {}
      <4>1. PICK e \in ends : TRUE
        BY <2>3
      <4>2. n - e \in Nat /\ n - (n - e) \in ends
        BY <4>1, <2>2
      <4> QED BY <4>2
    <3>2. PICK x \in T : \A y \in T : x <= y
      BY <3>1, Smallest
    <3>3. n - x \in ends /\ x \in Nat
      BY <3>2
    <3>4. n - x + 1 \notin ends
      <4>1. SUFFICES ASSUME n - x + 1 \in ends PROVE FALSE
        OBVIOUS
      <4>2. x - 1 \in Nat
        BY <4>1, <3>3, <2>2
      <4>3. x - 1 \in T
        BY <4>1, <4>2, <3>3
      <4> QED BY <4>3, <3>2, <3>3
    <3>5. n - x - p \in 1 .. n /\ p + (n - x - p) = n - x
      BY <3>3, <2>2
    <3>6. Last(n - x - p)
      BY <3>3, <3>4, <3>5
    <3> QED BY <3>5, <3>6
  <2>4. CASE ends # {}
    <3>1. PICK k \in 1 .. n : MatchLenIn(pat, p, n) = k /\ Last(k)
      <4> HIDE DEF Last
      <4> QED BY <2>1, <2>3, <2>4
    <3> QED BY <3>1, <2>2
  <2> QED BY <2>1, <2>4
<1> QED BY <1>1, <1>2 DEF Pattern

-----------------------------------------------------------------------------
(* The locals of step                                                      *)

RunRecord == [phase : {"loop", "scan", "acts"}, i : Nat, start : Nat,
              acts : Seq(Action), auto : Nat, ret : Int, next : BOOLEAN]

\* What every step keeps: a block belongs to a statement, the scopes that are
\* open are owed a leave, which only a running block owes.
IInv ==
    /\ stmts \in Seq(Statement) /\ input \in Seq(Token)
    /\ run \in RunRecord
    /\ run.i \in 1 .. Len(stmts) + 1
    /\ fed \in 0 .. Len(input) /\ pos \in Nat /\ depth \in Nat
    /\ call \in {"none", "step", "finish", "over"}
    /\ verdict \in {"none", "Stalled", "Finished"}
    /\ consumed = pos /\ run.start <= pos /\ pos <= fed
    /\ run.phase = "acts" => run.i \in 1 .. Len(stmts)
    /\ run.phase # "acts" => run.auto = 0
    /\ depth <= run.auto
    /\ call \in {"none", "over"} => run.phase = "loop"
    /\ eof => fed = Len(input)
    /\ call \in {"finish", "over"} => eof

\* The facts the steps of a call use.
LEMMA StatementFacts ==
    ASSUME IInv, run.i <= Len(stmts)
    PROVE  /\ Stmt \in Statement /\ run.i \in 1 .. Len(stmts)
           /\ Stmt.pat \in Pattern /\ Stmt.acts \in Seq(Action)
           /\ MatchLen(Stmt.pat) \in -1 .. fed - pos
<1>1. run.i \in 1 .. Len(stmts) /\ stmts \in Seq(Statement)
  BY DEF IInv, RunRecord
<1>2. Stmt \in Statement
  BY <1>1 DEF Stmt
<1>3. Stmt.pat \in Pattern /\ Stmt.acts \in Seq(Action)
  BY <1>2 DEF Statement
<1>4. pos \in Nat /\ fed \in Nat /\ pos <= fed
  BY DEF IInv
<1> QED BY <1>1, <1>2, <1>3, <1>4, MatchLenBounded DEF MatchLen

\* The facts about the state the steps use, one by one.
LEMMA Parts ==
    ASSUME IInv
    PROVE  /\ stmts \in Seq(Statement) /\ input \in Seq(Token)
           /\ Len(stmts) \in Nat /\ Len(input) \in Nat
           /\ run \in RunRecord
           /\ run.phase \in {"loop", "scan", "acts"} /\ run.i \in Nat /\ run.i >= 1 /\ run.start \in Nat
           /\ run.acts \in Seq(Action) /\ run.auto \in Nat /\ run.ret \in Int
           /\ fed \in Nat /\ pos \in Nat /\ depth \in Nat
BY DEF IInv, RunRecord

\* A step within a call, to a block of a statement or on in it.
LEMMA BlockStep ==
    ASSUME IInv, run.phase # "loop", UNCHANGED <<stmts, input, fed, eof, call, verdict>>,
           run' \in RunRecord, run'.phase = "acts", run'.i = run.i, run.i \in 1 .. Len(stmts),
           run'.start = run.start, pos' \in pos .. fed, consumed' = pos',
           depth' \in Nat, depth' <= run'.auto
    PROVE  IInv'
<1>1. run'.start <= pos'
  BY Parts DEF IInv
<1>2. call \notin {"none", "over"}
  BY DEF IInv
<1>3. fed \in 0 .. Len(input) /\ pos' \in Nat /\ pos' <= fed /\ (eof => fed = Len(input))
  BY Parts DEF IInv
<1> QED BY <1>1, <1>2, <1>3 DEF IInv

\* An action of a block that owes no more leaves than before.
LEMMA ActStep ==
    ASSUME IInv, run.phase = "acts", UNCHANGED <<stmts, input, fed, eof, call, verdict>>,
           run' \in RunRecord, run'.phase = run.phase, run'.i = run.i,
           run'.start = run.start, run'.auto = run.auto,
           pos' \in pos .. fed, consumed' = pos', depth' \in Nat, depth' <= depth
    PROVE  IInv'
<1>1. run.i \in 1 .. Len(stmts) /\ depth \in Nat /\ depth <= run.auto /\ run.auto \in Nat
  BY Parts DEF IInv
<1>2. depth' <= run'.auto
  BY <1>1
<1> QED BY <1>1, <1>2, BlockStep

\* The actions that are left of a block.
LEMMA RestFacts ==
    ASSUME IInv, run.acts # <<>>
    PROVE  /\ Act \in Action
           /\ Tail(run.acts) \in Seq(Action)
           /\ Rest \in RunRecord
           /\ Rest.phase = run.phase /\ Rest.i = run.i /\ Rest.start = run.start
           /\ Rest.auto = run.auto /\ Rest.ret = run.ret /\ Rest.next = run.next
<1>1. Act \in Action /\ Tail(run.acts) \in Seq(Action)
  BY Parts DEF Act
<1>2. run \in RunRecord
  BY Parts
<1>3. Rest \in RunRecord
  BY <1>1, <1>2 DEF Rest, RunRecord
<1>4. /\ Rest.phase = run.phase /\ Rest.i = run.i /\ Rest.start = run.start
      /\ Rest.auto = run.auto /\ Rest.ret = run.ret /\ Rest.next = run.next
  BY <1>2 DEF Rest, RunRecord
<1> QED BY <1>1, <1>3, <1>4

\* What a new StreamingRunner holds satisfies the invariant.
THEOREM InitIInv == Init => IInv
<1> SUFFICES ASSUME Init PROVE IInv
  OBVIOUS
<1>1. stmts \in Seq(Statement) /\ input \in Seq(Token)
  BY CasesAssumption DEF Init
<1>2. run \in RunRecord
  BY DEF Init, Locals, RunRecord
<1> QED BY <1>1, <1>2 DEF Init, IInv, Locals

LEMMA CallerIInv == IInv /\ Caller => IInv'
<1> SUFFICES ASSUME IInv, Caller PROVE IInv'
  OBVIOUS
<1> USE Parts DEF IInv, ctx
<1>0. Locals \in RunRecord
  BY DEF Locals, RunRecord
<1>1. CASE SetEof
  BY <1>1 DEF SetEof
<1>2. CASE Step
  BY <1>2, <1>0 DEF Step, Locals, buf
<1>3. CASE Finish
  BY <1>3, <1>0 DEF Finish, Locals
<1>4. ASSUME NEW n \in 1 .. Len(input), Feed(n) PROVE IInv'
  BY <1>4 DEF Feed
<1> QED BY <1>1, <1>2, <1>3, <1>4 DEF Caller

LEMMA EngineIInv == IInv /\ Engine => IInv'
<1> SUFFICES ASSUME IInv, Engine PROVE IInv'
  OBVIOUS
<1> USE DEF Running
<1>0. /\ Locals \in RunRecord /\ Locals.phase = "loop" /\ Locals.i = 1
      /\ Locals.start = 0 /\ Locals.auto = 0
  BY DEF Locals, RunRecord
<1>r. run \in RunRecord
  BY Parts
<1>p. pos \in Nat
  BY Parts
<1>1. CASE LoopEmpty
  BY <1>0, <1>1, Parts DEF IInv, LoopEmpty, ReturnWith, buf
<1>2. CASE LoopAgain
  <2>1. run' = [run EXCEPT !.phase = "scan", !.i = 1, !.start = pos]
    BY <1>2 DEF LoopAgain
  <2>2. /\ run' \in RunRecord /\ run'.phase = "scan" /\ run'.i = 1
        /\ run'.start = pos /\ run'.auto = run.auto
    BY <2>1, <1>r, <1>p DEF RunRecord
  <2> QED BY <1>2, <2>2, Parts DEF IInv, LoopAgain, buf, ctx
<1>e. ASSUME NEW acts \in Seq(Action), Enter(acts)
      PROVE  /\ run' \in RunRecord /\ run'.phase = "acts" /\ run'.i = run.i
             /\ run'.start = run.start /\ run'.auto = 0
  BY <1>e, <1>r DEF Enter, RunRecord
<1>3. CASE MatchHit
  <2>1. run.i <= Len(stmts) /\ Enter(Stmt.acts) /\ run.phase = "scan"
    BY <1>3 DEF MatchHit, Scanning
  <2>2. /\ run' \in RunRecord /\ run'.phase = "acts" /\ run'.i = run.i
        /\ run'.start = run.start /\ run'.auto = 0
    BY <2>1, StatementFacts, <1>e
  <2>3. /\ pos' = pos + MatchLen(Stmt.pat) /\ consumed' = consumed + MatchLen(Stmt.pat)
        /\ MatchLen(Stmt.pat) > 0
    BY <1>3 DEF MatchHit
  <2>4. UNCHANGED <<stmts, input, fed, eof, depth, call, verdict>>
    BY <1>3 DEF MatchHit, buf
  <2>5. /\ MatchLen(Stmt.pat) \in -1 .. fed - pos /\ run.i \in 1 .. Len(stmts)
    BY <2>1, StatementFacts
  <2>6. pos' \in pos .. fed /\ consumed' = pos' /\ depth' \in Nat /\ depth' <= run'.auto
    BY <2>1, <2>2, <2>3, <2>4, <2>5, Parts DEF IInv
  <2> QED BY <2>1, <2>2, <2>4, <2>5, <2>6, BlockStep
<1>4. CASE WhenHit
  <2>1. run.i <= Len(stmts) /\ Enter(Stmt.acts) /\ run.phase = "scan"
    BY <1>4 DEF WhenHit, Scanning
  <2>2. /\ run' \in RunRecord /\ run'.phase = "acts" /\ run'.i = run.i
        /\ run'.start = run.start /\ run'.auto = 0
    BY <2>1, StatementFacts, <1>e
  <2>3. UNCHANGED <<stmts, input, fed, eof, pos, consumed, depth, call, verdict>>
    BY <1>4 DEF WhenHit, buf
  <2>4. /\ run.i \in 1 .. Len(stmts) /\ pos' \in pos .. fed /\ consumed' = pos'
        /\ depth' \in Nat /\ depth' <= run'.auto
    BY <2>1, <2>2, <2>3, Parts DEF IInv
  <2> QED BY <2>1, <2>2, <2>3, <2>4, BlockStep
<1>5. CASE SkipHit
  <2>1. run' = [run EXCEPT !.phase = "loop"]
    BY <1>5 DEF SkipHit, Goto
  <2>2. run' \in RunRecord /\ run' = [run EXCEPT !.phase = "loop"]
    BY <2>1, <1>r DEF RunRecord
  <2>3. run'.phase = "loop" /\ run'.i = run.i /\ run'.start = run.start /\ run'.auto = run.auto
    BY <2>1, <1>r DEF RunRecord
  <2>4. /\ pos' = pos + MatchLen(Stmt.pat) /\ consumed' = consumed + MatchLen(Stmt.pat)
        /\ MatchLen(Stmt.pat) > 0 /\ run.i <= Len(stmts) /\ run.phase = "scan"
        /\ UNCHANGED <<stmts, input, fed, eof, depth, call, verdict>>
    BY <1>5 DEF SkipHit, Scanning, buf
  <2> QED BY <2>2, <2>3, <2>4, Parts, StatementFacts DEF IInv
<1>6. CASE ActionStmt
  <2>1. run.i <= Len(stmts) /\ Enter(Stmt.acts) /\ run.phase = "scan"
    BY <1>6 DEF ActionStmt, Scanning
  <2>2. /\ run' \in RunRecord /\ run'.phase = "acts" /\ run'.i = run.i
        /\ run'.start = run.start /\ run'.auto = 0
    BY <2>1, StatementFacts, <1>e
  <2>3. UNCHANGED <<stmts, input, fed, eof, pos, consumed, depth, call, verdict>>
    BY <1>6 DEF ActionStmt, buf, ctx
  <2>4. /\ run.i \in 1 .. Len(stmts) /\ pos' \in pos .. fed /\ consumed' = pos'
        /\ depth' \in Nat /\ depth' <= run'.auto
    BY <2>1, <2>2, <2>3, Parts DEF IInv
  <2> QED BY <2>1, <2>2, <2>3, <2>4, BlockStep
<1>7. CASE NoHit
  <2>1. run' = [run EXCEPT !.i = @ + 1]
    BY <1>7 DEF NoHit
  <2>2. run' \in RunRecord
    BY <2>1, <1>r DEF RunRecord
  <2>3. run'.phase = run.phase /\ run'.i = run.i + 1 /\ run'.start = run.start /\ run'.auto = run.auto
    BY <2>1, <1>r DEF RunRecord
  <2>4. /\ run.i <= Len(stmts) /\ run.phase = "scan"
        /\ UNCHANGED <<stmts, input, fed, eof, pos, consumed, depth, call, verdict>>
    BY <1>7 DEF NoHit, Scanning, buf, ctx
  <2> QED BY <2>2, <2>3, <2>4, Parts DEF IInv
<1>8. CASE NoneMatched
  BY <1>0, <1>8, Parts DEF IInv, NoneMatched, ReturnWith, buf
<1>9. CASE ActAdd
  <2>1. run' = Rest /\ run.acts # <<>> /\ run.phase = "acts"
    BY <1>9 DEF ActAdd, Acting
  <2>2. UNCHANGED <<stmts, input, fed, eof, pos, consumed, depth, call, verdict>>
    BY <1>9 DEF ActAdd, buf
  <2>3. pos' \in pos .. fed /\ consumed' = pos' /\ depth' \in Nat /\ depth' <= depth
    BY <2>2, Parts DEF IInv
  <2> QED BY <2>1, <2>2, <2>3, RestFacts, ActStep
<1>10. CASE ActOpen
  <2>1. run' = [Rest EXCEPT !.auto = @ + 1] /\ run.acts # <<>> /\ run.phase = "acts"
    BY <1>10 DEF ActOpen, Acting
  <2>2. Rest \in RunRecord
    BY <2>1, RestFacts
  <2>3. run' \in RunRecord
    BY <2>1, <2>2 DEF RunRecord
  <2>4. /\ run'.phase = Rest.phase /\ run'.i = Rest.i /\ run'.start = Rest.start
        /\ run'.auto = Rest.auto + 1
    BY <2>1, <2>2 DEF RunRecord
  <2>5. depth' = depth + 1 /\ UNCHANGED <<stmts, input, fed, eof, pos, consumed, call, verdict>>
    BY <1>10 DEF ActOpen, buf
  <2>6. /\ run'.phase = "acts" /\ run'.i = run.i /\ run'.start = run.start
        /\ run'.auto = run.auto + 1
    BY <2>1, <2>4, RestFacts
  <2>7. pos' \in pos .. fed /\ consumed' = pos' /\ depth' \in Nat /\ depth' <= run'.auto
    BY <2>5, <2>6, Parts DEF IInv
  <2>8. run.i \in 1 .. Len(stmts)
    BY <2>1 DEF IInv
  <2> QED BY <2>1, <2>3, <2>5, <2>6, <2>7, <2>8, BlockStep
<1>11. CASE ActLeave
  <2>1. run' = Rest /\ run.acts # <<>> /\ run.phase = "acts"
    BY <1>11 DEF ActLeave, Acting
  <2>2. /\ depth' = Leave(depth)
        /\ UNCHANGED <<stmts, input, fed, eof, pos, consumed, call, verdict>>
    BY <1>11 DEF ActLeave, buf
  <2>3. depth' \in Nat /\ depth' <= depth
    BY <2>2, Parts DEF Leave
  <2>4. pos' \in pos .. fed /\ consumed' = pos' /\ depth' \in Nat /\ depth' <= depth
    BY <2>2, <2>3, Parts DEF IInv
  <2> QED BY <2>1, <2>2, <2>4, RestFacts, ActStep
<1>12. CASE ActControl
  <2> DEFINE levels == IF Act.op = "return" THEN Act.levels ELSE Rest.ret
             next == Rest.next \/ Act.op = "next"
  <2>1. /\ run' = [Rest EXCEPT !.ret = levels, !.next = next]
        /\ run.acts # <<>> /\ run.phase = "acts"
    BY <1>12 DEF ActControl, Acting
  <2>2. Rest \in RunRecord
    BY <2>1, RestFacts
  <2>3. levels \in Int
    <3>1. Act \in Action /\ Rest.ret \in Int
      BY <2>1, <2>2, RestFacts DEF RunRecord
    <3> QED BY <3>1 DEF Action
  <2>4. next \in BOOLEAN
    OBVIOUS
  <2> HIDE DEF levels, next
  <2>5. run' \in RunRecord
    BY <2>1, <2>2, <2>3, <2>4 DEF RunRecord
  <2>6. /\ run'.phase = Rest.phase /\ run'.i = Rest.i /\ run'.start = Rest.start
        /\ run'.auto = Rest.auto
    BY <2>1, <2>2 DEF RunRecord
  <2>7. UNCHANGED <<stmts, input, fed, eof, pos, consumed, depth, call, verdict>>
    BY <1>12 DEF ActControl, buf, ctx
  <2>8. pos' \in pos .. fed /\ consumed' = pos' /\ depth' \in Nat /\ depth' <= depth
    BY <2>7, Parts DEF IInv
  <2> QED BY <2>1, <2>5, <2>6, <2>7, <2>8, RestFacts, ActStep
<1>13. CASE ActRun
  <2> DEFINE n == IF MatchLen(Act.pat) > 0 THEN MatchLen(Act.pat) ELSE 0
  <2>1. run' = Rest /\ run.acts # <<>> /\ run.phase = "acts" /\ Act.op = "run"
    BY <1>13 DEF ActRun, Acting
  <2>2. /\ pos' = pos + n /\ consumed' = consumed + n
    BY <1>13 DEF ActRun
  <2>3. UNCHANGED <<stmts, input, fed, eof, depth, call, verdict>>
    BY <1>13 DEF ActRun, buf
  <2>4. n \in 0 .. fed - pos
    <3>1. Act \in Action
      BY <2>1, RestFacts
    <3>2. Act.pat \in Pattern
      BY <3>1, <2>1 DEF Action
    <3>3. pos \in Nat /\ fed \in Nat /\ pos <= fed
      BY DEF IInv
    <3> QED BY <3>2, <3>3, MatchLenBounded DEF MatchLen
  <2> HIDE DEF n
  <2>5. pos' \in pos .. fed /\ consumed' = pos' /\ depth' \in Nat /\ depth' <= depth
    BY <2>2, <2>3, <2>4, Parts DEF IInv
  <2> QED BY <2>1, <2>3, <2>5, RestFacts, ActStep
<1>14. CASE ActEnqueue
  <2>1. run' = Rest /\ run.acts # <<>> /\ run.phase = "acts"
    BY <1>14 DEF ActEnqueue, Acting
  <2>2. UNCHANGED <<stmts, input, fed, eof, pos, consumed, depth, call, verdict>>
    BY <1>14 DEF ActEnqueue, buf
  <2>3. pos' \in pos .. fed /\ consumed' = pos' /\ depth' \in Nat /\ depth' <= depth
    BY <2>2, Parts DEF IInv
  <2> QED BY <2>1, <2>2, <2>3, RestFacts, ActStep
<1>15. CASE AutoLeave
  <2>1. run' = [run EXCEPT !.auto = @ - 1] /\ run.phase = "acts" /\ run.auto > 0
    BY <1>15 DEF AutoLeave, ActionsDone
  <2>2. run.auto - 1 \in Nat
    BY <2>1, Parts
  <2>3. run' \in RunRecord
    BY <2>1, <2>2, <1>r DEF RunRecord
  <2>4. /\ run'.phase = run.phase /\ run'.i = run.i /\ run'.start = run.start
        /\ run'.auto = run.auto - 1
    BY <2>1, <1>r DEF RunRecord
  <2>5. /\ depth' = Leave(depth)
        /\ UNCHANGED <<stmts, input, fed, eof, pos, consumed, call, verdict>>
    BY <1>15 DEF AutoLeave, buf
  <2>6. depth' \in Nat /\ depth' <= run.auto - 1
    BY <2>1, <2>5, Parts DEF Leave, IInv
  <2>7. /\ run.i \in 1 .. Len(stmts) /\ depth' <= run'.auto
        /\ pos' \in pos .. fed /\ consumed' = pos'
    BY <2>1, <2>4, <2>5, <2>6, Parts DEF IInv
  <2> QED BY <2>1, <2>3, <2>4, <2>5, <2>6, <2>7, BlockStep
<1>16. CASE EndByReturn
  BY <1>0, <1>16, Parts DEF IInv, EndByReturn, ActionsDone, ReturnWith, buf
<1>17. CASE EndBlock
  <2> DEFINE again == Stmt.kind # "action" \/ run.next \/ pos > run.start
  <2>1. run.phase = "acts" /\ run.auto = 0
    BY <1>17 DEF EndBlock, ActionsDone
  <2>2. UNCHANGED <<stmts, input, fed, eof, pos, consumed, depth, call, verdict>>
    BY <1>17 DEF EndBlock, buf
  <2>3. CASE again
    <3>1. run' = [run EXCEPT !.phase = "loop"]
      BY <1>17, <2>3 DEF EndBlock
    <3>2. run' \in RunRecord
      BY <3>1, <1>r DEF RunRecord
    <3>3. /\ run'.phase = "loop" /\ run'.i = run.i /\ run'.start = run.start
          /\ run'.auto = run.auto
      BY <3>1, <1>r DEF RunRecord
    <3> QED BY <2>1, <2>2, <3>2, <3>3, Parts DEF IInv
  <2>4. CASE ~again
    <3> DEFINE r == [run EXCEPT !.phase = "scan"]
    <3>0. r \in RunRecord /\ r.i = run.i
      BY <1>r DEF RunRecord
    <3>1. run' = [run EXCEPT !.phase = "scan", !.i = @ + 1]
      BY <1>17, <2>4 DEF EndBlock
    <3>2. run' \in RunRecord
      <4>1. run' = [r EXCEPT !.i = @ + 1]
        BY <3>1, <1>r DEF RunRecord
      <4>2. r \in RunRecord
        BY <3>0
      <4> HIDE DEF r
      <4> QED BY <4>1, <4>2 DEF RunRecord
    <3>3. /\ run'.phase = "scan" /\ run'.i = run.i + 1 /\ run'.start = run.start
          /\ run'.auto = run.auto
      BY <3>1, <1>r DEF RunRecord
    <3> QED BY <2>1, <2>2, <3>2, <3>3, Parts DEF IInv
  <2> QED BY <2>3, <2>4
<1> QED BY <1>1, <1>2, <1>3, <1>4, <1>5, <1>6, <1>7, <1>8, <1>9, <1>10, <1>11,
           <1>12, <1>13, <1>14, <1>15, <1>16, <1>17 DEF Engine

LEMMA StutterIInv == IInv /\ UNCHANGED vars => IInv'
BY DEF IInv, vars, buf, ctx

\* Whatever the caller feeds and whatever blocks do, the position lies in the
\* buffer, the totals follow it, and a block that runs owes the leaves of the
\* scopes it opened.
THEOREM SpecIInv == Spec => []IInv
<1>1. IInv /\ [Next]_vars => IInv'
  BY CallerIInv, EngineIInv, StutterIInv DEF Next
<1> QED BY InitIInv, <1>1, PTL DEF Spec

-----------------------------------------------------------------------------
(* Totals and scopes                                                       *)

\* The flags of the engine are Booleans.
Flags == eof \in BOOLEAN /\ error \in BOOLEAN /\ failed \in BOOLEAN

LEMMA SpecFlags == Spec => []Flags
<1>1. Init => Flags
  BY DEF Init, Flags
<1>2. Flags /\ Caller => Flags'
  BY Zenon DEF Flags, Caller, SetEof, Step, Finish, Feed, buf, ctx, hist
<1>3. Flags /\ Engine => Flags'
  <2> SUFFICES ASSUME Flags, Engine PROVE Flags'
    OBVIOUS
  <2> USE DEF Flags, buf, ctx, hist
  <2>1. CASE LoopEmpty \/ NoneMatched \/ EndByReturn
    BY <2>1 DEF LoopEmpty, NoneMatched, EndByReturn
  <2>2. CASE LoopAgain \/ NoHit \/ ActionStmt \/ WhenHit
    BY <2>2 DEF LoopAgain, NoHit, ActionStmt, WhenHit
  <2>3. CASE MatchHit \/ SkipHit
    BY <2>3 DEF MatchHit, SkipHit, Recorded
  <2>4. CASE ActAdd \/ ActOpen \/ ActLeave
    BY <2>4 DEF ActAdd, ActOpen, ActLeave
  <2>5. CASE ActControl \/ ActRun \/ ActEnqueue
    BY <2>5 DEF ActControl, ActRun, ActEnqueue
  <2>6. CASE AutoLeave \/ EndBlock
    BY <2>6 DEF AutoLeave, EndBlock
  <2> QED BY <2>1, <2>2, <2>3, <2>4, <2>5, <2>6 DEF Engine
<1>4. Flags /\ UNCHANGED vars => Flags'
  BY DEF Flags, vars, buf, ctx, hist
<1>5. Flags /\ [Next]_vars => Flags'
  BY <1>2, <1>3, <1>4 DEF Next
<1> QED BY <1>1, <1>5, PTL DEF Spec

\* However the input is cut into chunks and whatever the grammar runs, the total
\* the events report is the position in the buffer.
THEOREM SpecConsumedIsPosition == Spec => []ConsumedIsPosition
<1>1. IInv /\ Flags => ConsumedIsPosition
  <2> SUFFICES ASSUME IInv, Flags PROVE ConsumedIsPosition
    OBVIOUS
  <2>1. {eof, error, failed} \subseteq BOOLEAN
    BY DEF Flags
  <2>2. {pos, consumed, depth, run.auto} \subseteq Nat
    BY Parts DEF IInv
  <2> QED BY <2>1, <2>2, Parts DEF IInv, ConsumedIsPosition, TypeOK
<1> QED BY <1>1, SpecIInv, SpecFlags, PTL

\* Between two calls of step the cursor is at the root.
THEOREM SpecScopesClosed == Spec => []ScopesClosed
<1>1. IInv => ScopesClosed
  BY Parts DEF IInv, ScopesClosed
<1> QED BY <1>1, SpecIInv, PTL

-----------------------------------------------------------------------------
(* Stalls                                                                  *)

\* Statement i has nothing to do at the position.
Idle(i) == /\ stmts[i].kind \in {"match", "skip"} => MatchLen(stmts[i].pat) <= 0
           /\ stmts[i].kind = "when" => MatchLen(stmts[i].pat) < 0

\* The scan has left idle statements behind, and nothing has been consumed since
\* it began; an action statement may consume, but then the scan begins again.
ScanInv ==
    /\ run.phase = "scan" => run.start = pos
    /\ (\/ run.phase = "scan"
        \/ run.phase = "acts" /\ Stmt.kind = "action" /\ run.start = pos) =>
          \A i \in 1 .. run.i - 1 : Idle(i)

\* What was idle stays idle while nothing is fed or consumed.
LEMMA IdleKept ==
    ASSUME UNCHANGED <<stmts, input, pos, fed>>, NEW i
    PROVE  Idle(i)' <=> Idle(i)
BY DEF Idle, MatchLen, MatchLenIn

\* A step that does not move the scan.
LEMMA ScanKept ==
    ASSUME ScanInv, UNCHANGED <<stmts, input, pos, fed>>,
           run'.phase = run.phase, run'.i = run.i, run'.start = run.start
    PROVE  ScanInv'
<1>1. \A i : Idle(i)' <=> Idle(i)
  BY IdleKept
<1>2. Stmt' = Stmt
  BY DEF Stmt
<1> HIDE DEF Idle
<1> QED BY <1>1, <1>2 DEF ScanInv

\* A step that ends the scan.
LEMMA ScanEnds == ASSUME run'.phase = "loop" PROVE ScanInv'
BY DEF ScanInv

LEMMA ScanInvStep == IInv /\ ScanInv /\ [Next]_vars => ScanInv'
<1> SUFFICES ASSUME IInv, ScanInv, [Next]_vars PROVE ScanInv'
  OBVIOUS
<1> USE DEF Running
<1>r. run \in RunRecord
  BY Parts
<1>p. pos \in Nat
  BY Parts
<1>l. Locals.phase = "loop"
  BY DEF Locals
<1>0. CASE UNCHANGED vars
  BY <1>0, ScanKept DEF vars, buf, ctx
<1>1. CASE Caller
  <2>1. CASE SetEof
    BY <2>1, ScanKept DEF SetEof, ctx
  <2>2. CASE Step \/ Finish
    BY <2>2, <1>l, ScanEnds DEF Step, Finish
  <2>3. ASSUME NEW n \in 1 .. Len(input), Feed(n) PROVE ScanInv'
    <3>1. run' = run /\ call = "none"
      BY <2>3 DEF Feed
    <3>2. run'.phase = "loop"
      BY <3>1 DEF IInv
    <3> QED BY <3>2, ScanEnds
  <2> QED BY <1>1, <2>1, <2>2, <2>3 DEF Caller
<1>2. CASE LoopEmpty \/ NoneMatched \/ EndByReturn
  BY <1>2, <1>l, ScanEnds DEF LoopEmpty, NoneMatched, EndByReturn, ReturnWith
<1>3. CASE LoopAgain
  <2>1. run' = [run EXCEPT !.phase = "scan", !.i = 1, !.start = pos] /\ pos' = pos
    BY <1>3 DEF LoopAgain, ctx
  <2>2. run'.phase = "scan" /\ run'.i = 1 /\ run'.start = pos
    BY <2>1, <1>r, <1>p DEF RunRecord
  <2> QED BY <2>1, <2>2 DEF ScanInv
<1>4. CASE SkipHit
  <2>1. run' = [run EXCEPT !.phase = "loop"]
    BY <1>4 DEF SkipHit, Goto
  <2>2. run'.phase = "loop"
    BY <2>1, <1>r DEF RunRecord
  <2> QED BY <2>2, ScanEnds
<1>5. CASE MatchHit \/ WhenHit
  <2>1. Stmt.kind # "action" /\ run'.phase = "acts" /\ run'.i = run.i
    BY <1>5 DEF MatchHit, WhenHit, Scanning, Enter
  <2>2. stmts' = stmts
    BY <1>5 DEF MatchHit, WhenHit
  <2>3. Stmt'.kind # "action"
    BY <2>1, <2>2 DEF Stmt
  <2> QED BY <2>1, <2>3 DEF ScanInv
<1>6. CASE ActionStmt
  <2>1. /\ run'.phase = "acts" /\ run'.i = run.i /\ run'.start = run.start
        /\ run.phase = "scan"
    BY <1>6 DEF ActionStmt, Scanning, Enter
  <2>2. UNCHANGED <<stmts, input, pos, fed>>
    BY <1>6 DEF ActionStmt, buf, ctx
  <2>3. \A i : Idle(i)' <=> Idle(i)
    BY <2>2, IdleKept
  <2> HIDE DEF Idle
  <2> QED BY <2>1, <2>2, <2>3 DEF ScanInv
<1>7. CASE NoHit
  <2>1. run' = [run EXCEPT !.i = @ + 1] /\ run.phase = "scan"
    BY <1>7 DEF NoHit, Scanning
  <2>2. run'.phase = run.phase /\ run'.i = run.i + 1 /\ run'.start = run.start
    BY <2>1, <1>r DEF RunRecord
  <2>3. UNCHANGED <<stmts, input, pos, fed>>
    BY <1>7 DEF NoHit, buf, ctx
  <2>4. \A i : Idle(i)' <=> Idle(i)
    BY <2>3, IdleKept
  <2>5. Idle(run.i)
    BY <1>7 DEF NoHit, Scanning, Idle, Stmt
  <2>6. run.i \in Nat
    BY Parts
  <2> HIDE DEF Idle
  <2>7. \A i \in 1 .. run.i : Idle(i)
    BY <2>1, <2>5, <2>6 DEF ScanInv
  <2> QED BY <2>1, <2>2, <2>3, <2>4, <2>6, <2>7 DEF ScanInv
<1>8. CASE ActAdd \/ ActLeave \/ ActEnqueue
  <2>1. run' = Rest /\ run.acts # <<>>
    BY <1>8 DEF ActAdd, ActLeave, ActEnqueue, Acting
  <2>2. UNCHANGED <<stmts, input, pos, fed>>
    BY <1>8 DEF ActAdd, ActLeave, ActEnqueue, buf
  <2> QED BY <2>1, <2>2, RestFacts, ScanKept
<1>9. CASE ActOpen
  <2>1. run' = [Rest EXCEPT !.auto = @ + 1] /\ run.acts # <<>>
    BY <1>9 DEF ActOpen, Acting
  <2>2. Rest \in RunRecord
    BY <2>1, RestFacts
  <2>3. run'.phase = Rest.phase /\ run'.i = Rest.i /\ run'.start = Rest.start
    BY <2>1, <2>2 DEF RunRecord
  <2>4. UNCHANGED <<stmts, input, pos, fed>>
    BY <1>9 DEF ActOpen, buf
  <2> QED BY <2>1, <2>3, <2>4, RestFacts, ScanKept
<1>10. CASE ActControl
  <2> DEFINE levels == IF Act.op = "return" THEN Act.levels ELSE Rest.ret
             next == Rest.next \/ Act.op = "next"
  <2>1. run' = [Rest EXCEPT !.ret = levels, !.next = next] /\ run.acts # <<>>
    BY <1>10 DEF ActControl, Acting
  <2> HIDE DEF levels, next
  <2>2. Rest \in RunRecord
    BY <2>1, RestFacts
  <2>3. run'.phase = Rest.phase /\ run'.i = Rest.i /\ run'.start = Rest.start
    BY <2>1, <2>2 DEF RunRecord
  <2>4. UNCHANGED <<stmts, input, pos, fed>>
    BY <1>10 DEF ActControl, buf, ctx
  <2> QED BY <2>1, <2>3, <2>4, RestFacts, ScanKept
<1>11. CASE ActRun
  <2> DEFINE n == IF MatchLen(Act.pat) > 0 THEN MatchLen(Act.pat) ELSE 0
  <2>1. run' = Rest /\ run.acts # <<>> /\ run.phase = "acts" /\ Act.op = "run"
    BY <1>11 DEF ActRun, Acting
  <2>2. pos' = pos + n /\ UNCHANGED <<stmts, input, fed>>
    BY <1>11 DEF ActRun, buf
  <2>3. n \in Nat
    <3>1. Act \in Action
      BY <2>1, RestFacts
    <3>2. Act.pat \in Pattern
      BY <3>1, <2>1 DEF Action
    <3>3. pos \in Nat /\ fed \in Nat /\ pos <= fed
      BY DEF IInv
    <3> QED BY <3>2, <3>3, MatchLenBounded DEF MatchLen
  <2> HIDE DEF n
  <2>4. CASE n = 0
    BY <2>1, <2>2, <2>4, <1>p, RestFacts, ScanKept
  <2>5. CASE n # 0
    <3>1. pos' > run.start
      BY <2>2, <2>3, <2>5, Parts DEF IInv
    <3>2. run'.phase = "acts" /\ run'.start # pos'
      BY <2>1, <3>1, RestFacts, Parts
    <3> QED BY <3>2 DEF ScanInv
  <2> QED BY <2>4, <2>5
<1>12. CASE AutoLeave
  <2>1. run' = [run EXCEPT !.auto = @ - 1]
    BY <1>12 DEF AutoLeave
  <2>2. run'.phase = run.phase /\ run'.i = run.i /\ run'.start = run.start
    BY <2>1, <1>r DEF RunRecord
  <2>3. UNCHANGED <<stmts, input, pos, fed>>
    BY <1>12 DEF AutoLeave, buf
  <2> QED BY <2>2, <2>3, ScanKept
<1>13. CASE EndBlock
  <2> DEFINE again == Stmt.kind # "action" \/ run.next \/ pos > run.start
  <2>1. CASE again
    <3>1. run' = [run EXCEPT !.phase = "loop"]
      BY <1>13, <2>1 DEF EndBlock
    <3>2. run'.phase = "loop"
      BY <3>1, <1>r DEF RunRecord
    <3> QED BY <3>2, ScanEnds
  <2>2. CASE ~again
    <3>1. run' = [run EXCEPT !.phase = "scan", !.i = @ + 1] /\ run.phase = "acts"
      BY <1>13, <2>2 DEF EndBlock, ActionsDone
    <3>2. run'.phase = "scan" /\ run'.i = run.i + 1 /\ run'.start = run.start
      BY <3>1, <1>r DEF RunRecord
    <3>3. UNCHANGED <<stmts, input, pos, fed>>
      BY <1>13 DEF EndBlock, buf
    <3>4. \A i : Idle(i)' <=> Idle(i)
      BY <3>3, IdleKept
    <3>5. Stmt.kind = "action" /\ run.start = pos
      BY <2>2, Parts DEF IInv
    <3>6. Idle(run.i)
      BY <3>5 DEF Idle, Stmt
    <3>7. run.i \in Nat
      BY Parts
    <3> HIDE DEF Idle
    <3>8. \A i \in 1 .. run.i : Idle(i)
      BY <3>1, <3>5, <3>6, <3>7 DEF ScanInv
    <3> QED BY <3>2, <3>3, <3>4, <3>5, <3>7, <3>8 DEF ScanInv
  <2> QED BY <2>1, <2>2
<1> QED BY <1>0, <1>1, <1>2, <1>3, <1>4, <1>5, <1>6, <1>7, <1>8, <1>9, <1>10,
           <1>11, <1>12, <1>13 DEF Next, Engine

\* Only the two ends of the loop report a stall, with nothing left or nothing
\* that applies.
LEMMA StallStep ==
    ASSUME IInv, ScanInv, [Next]_vars, verdict' = "Stalled", call = "step", call' = "none"
    PROVE  pos = fed \/ \A i \in DOMAIN stmts : Idle(i)
<1>1. LoopEmpty \/ NoneMatched \/ EndByReturn
  BY DEF Next, Caller, Engine, SetEof, Step, Finish, Feed, LoopAgain, MatchHit, WhenHit,
         SkipHit, ActionStmt, NoHit, ActAdd, ActOpen, ActLeave, ActControl, ActRun,
         ActEnqueue, AutoLeave, EndBlock, vars
<1>2. ~ EndByReturn
  BY DEF EndByReturn, ReturnWith
<1>3. CASE LoopEmpty
  BY <1>3, Parts DEF LoopEmpty, IInv
<1>4. CASE NoneMatched
  <2>1. run.phase = "scan" /\ run.i > Len(stmts)
    BY <1>4 DEF NoneMatched, Running
  <2>2. DOMAIN stmts = 1 .. Len(stmts)
    BY Parts
  <2> QED BY <2>1, <2>2, Parts DEF ScanInv
<1> QED BY <1>1, <1>2, <1>3, <1>4

\* A pass that has matched nothing so far has tried every statement before the
\* current one, at the position it started from.
THEOREM SpecScanInv == Spec => []ScanInv
<1>1. Init => ScanInv
  BY DEF Init, Locals, ScanInv
<1> QED BY <1>1, SpecIInv, ScanInvStep, PTL DEF Spec

\* When step reports Stalled, the buffer is used up or no statement applies.
THEOREM SpecStalledIsStuck == Spec => StalledIsStuck
<1> DEFINE Stuck == verdict' = "Stalled" /\ call = "step" /\ call' = "none" =>
                       pos = fed \/ \A i \in DOMAIN stmts :
                          /\ stmts[i].kind \in {"match", "skip"} => MatchLen(stmts[i].pat) <= 0
                          /\ stmts[i].kind = "when" => MatchLen(stmts[i].pat) < 0
<1>1. IInv /\ ScanInv /\ [Next]_vars => Stuck
  BY StallStep DEF Idle
<1>2. IInv /\ ScanInv /\ [Next]_vars => [Stuck]_vars
  BY <1>1
<1> QED BY <1>2, SpecIInv, SpecScanInv, PTL DEF Spec, StalledIsStuck

-----------------------------------------------------------------------------
(* The cut into chunks                                                     *)

Entry == [at : Nat, stmt : Nat]

\* One token matches or not, whatever comes after it.
LEMMA OneToken ==
    ASSUME IInv, Local, NEW i \in DOMAIN stmts, NEW p \in Nat, NEW n \in Nat,
           p < n, n <= Len(input)
    PROVE  MatchLenIn(stmts[i].pat, p, n) = IF input[p + 1] = stmts[i].pat.toks[1] THEN 1 ELSE -1
<1> DEFINE toks == stmts[i].pat.toks
<1>1. stmts[i].pat.kind = "word" /\ Len(toks) = 1
  BY DEF Local
<1>2. toks \in Seq(Token)
  <2>1. stmts[i] \in Statement
    BY DEF IInv
  <2>2. stmts[i].pat \in Pattern
    BY <2>1 DEF Statement
  <2> QED BY <1>1, <2>2 DEF Pattern
<1>3. input \in Seq(Token)
  BY DEF IInv
<1> HIDE DEF toks
<1>4. SubSeq(input, p + 1, p + 1) = toks <=> input[p + 1] = toks[1]
  BY <1>1, <1>2, <1>3
<1> QED BY <1>1, <1>4 DEF MatchLenIn, toks

\* The statement the batch engine takes at p is one of the grammar's.
LEMMA FirstApplies ==
    ASSUME IInv, NEW p \in Nat, Applying(p) # {}
    PROVE  /\ First(p) \in Applying(p) /\ First(p) \in Nat
           /\ \A j \in Applying(p) : First(p) <= j
<1>1. Applying(p) \in SUBSET Nat
  BY Parts DEF Applying
<1>2. \E i \in Applying(p) : \A j \in Applying(p) : i <= j
  BY <1>1, Smallest
<1> QED BY <1>1, <1>2 DEF First

\* With one-token statements the log of the batch engine exists: from every
\* position on it is a sequence of entries, its first statement then the log
\* from the next position on.
LEMMA BatchUnfolds ==
    ASSUME IInv, Local
    PROVE  /\ BatchFrom \in [0 .. Len(input) -> Seq(Entry)]
           /\ \A p \in 0 .. Len(input) : BatchFrom[p] =
                 IF p = Len(input) \/ Applying(p) = {} THEN <<>>
                 ELSE <<[at |-> p, stmt |-> First(p)]>> \o BatchFrom[p + 1]
<1> DEFINE n == Len(input)
           Taken(p) == <<[at |-> p, stmt |-> First(p)]>>
           Stop(p) == p = n \/ Applying(p) = {}
           Body(g, p) == IF Stop(p) THEN <<>> ELSE Taken(p) \o g[p + 1]
           Full(g, p) == IF Stop(p) THEN <<>>
                         ELSE Taken(p) \o g[p + MatchLenIn(stmts[First(p)].pat, p, n)]
           Is(g, m) == g \in [m .. n -> Seq(Entry)] /\ \A p \in m .. n : g[p] = Body(g, p)
           T == {m \in 0 .. n : \E g : Is(g, m)}
<1>1. n \in Nat
  BY Parts
<1>2. \A p \in 0 .. n : ~ Stop(p) =>
          MatchLenIn(stmts[First(p)].pat, p, n) = 1 /\ p + 1 \in 0 .. n /\ Taken(p) \in Seq(Entry)
  <2> SUFFICES ASSUME NEW p \in 0 .. n, ~ Stop(p)
               PROVE  /\ MatchLenIn(stmts[First(p)].pat, p, n) = 1 /\ p + 1 \in 0 .. n
                      /\ Taken(p) \in Seq(Entry)
    OBVIOUS
  <2>1. First(p) \in Applying(p) /\ First(p) \in Nat
    BY <1>1, FirstApplies
  <2>2. First(p) \in DOMAIN stmts /\ MatchLenIn(stmts[First(p)].pat, p, n) > 0
    BY <2>1 DEF Applying
  <2>3. p < n
    BY <1>1
  <2>4. MatchLenIn(stmts[First(p)].pat, p, n) = 1
    BY <1>1, <2>2, <2>3, OneToken
  <2>5. [at |-> p, stmt |-> First(p)] \in Entry
    BY <2>1, <1>1 DEF Entry
  <2> QED BY <1>1, <2>3, <2>4, <2>5
<1>3. \A p \in 0 .. n : \A g : Full(g, p) = Body(g, p)
  BY <1>2
<1>4. \E g : g = [p \in 0 .. n |-> Full(g, p)]
  <2>1. n \in T
    <3> DEFINE g == [p \in n .. n |-> <<>>]
    <3>1. g \in [n .. n -> Seq(Entry)]
      OBVIOUS
    <3>2. ASSUME NEW p \in n .. n PROVE g[p] = Body(g, p)
      <4>1. p = n
        BY <1>1
      <4>2. Body(g, p) = <<>>
        BY <4>1
      <4> QED BY <4>2
    <3> HIDE DEF g, Body
    <3>3. Is(g, n)
      BY <3>1, <3>2
    <3>4. n \in 0 .. n
      BY <1>1
    <3> QED BY <3>3, <3>4
  <2>2. PICK m \in T : \A k \in T : m <= k
    <3>1. T \in SUBSET Nat
      BY <1>1
    <3> HIDE DEF T
    <3> QED BY <2>1, <3>1, Smallest
  <2>3. PICK g : Is(g, m)
    BY <2>2
  <2>4. m = 0
    <3>1. SUFFICES ASSUME m # 0 PROVE FALSE
      OBVIOUS
    <3>2. m - 1 \in 0 .. n /\ m \in 0 .. n
      BY <1>1, <3>1, <2>2
    <3> DEFINE h == [p \in m - 1 .. n |-> IF p = m - 1 THEN Body(g, p) ELSE g[p]]
    <3>3. Body(g, m - 1) \in Seq(Entry)
      <4>1. g[m] \in Seq(Entry)
        BY <2>3, <3>2, <1>1
      <4> HIDE DEF Taken, Stop
      <4>2. CASE ~ Stop(m - 1)
        <5>1. Taken(m - 1) \in Seq(Entry)
          BY <4>2, <1>2, <3>2
        <5> QED BY <4>1, <5>1, <4>2, <3>2
      <4> QED BY <4>2
    <3>4. h \in [m - 1 .. n -> Seq(Entry)]
      <4> HIDE DEF Body
      <4> QED BY <2>3, <3>3, <3>2, <1>1
    <3>5. ASSUME NEW p \in m - 1 .. n PROVE h[p] = Body(h, p)
      <4>1. h[p] = Body(g, p)
        <5> HIDE DEF Body
        <5> QED BY <2>3, <3>2, <1>1
      <4>2. ~ Stop(p) => h[p + 1] = g[p + 1]
        <5>1. SUFFICES ASSUME ~ Stop(p) PROVE h[p + 1] = g[p + 1]
          OBVIOUS
        <5>2. p + 1 \in m .. n /\ p + 1 # m - 1
          BY <5>1, <3>2, <1>1
        <5> HIDE DEF Body
        <5> QED BY <5>2, <3>2, <1>1
      <4> HIDE DEF h, Stop, Taken
      <4> QED BY <4>1, <4>2
    <3> HIDE DEF h, Body
    <3>6. Is(h, m - 1)
      BY <3>4, <3>5
    <3>7. m - 1 \in T
      BY <3>2, <3>6
    <3> HIDE DEF T
    <3> QED BY <3>7, <2>2, <3>2
  <2>5. g = [p \in 0 .. n |-> Full(g, p)]
    <3>1. g = [p \in 0 .. n |-> g[p]] /\ \A p \in 0 .. n : g[p] = Body(g, p)
      <4> HIDE DEF Body
      <4> QED BY <2>3, <2>4
    <3> HIDE DEF Body, Full
    <3>2. \A p \in 0 .. n : g[p] = Full(g, p)
      BY <3>1, <1>3
    <3> QED BY <3>1, <3>2
  <2> QED BY <2>5
<1>5. BatchFrom = [p \in 0 .. n |-> Full(BatchFrom, p)]
  BY <1>4 DEF BatchFrom
<1>6. \A p \in 0 .. n : BatchFrom[p] = Body(BatchFrom, p)
  <2> HIDE DEF Full, Body
  <2> QED BY <1>5, <1>3
<1>7. BatchFrom \in [0 .. n -> Seq(Entry)]
  <2> DEFINE Bad == {x \in 0 .. n : BatchFrom[n - x] \notin Seq(Entry)}
  <2>1. SUFFICES ASSUME Bad # {} PROVE FALSE
    <3> HIDE DEF Full
    <3>1. \A p \in 0 .. n : n - p \in 0 .. n /\ n - (n - p) = p
      BY <1>1
    <3>2. Bad = {} => \A p \in 0 .. n : BatchFrom[p] \in Seq(Entry)
      BY <3>1
    <3> QED BY <3>2, <1>5
  <2>2. PICK x \in Bad : \A y \in Bad : x <= y
    <3>1. Bad \in SUBSET Nat
      BY <1>1
    <3> HIDE DEF Bad
    <3> QED BY <2>1, <3>1, Smallest
  <2>3. x \in 0 .. n /\ n - x \in 0 .. n /\ BatchFrom[n - x] \notin Seq(Entry)
    BY <2>2, <1>1
  <2>4. BatchFrom[n - x] = Body(BatchFrom, n - x)
    BY <2>3, <1>6
  <2> HIDE DEF Taken, Stop
  <2>5. ~ Stop(n - x)
    BY <2>3, <2>4
  <2>6. n - x + 1 \in 0 .. n /\ Taken(n - x) \in Seq(Entry)
    BY <2>3, <2>5, <1>2
  <2>7. x - 1 \in 0 .. n /\ n - (x - 1) = n - x + 1
    BY <2>3, <2>6, <1>1
  <2>8. BatchFrom[n - x + 1] \in Seq(Entry)
    <3>1. x - 1 \notin Bad
      BY <2>2, <2>3, <2>7
    <3> QED BY <3>1, <2>7
  <2> QED BY <2>3, <2>4, <2>5, <2>6, <2>8
<1> QED BY <1>6, <1>7

\* Nothing in a call changes the grammar or the input.
LEMMA CaseFixed == [Next]_vars => UNCHANGED <<stmts, input>>
BY DEF Next, Caller, Engine, SetEof, Step, Finish, Feed, LoopEmpty, LoopAgain, MatchHit,
       WhenHit, SkipHit, ActionStmt, NoHit, NoneMatched, ActAdd, ActOpen, ActLeave,
       ActControl, ActRun, ActEnqueue, AutoLeave, EndByReturn, EndBlock, vars

LEMMA BatchFixed ==
    ASSUME UNCHANGED <<stmts, input>>
    PROVE  /\ Local' <=> Local
           /\ BatchFrom' = BatchFrom
<1>1. Local' <=> Local
  BY DEF Local
<1>2. BatchFrom' = BatchFrom
  BY DEF BatchFrom, Applying, First, MatchLenIn
<1> QED BY <1>1, <1>2

\* What is left of a block holds neither do.run nor do.return.
Plain(acts) == \A j \in DOMAIN acts : acts[j].op \notin {"run", "return"}

\* The statements taken so far, then what the batch engine takes from here on,
\* are what the batch engine takes.
LogInv ==
    /\ log \in Seq(Entry)
    /\ Local => /\ BatchLog = log \o BatchFrom[pos]
                /\ run.phase = "acts" => run.ret <= 0 /\ Plain(run.acts)
                /\ call = "over" => BatchFrom[pos] = <<>>

LEMMA LogKept ==
    ASSUME LogInv, UNCHANGED <<stmts, input, log, pos>>,
           run'.phase = "acts" /\ Local => run'.ret <= 0 /\ Plain(run'.acts),
           call' = "over" => call = "over"
    PROVE  LogInv'
<1>1. (Local' <=> Local) /\ BatchFrom' = BatchFrom
  BY BatchFixed
<1>2. BatchLog' = BatchLog
  BY <1>1 DEF BatchLog
<1>3. Plain(run.acts)' <=> Plain(run'.acts)
  BY DEF Plain
<1> HIDE DEF Local, BatchFrom
<1> QED BY <1>1, <1>2, <1>3 DEF LogInv

\* A statement that matches is the one the batch engine takes: those before it
\* do not match, and what is fed later changes nothing about that.
LEMMA TakesFirst ==
    ASSUME IInv, ScanInv, Local, run.phase = "scan", run.i <= Len(stmts), MatchLen(Stmt.pat) > 0
    PROVE  /\ MatchLen(Stmt.pat) = 1 /\ pos \in 0 .. Len(input) - 1
           /\ Applying(pos) # {} /\ First(pos) = run.i
<1>1. /\ pos \in Nat /\ fed \in Nat /\ Len(input) \in Nat /\ fed <= Len(input)
      /\ run.i \in DOMAIN stmts /\ DOMAIN stmts = 1 .. Len(stmts) /\ run.i \in Nat
  BY Parts, StatementFacts DEF IInv
<1>2. pos < fed
  <2>1. MatchLen(Stmt.pat) \in -1 .. fed - pos
    BY StatementFacts
  <2> QED BY <2>1, <1>1
<1>3. \A i \in DOMAIN stmts : /\ MatchLenIn(stmts[i].pat, pos, fed) \in {1, -1}
                              /\ MatchLenIn(stmts[i].pat, pos, Len(input)) = MatchLenIn(stmts[i].pat, pos, fed)
  <2> SUFFICES ASSUME NEW i \in DOMAIN stmts
               PROVE  /\ MatchLenIn(stmts[i].pat, pos, fed) \in {1, -1}
                      /\ MatchLenIn(stmts[i].pat, pos, Len(input)) = MatchLenIn(stmts[i].pat, pos, fed)
    OBVIOUS
  <2>1. pos < Len(input)
    BY <1>1, <1>2
  <2> DEFINE Value == IF input[pos + 1] = stmts[i].pat.toks[1] THEN 1 ELSE -1
  <2>2. MatchLenIn(stmts[i].pat, pos, fed) = Value
    BY <1>1, <1>2, OneToken
  <2>3. MatchLenIn(stmts[i].pat, pos, Len(input)) = Value
    BY <1>1, <2>1, OneToken
  <2> QED BY <2>2, <2>3
<1>4. \A i \in 1 .. run.i - 1 : i \in DOMAIN stmts /\ MatchLenIn(stmts[i].pat, pos, fed) <= 0
  BY <1>1 DEF ScanInv, Idle, MatchLen, Local
<1>5. MatchLenIn(stmts[run.i].pat, pos, fed) > 0
  BY DEF MatchLen, Stmt
<1>6. run.i \in Applying(pos)
  BY <1>1, <1>3, <1>5 DEF Applying
<1>7. ASSUME NEW i \in Applying(pos) PROVE run.i <= i
  <2>1. i \in DOMAIN stmts /\ MatchLenIn(stmts[i].pat, pos, Len(input)) > 0
    BY DEF Applying
  <2>2. MatchLenIn(stmts[i].pat, pos, fed) > 0
    BY <2>1, <1>3
  <2>3. i \notin 1 .. run.i - 1
    <3>1. SUFFICES ASSUME i \in 1 .. run.i - 1 PROVE FALSE
      OBVIOUS
    <3>2. MatchLenIn(stmts[i].pat, pos, fed) <= 0
      BY <3>1, <1>4
    <3>3. MatchLenIn(stmts[i].pat, pos, fed) \in {1, -1}
      BY <2>1, <1>3
    <3> QED BY <3>2, <3>3, <2>2
  <2> QED BY <2>1, <2>3, <1>1
<1>8. First(pos) = run.i
  <2>1. First(pos) \in Applying(pos) /\ First(pos) \in Nat /\ \A j \in Applying(pos) : First(pos) <= j
    BY <1>1, <1>6, FirstApplies
  <2>2. First(pos) <= run.i /\ run.i <= First(pos)
    BY <2>1, <1>6, <1>7
  <2> QED BY <2>1, <2>2, <1>1
<1>9. MatchLen(Stmt.pat) = 1
  BY <1>1, <1>3, <1>5 DEF MatchLen, Stmt
<1> QED BY <1>1, <1>2, <1>6, <1>8, <1>9

LEMMA Reassociate ==
    ASSUME NEW x \in Seq(Entry), NEW e \in Entry, NEW y \in Seq(Entry)
    PROVE  (x \o <<e>>) \o y = x \o (<<e>> \o y)
<1>1. \A z \in Seq(Entry) : (x \o z) \o y = x \o (z \o y)
  BY ConcatAssociative
<1>2. <<e>> \in Seq(Entry)
  OBVIOUS
<1> QED BY <1>1, <1>2

LEMMA LogGrows ==
    ASSUME IInv, ScanInv, LogInv, UNCHANGED <<stmts, input>>,
           run.phase = "scan", run.i <= Len(stmts), MatchLen(Stmt.pat) > 0,
           Recorded, pos' = pos + MatchLen(Stmt.pat), call' = call,
           run'.phase = "acts" /\ Local => run'.ret <= 0 /\ Plain(run'.acts)
    PROVE  LogInv'
<1> DEFINE e == [at |-> pos, stmt |-> run.i]
<1>1. log' = Append(log, e) /\ log \in Seq(Entry) /\ e \in Entry
  BY Parts DEF Recorded, LogInv, Entry
<1>2. log' \in Seq(Entry) /\ log' = log \o <<e>>
  BY <1>1, AppendProperties, AppendIsConcat
<1>3. (Local' <=> Local) /\ BatchFrom' = BatchFrom
  BY BatchFixed
<1>4. BatchLog' = BatchLog
  BY <1>3 DEF BatchLog
<1>5. call # "over"
  BY DEF IInv
<1>6. Plain(run.acts)' <=> Plain(run'.acts)
  BY DEF Plain
<1>7. ASSUME Local PROVE BatchLog = log' \o BatchFrom[pos']
  <2>1. /\ pos' = pos + 1 /\ pos \in 0 .. Len(input) - 1
        /\ Applying(pos) # {} /\ First(pos) = run.i
    BY <1>7, TakesFirst
  <2>2. pos \in 0 .. Len(input) /\ pos + 1 \in 0 .. Len(input) /\ pos # Len(input)
    BY <2>1, Parts
  <2>3. BatchFrom[pos] = <<e>> \o BatchFrom[pos + 1]
    BY <1>7, <2>1, <2>2, BatchUnfolds
  <2>4. BatchFrom[pos + 1] \in Seq(Entry)
    BY <1>7, <2>2, BatchUnfolds
  <2>5. (log \o <<e>>) \o BatchFrom[pos + 1] = log \o (<<e>> \o BatchFrom[pos + 1])
    BY <1>1, <2>4, Reassociate
  <2>6. BatchLog = log \o BatchFrom[pos]
    BY <1>7 DEF LogInv
  <2> HIDE DEF BatchFrom, BatchLog, e
  <2> QED BY <1>2, <2>1, <2>3, <2>5, <2>6
<1> HIDE DEF Local, BatchFrom, BatchLog
<1> QED BY <1>2, <1>3, <1>4, <1>5, <1>6, <1>7 DEF LogInv

LEMMA LogInvStep == IInv /\ ScanInv /\ LogInv /\ [Next]_vars => LogInv'
<1> SUFFICES ASSUME IInv, ScanInv, LogInv, [Next]_vars PROVE LogInv'
  OBVIOUS
<1> USE DEF Running
<1>r. run \in RunRecord
  BY Parts
<1>f. UNCHANGED <<stmts, input>>
  BY CaseFixed
<1>l. Locals.phase = "loop"
  BY DEF Locals
<1>0. CASE UNCHANGED vars
  BY <1>0, LogKept DEF vars, buf, ctx, hist, LogInv
<1>1. CASE Caller
  <2>1. CASE SetEof
    BY <2>1, LogKept DEF SetEof, ctx, hist, LogInv
  <2>2. CASE Step \/ Finish
    BY <2>2, <1>l, LogKept DEF Step, Finish, ctx, hist
  <2>3. ASSUME NEW n \in 1 .. Len(input), Feed(n) PROVE LogInv'
    BY <2>3, LogKept DEF Feed, ctx, hist, LogInv
  <2> QED BY <1>1, <2>1, <2>2, <2>3 DEF Caller
<1>2. CASE LoopEmpty \/ NoneMatched
  <2>1. /\ UNCHANGED <<pos, log>> /\ run' = Locals /\ call # "over"
        /\ call' = "over" => call = "finish"
    BY <1>2 DEF LoopEmpty, NoneMatched, ReturnWith, hist
  <2>2. ASSUME Local, call = "finish" PROVE BatchFrom[pos] = <<>>
    <3>1. fed = Len(input) /\ pos \in 0 .. Len(input)
      BY <2>2, Parts DEF IInv
    <3>2. CASE LoopEmpty
      <4>1. pos = Len(input)
        BY <3>1, <3>2, Parts DEF LoopEmpty
      <4> QED BY <4>1, <3>1, <2>2, BatchUnfolds
    <3>3. CASE NoneMatched
      <4>1. run.phase = "scan" /\ run.i > Len(stmts)
        BY <3>3 DEF NoneMatched
      <4>2. \A i \in DOMAIN stmts : i \in 1 .. run.i - 1
        BY <4>1, Parts
      <4>3. \A i \in DOMAIN stmts : MatchLen(stmts[i].pat) <= 0
        BY <4>1, <4>2, <2>2 DEF ScanInv, Idle, Local
      <4>4. pos \in Nat /\ fed \in Nat /\ pos <= fed
        BY Parts DEF IInv
      <4>5. \A i \in DOMAIN stmts : stmts[i].pat \in Pattern
        <5>1. \A i \in DOMAIN stmts : stmts[i] \in Statement
          BY Parts
        <5> QED BY <5>1 DEF Statement
      <4>6. \A i \in DOMAIN stmts : MatchLen(stmts[i].pat) \in -1 .. fed - pos
        BY <4>4, <4>5, MatchLenBounded DEF MatchLen
      <4>7. \A i \in DOMAIN stmts : ~ (MatchLen(stmts[i].pat) > 0)
        BY <4>3, <4>4, <4>6
      <4>8. Applying(pos) = {}
        BY <4>7, <3>1 DEF Applying, MatchLen
      <4> QED BY <4>8, <3>1, <2>2, BatchUnfolds
    <3> QED BY <3>2, <3>3, <1>2
  <2>3. (Local' <=> Local) /\ BatchFrom' = BatchFrom
    BY <1>f, BatchFixed
  <2>4. BatchLog' = BatchLog
    BY <2>3 DEF BatchLog
  <2> HIDE DEF Local, BatchFrom, BatchLog
  <2> QED BY <1>l, <2>1, <2>2, <2>3, <2>4 DEF LogInv
<1>3. CASE EndByReturn
  <2>1. run.phase = "acts" /\ run.ret > 0 /\ UNCHANGED <<pos, log>> /\ run' = Locals
    BY <1>3 DEF EndByReturn, ActionsDone, ReturnWith, hist
  <2>2. ~ Local
    BY <2>1, Parts DEF LogInv
  <2>3. Local' <=> Local
    BY <1>f, BatchFixed
  <2> HIDE DEF Local
  <2> QED BY <2>1, <2>2, <2>3 DEF LogInv
<1>4. CASE LoopAgain
  <2>1. run' = [run EXCEPT !.phase = "scan", !.i = 1, !.start = pos]
        /\ UNCHANGED <<pos, log, call>>
    BY <1>4 DEF LoopAgain, ctx, hist
  <2>2. run'.phase = "scan"
    BY <2>1, <1>r DEF RunRecord
  <2> QED BY <1>f, <2>1, <2>2, LogKept
<1>5. CASE MatchHit
  <2>1. /\ run.phase = "scan" /\ run.i <= Len(stmts) /\ MatchLen(Stmt.pat) > 0 /\ Recorded
        /\ pos' = pos + MatchLen(Stmt.pat) /\ call' = call /\ Enter(Stmt.acts)
    BY <1>5 DEF MatchHit, Scanning
  <2>2. run'.ret = 0 /\ run'.acts = Stmt.acts
    BY <2>1 DEF Enter
  <2>3. Local => Plain(Stmt.acts)
    BY <2>1, StatementFacts DEF Local, Plain, Stmt
  <2> QED BY <1>f, <2>1, <2>2, <2>3, LogGrows
<1>6. CASE SkipHit
  <2>1. /\ run.phase = "scan" /\ run.i <= Len(stmts) /\ MatchLen(Stmt.pat) > 0 /\ Recorded
        /\ pos' = pos + MatchLen(Stmt.pat) /\ call' = call
        /\ run' = [run EXCEPT !.phase = "loop"]
    BY <1>6 DEF SkipHit, Scanning, Goto
  <2>2. run'.phase = "loop"
    BY <2>1, <1>r DEF RunRecord
  <2> QED BY <1>f, <2>1, <2>2, LogGrows
<1>7. CASE WhenHit \/ ActionStmt
  <2>1. run.i <= Len(stmts) /\ Stmt.kind \in {"when", "action"}
    BY <1>7 DEF WhenHit, ActionStmt, Scanning
  <2>2. ~ Local
    BY <2>1, StatementFacts DEF Local, Stmt
  <2>3. UNCHANGED <<pos, log, call>>
    BY <1>7 DEF WhenHit, ActionStmt, ctx, hist
  <2> QED BY <1>f, <2>2, <2>3, LogKept
<1>8. CASE NoHit
  <2>1. run' = [run EXCEPT !.i = @ + 1] /\ run.phase = "scan" /\ UNCHANGED <<pos, log, call>>
    BY <1>8 DEF NoHit, Scanning, ctx, hist
  <2>2. run'.phase = "scan"
    BY <2>1, <1>r DEF RunRecord
  <2> QED BY <1>f, <2>1, <2>2, LogKept
<1>9. ASSUME run.acts # <<>>, run.ret <= 0, run'.phase = "acts", Local,
             run'.acts = Tail(run.acts), run.phase = "acts", Act.op # "return" => run'.ret = run.ret
      PROVE  Act.op \notin {"run", "return"} /\ run'.ret <= 0 /\ Plain(run'.acts)
  <2>1. Plain(run.acts) /\ run.acts \in Seq(Action)
    BY <1>9, Parts DEF LogInv
  <2>2. Act.op \notin {"run", "return"}
    BY <1>9, <2>1 DEF Plain, Act
  <2>3. Plain(Tail(run.acts))
    BY <1>9, <2>1 DEF Plain
  <2> QED BY <1>9, <2>2, <2>3
<1>10. CASE ActAdd \/ ActLeave \/ ActEnqueue
  <2>1. /\ run' = Rest /\ run.acts # <<>> /\ run.ret <= 0 /\ run.phase = "acts"
        /\ UNCHANGED <<pos, log, call>>
    BY <1>10 DEF ActAdd, ActLeave, ActEnqueue, Acting, hist
  <2>2. run'.phase = "acts" /\ run'.ret = run.ret
    BY <2>1, RestFacts
  <2>3. run'.acts = Tail(run.acts)
    BY <2>1, <1>r DEF Rest, RunRecord
  <2> QED BY <1>f, <2>1, <2>2, <2>3, <1>9, LogKept
<1>11. CASE ActOpen
  <2>1. run' = [Rest EXCEPT !.auto = @ + 1] /\ run.acts # <<>> /\ run.ret <= 0 /\ run.phase = "acts"
        /\ UNCHANGED <<pos, log, call>>
    BY <1>11 DEF ActOpen, Acting, hist
  <2>2. Rest \in RunRecord
    BY <2>1, RestFacts
  <2>3. run'.phase = Rest.phase /\ run'.ret = Rest.ret /\ run'.acts = Rest.acts
    BY <2>1, <2>2 DEF RunRecord
  <2>4. Rest.acts = Tail(run.acts)
    BY <1>r DEF Rest, RunRecord
  <2>5. run'.phase = "acts" /\ run'.ret = run.ret
    BY <2>1, <2>3, RestFacts
  <2> QED BY <1>f, <2>1, <2>3, <2>4, <2>5, <1>9, LogKept
<1>12. CASE ActControl
  <2> DEFINE levels == IF Act.op = "return" THEN Act.levels ELSE Rest.ret
             next == Rest.next \/ Act.op = "next"
  <2>1. /\ run' = [Rest EXCEPT !.ret = levels, !.next = next]
        /\ run.acts # <<>> /\ run.ret <= 0 /\ run.phase = "acts" /\ UNCHANGED <<pos, log, call>>
    BY <1>12 DEF ActControl, Acting, ctx
  <2>2. Rest \in RunRecord
    BY <2>1, RestFacts
  <2>3. Rest.acts = Tail(run.acts)
    BY <1>r DEF Rest, RunRecord
  <2>4. Act.op # "return" => levels = Rest.ret
    OBVIOUS
  <2> HIDE DEF levels, next
  <2>5. run'.phase = Rest.phase /\ run'.ret = levels /\ run'.acts = Rest.acts
    BY <2>1, <2>2 DEF RunRecord
  <2>6. run'.phase = "acts" /\ (Act.op # "return" => run'.ret = run.ret)
    BY <2>1, <2>4, <2>5, RestFacts
  <2> QED BY <1>f, <2>1, <2>3, <2>5, <2>6, <1>9, LogKept
<1>13. CASE ActRun
  <2>1. /\ run' = Rest /\ run.acts # <<>> /\ run.ret <= 0 /\ run.phase = "acts" /\ Act.op = "run"
        /\ UNCHANGED <<log, call>>
    BY <1>13 DEF ActRun, Acting, hist
  <2>2. run'.phase = "acts" /\ run'.ret = run.ret
    BY <2>1, RestFacts
  <2>3. run'.acts = Tail(run.acts)
    BY <2>1, <1>r DEF Rest, RunRecord
  <2>4. ~ Local
    BY <2>1, <2>2, <2>3, <1>9
  <2>5. Local' <=> Local
    BY <1>f, BatchFixed
  <2> HIDE DEF Local
  <2> QED BY <2>1, <2>4, <2>5 DEF LogInv
<1>14. CASE AutoLeave
  <2>1. run' = [run EXCEPT !.auto = @ - 1] /\ run.phase = "acts" /\ UNCHANGED <<pos, log, call>>
    BY <1>14 DEF AutoLeave, ActionsDone, hist
  <2>2. run'.ret = run.ret /\ run'.acts = run.acts
    BY <2>1, <1>r DEF RunRecord
  <2>3. Local => run.ret <= 0 /\ Plain(run.acts)
    BY <2>1 DEF LogInv
  <2> QED BY <1>f, <2>1, <2>2, <2>3, LogKept
<1>15. CASE EndBlock
  <2> DEFINE again == Stmt.kind # "action" \/ run.next \/ pos > run.start
  <2>1. UNCHANGED <<pos, log, call>>
    BY <1>15 DEF EndBlock, hist
  <2>2. run' = [run EXCEPT !.phase = "loop"] \/ run' = [run EXCEPT !.phase = "scan", !.i = @ + 1]
    BY <1>15 DEF EndBlock
  <2>3. run'.phase # "acts"
    BY <2>2, <1>r DEF RunRecord
  <2> QED BY <1>f, <2>1, <2>3, LogKept
<1> QED BY <1>0, <1>1, <1>2, <1>3, <1>4, <1>5, <1>6, <1>7, <1>8, <1>10, <1>11, <1>12,
           <1>13, <1>14, <1>15 DEF Next, Engine

LEMMA InitLogInv == Init => LogInv
<1> SUFFICES ASSUME Init PROVE LogInv
  OBVIOUS
<1>1. /\ log = <<>> /\ pos = 0 /\ run.phase = "loop" /\ call = "none"
  BY DEF Init, Locals
<1>2. IInv
  BY InitIInv
<1>3. ASSUME Local PROVE BatchLog = log \o BatchFrom[pos]
  <2>1. BatchFrom[0] \in Seq(Entry)
    BY <1>2, <1>3, BatchUnfolds, Parts
  <2>2. <<>> \o BatchFrom[0] = BatchFrom[0]
    BY <2>1, ConcatEmptySeq, Zenon
  <2> QED BY <1>1, <2>2 DEF BatchLog
<1> HIDE DEF Local, BatchFrom, BatchLog
<1> QED BY <1>1, <1>3 DEF LogInv

\* Over one-token statements whose blocks neither consume nor end the run, the
\* finished run took the statements the batch engine takes, in the same places,
\* whatever the cut.
THEOREM SpecChunkingInvisible == Spec => []ChunkingInvisible
<1>1. IInv /\ LogInv => ChunkingInvisible
  <2> SUFFICES ASSUME LogInv, call = "over", Local PROVE log = BatchLog
    BY DEF ChunkingInvisible
  <2>1. BatchLog = log \o <<>> /\ log \in Seq(Entry)
    BY DEF LogInv
  <2> HIDE DEF BatchLog
  <2> QED BY <2>1, ConcatEmptySeq
<1>2. IInv /\ ScanInv /\ LogInv /\ [Next]_vars => LogInv'
  BY LogInvStep
<1> QED BY <1>1, <1>2, InitLogInv, SpecIInv, SpecScanInv, PTL DEF Spec
=============================================================================
