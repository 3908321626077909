-------------------------- MODULE StreamingRunner --------------------------
(***************************************************************************)
(* The incremental engine (src/exec/streaming.rs) and its caller: chunks   *)
(* are fed into a growing buffer, every call of step runs the grammar on   *)
(* what there is, finish signals the end of the input and runs the rest.   *)
(*                                                                         *)
(* The caller follows the protocol of the module's documentation: any      *)
(* sequence of feed, step and set_eof, nothing fed after set_eof, finish   *)
(* last.  A call of step is a run of Loop, statement and action steps.     *)
(*                                                                         *)
(* Abstractions.  The input is a sequence of tokens.  A pattern is a word  *)
(* of tokens or a run, the longest repetition of one token, which stands   *)
(* for the greedy regexes.  Of the output tree only the depth of the       *)
(* cursor stack is kept.  Captures, traces, the events but the last one    *)
(* of a step, errors of invalid patterns and persistent triggers, which    *)
(* never leave their list, are left out.  The grammar a do.run names is    *)
(* one that skips a run.                                                   *)
(***************************************************************************)
EXTENDS Integers, Sequences

CONSTANTS Token,
          Cases,    \* pairs of a statement list and an input, a sequence of tokens
          MaxQueue  \* bound: triggers of one kind

Kinds == {"before", "after", "on_add", "on_leave"}

\* The statements of a grammar, its parents' included.
Pattern == [kind : {"word"}, toks : Seq(Token)] \cup [kind : {"run"}, toks : [1 .. 1 -> Token]]
Action == [op : {"add", "replace", "open", "leave", "next", "fail"}]
            \cup [op : {"return"}, levels : Int]
            \cup [op : {"run"}, pat : Pattern]
            \cup [op : {"enqueue"}, kind : Kinds, rx : Token]
Statement == [kind : {"match", "when", "skip", "action"}, pat : Pattern, acts : Seq(Action)]

ASSUME CasesAssumption == Cases \subseteq Seq(Statement) \X Seq(Token)
ASSUME MaxQueueAssumption == MaxQueue \in Nat

VARIABLES stmts, input,  \* chosen at the start
          fed,           \* length of buffer, a prefix of input
          eof, pos, consumed, error,
          depth,         \* length of the cursor stack above the root
          trigs,         \* single-shot triggers by kind: a sequence of tokens
          text,          \* last_match_text
          call,          \* the running call: "none", "step", "finish", "over"
          run,           \* the locals of step
          verdict,       \* last event of the last step: "none", "Stalled", "Finished"
          failed,        \* fail_error of the blocks so far
          log            \* history: statements that consumed, with their position

buf == <<fed, eof>>
ctx == <<pos, consumed, error, depth, trigs, text>>
hist == <<failed, log>>
vars == <<stmts, input, buf, ctx, call, run, verdict, hist>>

Locals == [phase |-> "loop", i |-> 1, start |-> 0, acts |-> <<>>, auto |-> 0,
           ret |-> 0, next |-> FALSE]

Init == /\ \E c \in Cases : stmts = c[1] /\ input = c[2]
        /\ fed = 0 /\ eof = FALSE
        /\ pos = 0 /\ consumed = 0 /\ error = FALSE /\ depth = 0
        /\ trigs = [k \in Kinds |-> <<>>] /\ text = <<>>
        /\ call = "none" /\ run = Locals /\ verdict = "none"
        /\ log = <<>> /\ failed = FALSE

-----------------------------------------------------------------------------
(* The caller                                                              *)

Feed(n) ==
    /\ call = "none" /\ ~eof /\ fed + n <= Len(input)
    /\ fed' = fed + n
    /\ UNCHANGED <<stmts, input, eof, ctx, call, run, verdict, hist>>

SetEof ==
    /\ call = "none" /\ fed = Len(input)
    /\ eof' = TRUE
    /\ UNCHANGED <<stmts, input, fed, ctx, call, run, verdict, hist>>

\* Bound: a call starts with room for a trigger per token and one more.
Room == \A k \in Kinds : Len(trigs[k]) + Len(input) < MaxQueue

Step ==
    /\ call = "none" /\ Room
    /\ call' = "step" /\ run' = Locals
    /\ UNCHANGED <<stmts, input, buf, ctx, verdict, hist>>

\* finish: eof, then a step.
Finish ==
    /\ call = "none" /\ fed = Len(input) /\ Room
    /\ eof' = TRUE /\ call' = "finish" /\ run' = Locals
    /\ UNCHANGED <<stmts, input, fed, ctx, verdict, hist>>

-----------------------------------------------------------------------------
(* Patterns and triggers                                                   *)

\* The length of the match of pat at p in the first n tokens; -1 for none.
MatchLenIn(pat, p, n) ==
    IF pat.kind = "word"
      THEN IF p + Len(pat.toks) <= n /\ SubSeq(input, p + 1, p + Len(pat.toks)) = pat.toks
             THEN Len(pat.toks) ELSE -1
      ELSE LET ends == {e \in p + 1 .. n : \A j \in p + 1 .. e : input[j] = pat.toks[1]}
           IN  IF ends = {} THEN -1 ELSE CHOOSE k \in 1 .. n : p + k \in ends /\ p + k + 1 \notin ends

MatchLen(pat) == MatchLenIn(pat, pos, fed)

Hits(tok, t) == \E j \in DOMAIN t : t[j] = tok

\* fire_triggers_streaming: the triggers that hit are drained, in order.
Fired(kind, t) == [trigs EXCEPT ![kind] = SelectSeq(@, LAMBDA tok : ~Hits(tok, t))]

-----------------------------------------------------------------------------
(* step: the statement loop                                                *)

Running(phase) == call \in {"step", "finish"} /\ run.phase = phase
Stmt == stmts[run.i]
Scanning(kind) == Running("scan") /\ run.i <= Len(stmts) /\ Stmt.kind = kind
Goto(phase) == run' = [run EXCEPT !.phase = phase]

\* step returns; finish drops the runner with it.
ReturnWith(v) ==
    /\ verdict' = v
    /\ call' = IF call = "finish" THEN "over" ELSE "none"
    /\ run' = Locals
    /\ depth' = depth

\* A statement that consumes is recorded.
Recorded == log' = Append(log, [at |-> pos, stmt |-> run.i]) /\ UNCHANGED failed

\* Nothing left in the buffer.
LoopEmpty ==
    /\ Running("loop") /\ pos >= fed
    /\ ReturnWith(IF eof THEN "Finished" ELSE "Stalled")
    /\ UNCHANGED <<stmts, input, buf, pos, consumed, error, trigs, text, hist>>

\* Mutant: the loop keeps the statement it was at.
LoopKeepsStatement ==
    /\ Running("loop") /\ pos < fed
    /\ run' = [run EXCEPT !.phase = "scan", !.i = IF run.i < Len(stmts) THEN @ ELSE 1,
                          !.start = pos]
    /\ UNCHANGED <<stmts, input, buf, ctx, call, verdict, hist>>

\* The statements are tried from the first one.
LoopAgain ==
    /\ Running("loop") /\ pos < fed
    /\ run' = [run EXCEPT !.phase = "scan", !.i = 1, !.start = pos]
    /\ UNCHANGED <<stmts, input, buf, ctx, call, verdict, hist>>

Enter(acts) == run' = [phase |-> "acts", i |-> run.i, start |-> run.start, acts |-> acts,
                       auto |-> 0, ret |-> 0, next |-> FALSE]

\* A match that consumes.
MatchHit ==
    /\ Scanning("match") /\ MatchLen(Stmt.pat) > 0
    /\ LET n == MatchLen(Stmt.pat)
           t == SubSeq(input, pos + 1, pos + n)
       IN  /\ pos' = pos + n /\ consumed' = consumed + n
           /\ text' = t /\ trigs' = Fired("before", t)
    /\ Enter(Stmt.acts) /\ Recorded
    /\ UNCHANGED <<stmts, input, buf, error, depth, call, verdict>>

WhenHit ==
    /\ Scanning("when") /\ MatchLen(Stmt.pat) >= 0
    /\ text' = <<>> /\ trigs' = Fired("before", <<>>)
    /\ Enter(Stmt.acts)
    /\ UNCHANGED <<stmts, input, buf, pos, consumed, error, depth, call, verdict, hist>>

SkipHit ==
    /\ Scanning("skip") /\ MatchLen(Stmt.pat) > 0
    /\ pos' = pos + MatchLen(Stmt.pat) /\ consumed' = consumed + MatchLen(Stmt.pat)
    /\ Goto("loop") /\ Recorded
    /\ UNCHANGED <<stmts, input, buf, error, depth, trigs, text, call, verdict>>

ActionStmt ==
    /\ Scanning("action")
    /\ Enter(Stmt.acts)
    /\ UNCHANGED <<stmts, input, buf, ctx, call, verdict, hist>>

NoHit ==
    /\ \/ (Scanning("match") \/ Scanning("skip")) /\ MatchLen(Stmt.pat) <= 0
       \/ Scanning("when") /\ MatchLen(Stmt.pat) < 0
    /\ run' = [run EXCEPT !.i = @ + 1]
    /\ UNCHANGED <<stmts, input, buf, ctx, call, verdict, hist>>

\* Mutant: a match of an earlier iteration still counts.
NoneMatchedLoops ==
    /\ Running("scan") /\ run.i > Len(stmts)
    /\ IF log # <<>> THEN Goto("loop") /\ UNCHANGED <<verdict, call, depth>>
       ELSE ReturnWith(IF eof THEN "Finished" ELSE "Stalled")
    /\ UNCHANGED <<stmts, input, buf, pos, consumed, error, trigs, text, hist>>

\* No statement is left and none matched.
NoneMatched ==
    /\ Running("scan") /\ run.i > Len(stmts)
    /\ ReturnWith(IF eof THEN "Finished" ELSE "Stalled")
    /\ UNCHANGED <<stmts, input, buf, pos, consumed, error, trigs, text, hist>>

-----------------------------------------------------------------------------
(* The actions of a block                                                  *)

Act == Head(run.acts)
Acting(op) == Running("acts") /\ run.acts # <<>> /\ run.ret <= 0 /\ Act.op = op
Rest == [run EXCEPT !.acts = Tail(@)]

\* OutputTree::leave: the root stays open.
Leave(d) == IF d > 0 THEN d - 1 ELSE 0

\* out.create and out.add fire on_add; out.replace and out.add_attribute do not.
ActAdd ==
    /\ Acting("add") \/ Acting("replace")
    /\ trigs' = IF Act.op = "add" THEN Fired("on_add", text) ELSE trigs
    /\ run' = Rest
    /\ UNCHANGED <<stmts, input, buf, pos, consumed, error, depth, text, call, verdict, hist>>

\* out.open, out.enter.
ActOpen ==
    /\ Acting("open")
    /\ depth' = depth + 1 /\ run' = [Rest EXCEPT !.auto = @ + 1]
    /\ UNCHANGED <<stmts, input, buf, pos, consumed, error, trigs, text, call, verdict, hist>>

\* out.leave: the owed leaves stay owed.
ActLeave ==
    /\ Acting("leave")
    /\ depth' = Leave(depth) /\ run' = Rest
    /\ UNCHANGED <<stmts, input, buf, pos, consumed, error, trigs, text, call, verdict, hist>>

\* do.return (its levels are not raised to 1), do.next, which does not end the
\* block, and do.fail, which does not end anything.
ActControl ==
    /\ Acting("return") \/ Acting("next") \/ Acting("fail")
    /\ run' = [Rest EXCEPT !.ret = IF Act.op = "return" THEN Act.levels ELSE @,
                           !.next = @ \/ Act.op = "next"]
    /\ failed' = (failed \/ Act.op = "fail")
    /\ UNCHANGED <<stmts, input, buf, ctx, call, verdict, log>>

\* Mutant of ActRun: the total is not raised.
ActRunUncounted ==
    /\ Acting("run")
    /\ LET n == MatchLen(Act.pat) IN pos' = IF n > 0 THEN pos + n ELSE pos
    /\ run' = Rest
    /\ UNCHANGED <<stmts, input, buf, consumed, error, depth, trigs, text, call, verdict, hist>>

\* do.run, do.grammar: the batch engine on the rest of the buffer.
ActRun ==
    /\ Acting("run")
    /\ LET n == IF MatchLen(Act.pat) > 0 THEN MatchLen(Act.pat) ELSE 0
       IN  pos' = pos + n /\ consumed' = consumed + n
    /\ run' = Rest
    /\ UNCHANGED <<stmts, input, buf, error, depth, trigs, text, call, verdict, hist>>

\* enqueue_<kind>.
ActEnqueue ==
    /\ Acting("enqueue") /\ Len(trigs[Act.kind]) < MaxQueue
    /\ trigs' = [trigs EXCEPT ![Act.kind] = Append(@, Act.rx)]
    /\ run' = Rest
    /\ UNCHANGED <<stmts, input, buf, pos, consumed, error, depth, text, call, verdict, hist>>

ActionsDone == Running("acts") /\ (run.acts = <<>> \/ run.ret > 0)

\* One owed leave at the end of the block.
AutoLeave ==
    /\ ActionsDone /\ run.auto > 0
    /\ trigs' = Fired("on_leave", text)
    /\ depth' = Leave(depth) /\ run' = [run EXCEPT !.auto = @ - 1]
    /\ UNCHANGED <<stmts, input, buf, pos, consumed, error, text, call, verdict, hist>>

\* Mutant: a return does not wait for the owed leaves.
EndByReturnEarly ==
    /\ ActionsDone /\ run.ret > 0
    /\ error' = (error \/ failed)
    /\ ReturnWith("Finished")
    /\ UNCHANGED <<stmts, input, buf, pos, consumed, trigs, text, hist>>

\* A block with do.return ends the step.
EndByReturn ==
    /\ ActionsDone /\ run.auto = 0 /\ run.ret > 0
    /\ error' = (error \/ failed)
    /\ ReturnWith("Finished")
    /\ UNCHANGED <<stmts, input, buf, pos, consumed, trigs, text, hist>>

\* Mutant: after do.next nothing has matched.
EndBlockNextUnmatched ==
    /\ ActionsDone /\ run.auto = 0 /\ run.ret <= 0
    /\ error' = (error \/ failed)
    /\ trigs' = IF Stmt.kind = "action" THEN trigs ELSE Fired("after", text)
    /\ run' = IF ~run.next /\ (Stmt.kind # "action" \/ pos > run.start)
                THEN [run EXCEPT !.phase = "loop"]
                ELSE [run EXCEPT !.phase = "scan", !.i = IF run.next THEN Len(stmts) + 1 ELSE @ + 1]
    /\ UNCHANGED <<stmts, input, buf, pos, consumed, depth, text, call, verdict, hist>>

\* The loop restarts after a match or when block, after do.next and after an
\* action that consumed; any other action is followed by the next statement.
EndBlock ==
    /\ ActionsDone /\ run.auto = 0 /\ run.ret <= 0
    /\ error' = (error \/ failed)
    /\ trigs' = IF Stmt.kind = "action" THEN trigs ELSE Fired("after", text)
    /\ run' = IF Stmt.kind # "action" \/ run.next \/ pos > run.start
                THEN [run EXCEPT !.phase = "loop"]
                ELSE [run EXCEPT !.phase = "scan", !.i = @ + 1]
    /\ UNCHANGED <<stmts, input, buf, pos, consumed, depth, text, call, verdict, hist>>

Caller == SetEof \/ Step \/ Finish \/ \E n \in 1 .. Len(input) : Feed(n)
Engine == \/ LoopEmpty \/ LoopAgain \/ MatchHit \/ WhenHit \/ SkipHit \/ ActionStmt
          \/ NoHit \/ NoneMatched \/ ActAdd \/ ActOpen \/ ActLeave \/ ActControl
          \/ ActRun \/ ActEnqueue \/ AutoLeave \/ EndByReturn \/ EndBlock
Next == Caller \/ Engine

Spec == Init /\ [][Next]_vars

\* A call of step is one thread's code that runs until it returns; nothing is
\* assumed of the caller.
FairSpec == Spec /\ WF_vars(Engine)

-----------------------------------------------------------------------------
(* Properties                                                              *)

\* Types of the variables a step can change.
TypeOK ==
    /\ fed \in 0 .. Len(input) /\ {eof, error, failed} \subseteq BOOLEAN
    /\ {pos, consumed, depth, run.auto} \subseteq Nat
    /\ call \in {"none", "step", "finish", "over"}
    /\ verdict \in {"none", "Stalled", "Finished"}
    /\ run.phase \in {"loop", "scan", "acts"} /\ run.i \in 1 .. Len(stmts) + 1

\* The state is well typed, and however the input is cut and whatever
\* sub-grammars consume, the total the events report is the position in the
\* buffer, and never past its end.
ConsumedIsPosition == TypeOK /\ consumed = pos /\ run.start <= pos /\ pos <= fed

\* No scope outlives the block that opened it: between two calls of step the
\* cursor is at the root, so that the output of the next chunk starts there.
ScopesClosed == /\ call \in {"none", "over"} => depth = 0
                /\ depth <= run.auto

\* A stalled engine waits for input it can use: when step reports Stalled, no
\* statement applies to the buffer, so nothing that arrived is left unserved.
StalledIsStuck ==
    [][verdict' = "Stalled" /\ call = "step" /\ call' = "none" =>
          pos = fed \/ \A i \in DOMAIN stmts :
             /\ stmts[i].kind \in {"match", "skip"} => MatchLen(stmts[i].pat) <= 0
             /\ stmts[i].kind = "when" => MatchLen(stmts[i].pat) < 0]_vars

\* Grammars whose every statement consumes one token, and whose blocks consume
\* nothing and do not end the run: do.fail ends the batch engine, which skips what
\* is left of the input, but not this one.
Local == \A i \in DOMAIN stmts :
            /\ stmts[i].kind \in {"match", "skip"}
            /\ stmts[i].pat.kind = "word" /\ Len(stmts[i].pat.toks) = 1
            /\ \A j \in DOMAIN stmts[i].acts : stmts[i].acts[j].op \notin {"run", "return", "fail"}

\* What the batch engine does on the whole input with such a grammar: at every
\* position the first statement that matches, to the end or until none does.
Applying(p) == {i \in DOMAIN stmts : MatchLenIn(stmts[i].pat, p, Len(input)) > 0}
First(p) == CHOOSE i \in Applying(p) : \A j \in Applying(p) : i <= j
BatchFrom[p \in 0 .. Len(input)] ==
    IF p = Len(input) \/ Applying(p) = {} THEN <<>>
    ELSE <<[at |-> p, stmt |-> First(p)]>>
           \o BatchFrom[p + MatchLenIn(stmts[First(p)].pat, p, Len(input))]
BatchLog == BatchFrom[0]

\* For such grammars the cut of the input into chunks and the calls of step in
\* between cannot be seen: the finished run took the statements the batch
\* engine takes, at the same positions.  (A word or a run that a chunk ends in the
\* middle of is not waited for, so longer patterns do see the cut.)
ChunkingInvisible == call = "over" /\ Local => log = BatchLog

\* Grammars in which every block of a when statement ends the step, and no
\* action statement asks for the next iteration.
Ends(acts) == \E j \in DOMAIN acts : acts[j].op = "return" /\ acts[j].levels > 0
Progressive == \A i \in DOMAIN stmts :
                 /\ stmts[i].kind = "when" => Ends(stmts[i].acts)
                 /\ stmts[i].kind = "action" =>
                       \A j \in DOMAIN stmts[i].acts : stmts[i].acts[j].op # "next"

\* In such a grammar every call of step returns.
ProgressiveReturns == [](Progressive /\ call = "step" => <>(call # "step"))

\* The documentation of step: it runs until no more progress can be made or
\* the grammar ends, and returns.
StepReturns == call = "step" ~> call # "step"
=============================================================================
