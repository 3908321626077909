------------------------------- MODULE Runner -------------------------------
(***************************************************************************)
(* The batch engine (Runner of src/exec/mod.rs): run_grammar, the grammars *)
(* it runs inline, the actions of a block and the triggers they register.  *)
(*                                                                         *)
(* The engine is recursive code over one mutable position, one output tree *)
(* and one set of trigger lists.  Its call stack is the sequence frames:   *)
(* frame 1 is run_grammar, the others are calls of run_inline_grammar.     *)
(* Every action below is one step of the code between two points where it  *)
(* can branch.                                                             *)
(*                                                                         *)
(* Abstractions.  The input is a sequence of tokens; a pattern is a token  *)
(* (a match of length 1) or Empty (a match of length 0).  Of the output    *)
(* tree only the depth of the cursor stack is kept (module OutputTree has  *)
(* the rest).  Captures, traces and the errors of a pattern that does not  *)
(* resolve are left out.  Statements are those of stmt_cache, inherited    *)
(* ones included (module Inherit).                                         *)
(***************************************************************************)
EXTENDS Integers, Sequences, FiniteSets

CONSTANTS Grammar, Token,
          Name,        \* path segments
          Docs,        \* documents: functions from grammar names to statements
          Inputs,      \* inputs: sequences of tokens
          Main,        \* the grammar run_grammar is called with
          Empty,       \* the pattern that matches without consuming
          MaxFrames    \* bound on the nesting of grammar calls

Kinds == {"before", "after", "on_add", "on_leave"}
Pattern == Token \cup {Empty}

\* The actions of a block; call is the bare name of a grammar.
Action == [op : {"next", "skip", "fail", "leave", "clear"}]
            \cup [op : {"call"}, g : Grammar]
            \cup [op : {"return"}, levels : Int]
            \cup [op : {"add", "open", "enter"}, path : Seq(Name)]
            \cup [op : {"enqueue"}, kind : Kinds, rx : Pattern, keep : BOOLEAN]

\* An action statement holds one action, a skip statement none.
Statement == {s \in [kind : {"match", "when", "skip", "action"}, pat : Pattern, acts : Seq(Action)] :
                s.kind = "action" => Len(s.acts) = 1}

ASSUME MainAssumption == Main \in Grammar
ASSUME DocsAssumption == Docs \subseteq [Grammar -> Seq(Statement)]
ASSUME InputsAssumption == Inputs \subseteq Seq(Token)
ASSUME MaxFramesAssumption == MaxFrames \in Nat \ {0}

VARIABLES doc, input,  \* chosen at the start
          pos,         \* ctx.pos
          frames,      \* the call stack
          depth,       \* length of the cursor stack above the root
          single,      \* single-shot trigger lists, by kind
          persist,     \* persistent trigger lists, by kind
          text,        \* last_match_text: <<>> or one token
          consumed,    \* result.consumed
          error,       \* result.error is set
          done,        \* run_grammar has returned
          failed,      \* history: frame in which do.fail ran, 0 before
          late         \* history: an action ran after do.fail

tree == <<depth, single, persist>>
vars == <<doc, input, pos, frames, tree, text, consumed, error, done, failed, late>>

\* A call of grammar g: via is "top", "stmt" (Statement::Action) or "act"
\* (a bare name in an action block).
NewFrame(g, via) ==
    [g |-> g, via |-> via, phase |-> "scan", i |-> 1,
     start |-> pos,        \* position of the call
     iter |-> pos,         \* position at the start of this loop iteration
     stmt |-> pos,         \* position before the current statement
     acts |-> <<>>, prev |-> "none",
     auto |-> 0,           \* pending_auto_leaves
     ret |-> 0, next |-> FALSE, fail |-> FALSE,
     base |-> depth]       \* history: cursor depth at the call

Init == /\ doc \in Docs /\ input \in Inputs
        /\ pos = 0 /\ depth = 0
        /\ single = [k \in Kinds |-> <<>>] /\ persist = [k \in Kinds |-> <<>>]
        /\ text = <<>> /\ consumed = 0 /\ error = FALSE /\ done = FALSE
        /\ frames = <<NewFrame(Main, "top")>>
        /\ failed = 0 /\ late = FALSE

Top == frames[Len(frames)]
IsTop == Len(frames) = 1
Stmts == doc[Top.g]
Stmt == Stmts[Top.i]
SetTop(f) == frames' = [frames EXCEPT ![Len(frames)] = f]
In(phase) == ~done /\ Top.phase = phase
Act == Head(Top.acts)
Rest == [Top EXCEPT !.acts = Tail(@), !.prev = Act.op]

-----------------------------------------------------------------------------
(* Patterns and triggers                                                   *)

\* eval_match / eval_when / eval_skip: the length of the match, -1 for none.
MatchLen(pat) == IF pat = Empty THEN 0
                 ELSE IF pos < Len(input) /\ input[pos + 1] = pat THEN 1 ELSE -1

\* A trigger's regex on the last matched text: Empty is found in any text.
Hits(trig, t) == trig.rx = Empty \/ trig.rx \in {t[j] : j \in DOMAIN t}

SwapRemove(q, i) ==
    [j \in 1 .. Len(q) - 1 |-> IF j = i THEN q[Len(q)] ELSE q[j]]

\* Mutant of Fired: the hits are removed from the first one up.
FiredAscending(q, t) ==
    LET Left[n \in 0 .. Len(q)] ==
          IF n = 0 THEN q
          ELSE IF Hits(q[n], t) THEN SwapRemove(Left[n - 1], n) ELSE Left[n - 1]
    IN  Left[Len(q)]

\* What fire_list leaves of q once the hits from n + 1 on are removed, the last
\* one first.
FiredDownTo(q, t) ==
    LET Left[n \in 0 .. Len(q)] ==
          IF n = Len(q) THEN q
          ELSE IF Hits(q[n + 1], t) THEN SwapRemove(Left[n + 1], n + 1) ELSE Left[n + 1]
    IN  Left

\* fire_list: every hit is removed.
Fired(q, t) == FiredDownTo(q, t)[0]

\* fire_triggers(kind): single-shot triggers that hit leave their list; their
\* add_path and that of the persistent ones does not move the cursor.
AfterFire(kind, t) == [single EXCEPT ![kind] = Fired(@, t)]

-----------------------------------------------------------------------------
(* The statement loop                                                      *)

\* A match or when statement hits: the block starts with the before triggers.
Hit ==
    /\ In("scan") /\ Top.i <= Len(Stmts) /\ Stmt.kind \in {"match", "when"}
    /\ MatchLen(Stmt.pat) >= 0
    /\ LET n == IF Stmt.kind = "match" THEN MatchLen(Stmt.pat) ELSE 0
           t == SubSeq(input, pos + 1, pos + n)
       IN  /\ pos' = pos + n
           /\ text' = t
           /\ single' = AfterFire("before", t)
    /\ SetTop([Top EXCEPT !.phase = "acts", !.acts = Stmt.acts, !.prev = "none",
                          !.auto = 0, !.stmt = pos])
    /\ UNCHANGED <<doc, input, depth, persist, consumed, error, done, failed, late>>

\* A skip statement consumes and restarts the loop.
SkipHit ==
    /\ In("scan") /\ Top.i <= Len(Stmts) /\ Stmt.kind = "skip"
    /\ MatchLen(Stmt.pat) > 0
    /\ pos' = pos + MatchLen(Stmt.pat)
    /\ consumed' = IF IsTop THEN consumed + MatchLen(Stmt.pat) ELSE consumed
    /\ SetTop([Top EXCEPT !.phase = "iter"])
    /\ UNCHANGED <<doc, input, tree, text, error, done, failed, late>>

\* A statement that does not apply.
NoHit ==
    /\ In("scan") /\ Top.i <= Len(Stmts)
    /\ \/ Stmt.kind \in {"match", "when"} /\ MatchLen(Stmt.pat) < 0
       \/ Stmt.kind = "skip" /\ MatchLen(Stmt.pat) <= 0
    /\ SetTop([Top EXCEPT !.i = @ + 1])
    /\ UNCHANGED <<doc, input, pos, tree, text, consumed, error, done, failed, late>>

\* A grammar name as a statement.
StmtCall ==
    /\ In("scan") /\ Top.i <= Len(Stmts) /\ Stmt.kind = "action"
    /\ Head(Stmt.acts).op = "call" /\ Len(frames) < MaxFrames
    /\ frames' = Append([frames EXCEPT ![Len(frames)].stmt = pos],
                        NewFrame(Head(Stmt.acts).g, "stmt"))
    /\ UNCHANGED <<doc, input, pos, tree, text, consumed, error, done, failed, late>>

\* Any other action as a statement: a block of one action.
StmtAction ==
    /\ In("scan") /\ Top.i <= Len(Stmts) /\ Stmt.kind = "action"
    /\ Head(Stmt.acts).op # "call"
    /\ SetTop([Top EXCEPT !.phase = "acts", !.acts = Stmt.acts, !.prev = "none",
                          !.auto = 0, !.stmt = pos])
    /\ UNCHANGED <<doc, input, pos, tree, text, consumed, error, done, failed, late>>

\* No statement is left.
EndFor ==
    /\ In("scan") /\ Top.i > Len(Stmts)
    /\ SetTop([Top EXCEPT !.phase = "iter"])
    /\ UNCHANGED <<doc, input, pos, tree, text, consumed, error, done, failed, late>>

\* Mutant of Again: the loop does not ask for progress.
AgainAlways ==
    /\ In("iter") /\ ~(IsTop /\ pos >= Len(input))
    /\ SetTop([Top EXCEPT !.phase = "scan", !.i = 1, !.iter = pos])
    /\ UNCHANGED <<doc, input, pos, tree, text, consumed, error, done, failed, late>>

\* The end of a loop iteration: again from the first statement if it advanced.
Again ==
    /\ In("iter") /\ pos > Top.iter /\ ~(IsTop /\ pos >= Len(input))
    /\ SetTop([Top EXCEPT !.phase = "scan", !.i = 1, !.iter = pos])
    /\ UNCHANGED <<doc, input, pos, tree, text, consumed, error, done, failed, late>>

\* run_grammar returns at the end of the input or without progress.
Finish ==
    /\ In("iter") /\ IsTop /\ (pos >= Len(input) \/ pos = Top.iter)
    /\ done' = TRUE
    /\ UNCHANGED <<doc, input, pos, frames, tree, text, consumed, error, failed, late>>

\* run_inline_grammar returns.
Return ==
    /\ In("iter") /\ ~IsTop /\ pos = Top.iter
    /\ SetTop([Top EXCEPT !.phase = "back"])
    /\ UNCHANGED <<doc, input, pos, tree, text, consumed, error, done, failed, late>>

-----------------------------------------------------------------------------
(* The actions of a block                                                  *)

Leave(d) == IF d > 0 THEN d - 1 ELSE 0
Minus1(n) == IF n > 0 THEN n - 1 ELSE 0

Acting(op) == In("acts") /\ Top.acts # <<>> /\ Act.op = op
Ran == late' = (late \/ failed # 0)

\* A grammar name in a block.
ActCall ==
    /\ Acting("call") /\ Len(frames) < MaxFrames
    /\ frames' = Append(frames, NewFrame(Act.g, "act"))
    /\ Ran
    /\ UNCHANGED <<doc, input, pos, tree, text, consumed, error, done, failed>>

\* out.create, add, replace, add_attribute: the operation, then enter the
\* node, fire on_add there, leave.  Entering a path without segments pushes
\* nothing, leaving pops all the same.
ActAdd ==
    /\ Acting("add")
    /\ single' = AfterFire("on_add", text)
    /\ depth' = IF Act.path = <<>> THEN Leave(depth) ELSE depth
    /\ SetTop(Rest) /\ Ran
    /\ UNCHANGED <<doc, input, pos, persist, text, consumed, error, done, failed>>

\* out.open, out.enter: pushes the node and owes one leave.
ActOpen ==
    /\ Acting("open") \/ Acting("enter")
    /\ single' = AfterFire("on_add", text)
    /\ depth' = IF Act.path = <<>> THEN depth ELSE depth + 1
    /\ SetTop([Rest EXCEPT !.auto = @ + 1]) /\ Ran
    /\ UNCHANGED <<doc, input, pos, persist, text, consumed, error, done, failed>>

\* out.leave: takes over one owed leave.
ActLeave ==
    /\ Acting("leave")
    /\ single' = AfterFire("on_leave", text)
    /\ depth' = Leave(depth)
    /\ SetTop([Rest EXCEPT !.auto = Minus1(@)]) /\ Ran
    /\ UNCHANGED <<doc, input, pos, persist, text, consumed, error, done, failed>>

\* do.skip, do.next, do.return: the rest of the block is dropped.
ActControl ==
    /\ Acting("skip") \/ Acting("next") \/ Acting("return")
    /\ SetTop([Top EXCEPT !.acts = <<>>,
                          !.next = Act.op = "next",
                          !.ret = IF Act.op # "return" THEN 0
                                  ELSE IF Act.levels < 1 THEN 1 ELSE Act.levels])
    /\ Ran
    /\ UNCHANGED <<doc, input, pos, tree, text, consumed, error, done, failed>>

\* Mutant of ActFail: the rest of the block runs.
ActFailGoesOn ==
    /\ Acting("fail")
    /\ pos' = Len(input)
    /\ SetTop([Rest EXCEPT !.fail = TRUE, !.ret = 1])
    /\ failed' = IF failed = 0 THEN Len(frames) ELSE failed
    /\ Ran
    /\ UNCHANGED <<doc, input, tree, text, consumed, error, done>>

\* do.fail.
ActFail ==
    /\ Acting("fail")
    /\ pos' = Len(input)
    /\ SetTop([Top EXCEPT !.acts = <<>>, !.fail = TRUE, !.ret = 1])
    /\ failed' = IF failed = 0 THEN Len(frames) ELSE failed
    /\ Ran
    /\ UNCHANGED <<doc, input, tree, text, consumed, error, done>>

\* out.enqueue_<kind> and out.enqueue_<kind>_persist.
ActEnqueue ==
    /\ Acting("enqueue")
    /\ LET trig == [rx |-> Act.rx] IN
         IF Act.keep
           THEN persist' = [persist EXCEPT ![Act.kind] = Append(@, trig)] /\ UNCHANGED single
           ELSE single' = [single EXCEPT ![Act.kind] = Append(@, trig)] /\ UNCHANGED persist
    /\ SetTop(Rest) /\ Ran
    /\ UNCHANGED <<doc, input, pos, depth, text, consumed, error, done, failed>>

\* out.clear_queue.
ActClear ==
    /\ Acting("clear")
    /\ single' = [k \in Kinds |-> IF k = "on_leave" THEN single[k] ELSE <<>>]
    /\ SetTop(Rest) /\ Ran
    /\ UNCHANGED <<doc, input, pos, depth, persist, text, consumed, error, done, failed>>

\* One owed leave at the end of the block, with its on_leave triggers.
AutoLeave ==
    /\ In("acts") /\ Top.acts = <<>> /\ Top.auto > 0
    /\ single' = AfterFire("on_leave", text)
    /\ depth' = Leave(depth)
    /\ SetTop([Top EXCEPT !.auto = @ - 1])
    /\ UNCHANGED <<doc, input, pos, persist, text, consumed, error, done, failed, late>>

\* Mutant of EndBlock: do.next of an earlier block is not forgotten.
EndBlockKeepNext ==
    /\ In("acts") /\ Top.acts = <<>> /\ Top.auto = 0
    /\ LET advanced == pos > Top.stmt
           block    == Stmt.kind # "action"
           leaves   == Top.ret > 0 \/ Top.next
           f        == [Top EXCEPT !.fail = FALSE]
       IN  /\ error' = (error \/ (IsTop /\ Top.fail))
           /\ consumed' = IF IsTop /\ (Stmt.kind = "match" \/ (~block /\ ~leaves))
                            THEN consumed + (pos - Top.stmt) ELSE consumed
           /\ single' = IF block /\ ~leaves THEN AfterFire("after", text) ELSE single
           /\ done' = (IsTop /\ Top.ret > 0)
           /\ SetTop(IF Top.ret > 0 THEN [f EXCEPT !.phase = "back"]
                     ELSE IF block \/ Top.next \/ advanced THEN [f EXCEPT !.phase = "iter"]
                     ELSE [f EXCEPT !.phase = "scan", !.i = @ + 1])
    /\ UNCHANGED <<doc, input, pos, depth, persist, text, failed, late>>

\* Mutant of EndBlock: consumption is counted after the early exits.
EndBlockLateCount ==
    /\ In("acts") /\ Top.acts = <<>> /\ Top.auto = 0
    /\ LET advanced == pos > Top.stmt
           block    == Stmt.kind # "action"
           leaves   == Top.ret > 0 \/ Top.next
           f        == [Top EXCEPT !.next = FALSE, !.fail = FALSE]
       IN  /\ error' = (error \/ (IsTop /\ Top.fail))
           /\ consumed' = IF IsTop /\ Stmt.kind # "when" /\ ~leaves
                            THEN consumed + (pos - Top.stmt) ELSE consumed
           /\ single' = IF block /\ ~leaves THEN AfterFire("after", text) ELSE single
           /\ done' = (IsTop /\ Top.ret > 0)
           /\ SetTop(IF Top.ret > 0 THEN [f EXCEPT !.phase = "back"]
                     ELSE IF block \/ Top.next \/ advanced THEN [f EXCEPT !.phase = "iter"]
                     ELSE [f EXCEPT !.phase = "scan", !.i = @ + 1])
    /\ UNCHANGED <<doc, input, pos, depth, persist, text, failed, late>>

\* The end of a block: what run_grammar and run_inline_grammar do with the
\* result of execute_runtime_actions.
EndBlock ==
    /\ In("acts") /\ Top.acts = <<>> /\ Top.auto = 0
    /\ LET advanced == pos > Top.stmt
           block    == Stmt.kind # "action"
           leaves   == Top.ret > 0 \/ Top.next
           f        == [Top EXCEPT !.next = FALSE, !.fail = FALSE]
       IN  /\ error' = (error \/ (IsTop /\ Top.fail))
           /\ consumed' = IF IsTop /\ (Stmt.kind = "match" \/ (~block /\ ~leaves))
                            THEN consumed + (pos - Top.stmt) ELSE consumed
           /\ single' = IF block /\ ~leaves THEN AfterFire("after", text) ELSE single
           /\ done' = (IsTop /\ Top.ret > 0)
           /\ SetTop(IF Top.ret > 0 THEN [f EXCEPT !.phase = "back"]
                     ELSE IF block \/ Top.next \/ advanced THEN [f EXCEPT !.phase = "iter"]
                     ELSE [f EXCEPT !.phase = "scan", !.i = @ + 1])
    /\ UNCHANGED <<doc, input, pos, depth, persist, text, failed, late>>

-----------------------------------------------------------------------------
(* A grammar returns to its caller, Caller, with (consumed, remaining)     *)

Caller == frames[Len(frames) - 1]
SubConsumed == pos > Top.start
Remaining == Minus1(Top.ret)
PopTo(f) == frames' = Append(SubSeq(frames, 1, Len(frames) - 2), f)

\* Mutant of BackToBlock: the owed leave is settled without leaving.
BackToBlockNoLeave ==
    /\ In("back") /\ Top.via = "act"
    /\ LET opened == Caller.prev = "open"
           left   == IF SubConsumed THEN <<>> ELSE Tail(Caller.acts)
       IN  /\ depth' = depth
           /\ PopTo([Caller EXCEPT !.acts = left, !.prev = "call",
                                   !.auto = IF opened THEN Minus1(@) ELSE @])
    /\ UNCHANGED <<doc, input, pos, single, persist, text, consumed, error, done, failed, late>>

\* Mutant of BackToBlock: the leave stays owed.
BackToBlockOwesTwice ==
    /\ In("back") /\ Top.via = "act"
    /\ LET opened == Caller.prev = "open"
           left   == IF SubConsumed THEN <<>> ELSE Tail(Caller.acts)
       IN  /\ depth' = IF opened THEN Leave(depth) ELSE depth
           /\ PopTo([Caller EXCEPT !.acts = left, !.prev = "call"])
    /\ UNCHANGED <<doc, input, pos, single, persist, text, consumed, error, done, failed, late>>

\* To an action block: remaining levels and error are dropped; a preceding
\* out.open is left; progress drops the rest of the block.
BackToBlock ==
    /\ In("back") /\ Top.via = "act"
    /\ LET opened == Caller.prev = "open"
           left   == IF SubConsumed THEN <<>> ELSE Tail(Caller.acts)
       IN  /\ depth' = IF opened THEN Leave(depth) ELSE depth
           /\ PopTo([Caller EXCEPT !.acts = left, !.prev = "call",
                                   !.auto = IF opened THEN Minus1(@) ELSE @])
    /\ UNCHANGED <<doc, input, pos, single, persist, text, consumed, error, done, failed, late>>

\* To a statement: remaining levels end the caller too; progress restarts its
\* loop; otherwise it goes on with its next statement.
BackToStmt ==
    /\ In("back") /\ Top.via = "stmt"
    /\ LET callerTop == Len(frames) = 2
       IN  /\ PopTo(IF Remaining > 0 THEN [Caller EXCEPT !.phase = "back", !.ret = Remaining]
                    ELSE IF SubConsumed THEN [Caller EXCEPT !.phase = "iter"]
                    ELSE [Caller EXCEPT !.i = @ + 1])
           /\ consumed' = IF callerTop THEN consumed + (pos - Caller.stmt) ELSE consumed
           /\ done' = (callerTop /\ Remaining > 0)
    /\ UNCHANGED <<doc, input, pos, tree, text, error, failed, late>>

Scan == Hit \/ SkipHit \/ NoHit \/ StmtCall \/ StmtAction \/ EndFor \/ Again \/ Finish \/ Return
Block == \/ ActCall \/ ActAdd \/ ActOpen \/ ActLeave \/ ActControl \/ ActFail
         \/ ActEnqueue \/ ActClear \/ AutoLeave \/ EndBlock
Next == Scan \/ Block \/ BackToBlock \/ BackToStmt

Spec == Init /\ [][Next]_vars

\* The engine is one thread that runs until it returns.
FairSpec == Spec /\ WF_vars(Next)

-----------------------------------------------------------------------------
(* Properties                                                              *)

\* Types of the variables a step can change.
TypeOK ==
    /\ pos \in 0 .. Len(input) /\ depth \in Nat /\ consumed \in Nat
    /\ {error, done, late} \subseteq BOOLEAN /\ failed \in 0 .. MaxFrames
    /\ Len(frames) \in 1 .. MaxFrames
    /\ \A k \in DOMAIN frames :
         /\ frames[k].phase \in {"scan", "acts", "iter", "back"}
         /\ frames[k].via \in {"top", "stmt", "act"} /\ frames[k].g \in DOMAIN doc
         /\ frames[k].i \in 1 .. Len(doc[frames[k].g]) + 1
         /\ {frames[k].auto, frames[k].ret, frames[k].base} \subseteq Nat

\* The state is well typed and the call stack coherent: each caller waits at
\* the call it made, and positions never go back from a caller to its callee,
\* so that consumption measured on return (pos - start) is what the callee
\* consumed.
CallStack ==
    /\ TypeOK
    /\ \A k \in DOMAIN frames : LET f == frames[k] IN f.start <= f.iter /\ f.iter <= pos
    /\ \A k \in 1 .. Len(frames) - 1 :
         LET f == frames[k]  callee == frames[k + 1]
             call == IF callee.via = "act" THEN f.acts ELSE doc[f.g][f.i].acts
         IN  /\ f.iter <= f.stmt /\ f.stmt <= callee.start
             /\ f.phase = IF callee.via = "act" THEN "acts" ELSE "scan"
             /\ Head(call).op = "call" /\ Head(call).g = callee.g
             /\ f.ret = 0 /\ ~f.next

\* What a frame may have on the cursor stack: its caller's scopes and one for
\* every leave it still owes.
Allowance(f) == f.base + f.auto

\* No block leaves a scope open behind it: whatever is called, returned from,
\* skipped or failed in between, the cursor is never deeper than the scopes
\* whose leave is still owed, and the finished run is back at the root.
ScopesClosed ==
    /\ \A k \in 1 .. Len(frames) - 1 : frames[k + 1].base <= Allowance(frames[k])
    /\ depth <= Allowance(Top)
    /\ done => depth = 0

\* A document whose blocks have no explicit out.leave and no path without
\* segments.
Polite == \A g \in DOMAIN doc : \A i \in DOMAIN doc[g] :
            \A j \in DOMAIN doc[g][i].acts : LET a == doc[g][i].acts[j] IN
                a.op # "leave" /\ (a.op \in {"add", "open", "enter"} => a.path # <<>>)

\* In such a document no block and no called grammar leaves a scope it did not
\* open itself: output lands under the node that is open.
ScopesKept ==
    Polite => /\ \A k \in 1 .. Len(frames) - 1 : frames[k + 1].base = Allowance(frames[k])
              /\ depth = Allowance(Top)

\* Without when statements and without actions as statements in the grammar
\* that is run, consumed is the position the run ended at.
Accountable == \A i \in DOMAIN doc[Main] : LET s == doc[Main][i] IN
                  \/ s.kind \in {"match", "skip"}
                  \/ s.kind = "action" /\ Head(s.acts).op = "call"
ConsumedIsPosition == done => consumed <= pos /\ (Accountable => consumed = pos)

\* A do.fail of the grammar that is run ends everything: nothing runs after
\* it and the run reports the error.
FailAtTopIsFinal == failed = 1 => ~late /\ (done => error)

\* The run ends, for every document without recursive grammar calls: empty
\* matches, lookahead and grammars that consume nothing do not keep it going.
Terminates == <>done

\* When a kind fires, exactly the single-shot triggers that hit the matched
\* text leave its list, and every other one stays as often as it was there,
\* although swap_remove reorders the list between two removals.
Copies(q, rx) == Cardinality({i \in DOMAIN q : q[i].rx = rx})
SingleShotExact ==
    [][~ActClear => \A k \in Kinds :
          Len(single'[k]) < Len(single[k]) =>
             \A i \in DOMAIN single[k] : LET trig == single[k][i] IN
                Copies(single'[k], trig.rx) =
                   IF Hits(trig, text') THEN 0 ELSE Copies(single[k], trig.rx)]_vars

\* docs/syntax.md of do.fail: it records an error and terminates execution.
FailStops == failed # 0 => ~late /\ (done => error)

=============================================================================
