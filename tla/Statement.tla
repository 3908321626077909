----------------------------- MODULE Statement -----------------------------
(***************************************************************************)
(* One statement from its source to its effect: the tokens of a document   *)
(* are parsed (Syntax), checked (Validate) and compiled, a statement is    *)
(* matched against the text (Patterns, FastSkip), and what it captured is  *)
(* put into the arguments of its actions and becomes paths and texts of    *)
(* the output tree (Paths).                                                *)
(*                                                                         *)
(* A document is loaded and then run, or was compiled before and is run on *)
(* another text, as GelContext does.  Which statement is tried when, how a *)
(* grammar ends and what the other actions do is Runner's: any statement   *)
(* of the document may be tried here, in a call too, and a call may end at *)
(* any time.  What the tree does is OutputTree's.                          *)
(***************************************************************************)
EXTENDS FastSkip, StreamingEval, Validate

CONSTANTS Sources,   \* documents as written, with their layout
          Loaded,    \* documents compiled before
          MaxCalls   \* bound on calls within calls
\* Each comes with the bytes and the length of the texts it is run on.  Patterns
\* has one symbol for a character: only skips are run on texts that are not ASCII.

\* Whether the first action of a block stands behind the colon, whether
\* alternatives have lines of their own, and what stands between two lines.
Layouts == [inline : BOOLEAN, bars : BOOLEAN, gap : {"none", "comment", "spaces"}]

ASSUME SourceAssumption ==
    /\ Char \subseteq Symbol
    /\ \A src \in Sources \cup Loaded :
         IsDoc(src.doc) /\ src.layout \in Layouts /\ src.chars \subseteq Char /\ src.length \in Nat

VARIABLES source,
          phase,     \* how far the source has got
          ast,
          compiled,  \* the field lists of each statement
          pos,       \* characters consumed
          match,     \* the last match of a statement with a block
          running,   \* the actions still to be run
          calls,     \* what the grammars under way return to
          effect     \* what the last action did since the last match

vars == <<source, phase, ast, compiled, pos, match, running, calls, effect>>

NoDoc == [defines |-> <<>>, grammars |-> <<>>]
\* Calls to be run, with the match whose captures their arguments are.
Due(block, m) == [i \in DOMAIN block |-> [call |-> block[i], of |-> m]]
NoEffect == [action |-> Due(<<Call(<<>>, <<>>)>>, NoMatch)[1],
             at |-> [node |-> "none", segs |-> <<>>], text |-> <<>>]

Remaining == SubSeq(source.input, pos + 1, Len(source.input))

\* What remains can be read: the position is not inside a character.
Readable == pos \in Bounds(source.input)

-----------------------------------------------------------------------------
(* The tokens of a document as written with a layout.                      *)

LineEnd == <<Token("Newline", <<"\n">>)>>
Indent(n) == <<Token("Indent", [i \in 1 .. 4 * n |-> " "])>>
Mark(kind) == <<Token(kind, <<>>)>>
Word(name) == <<Token("Identifier", name)>>

\* A blank line becomes part of the line end before it, a comment disappears,
\* but indentation is a token on a line without anything else too.
Gap(layout) == CASE layout.gap = "none"    -> <<>>
                 [] layout.gap = "comment" -> LineEnd
                 [] layout.gap = "spaces"  -> Indent(1) \o LineEnd

ExprTokens(e) ==
    CASE e.kind = "String" -> <<Token("String", <<"'">> \o e.val \o <<"'">>)>>
      [] e.kind = "Regex"  -> <<Token("Regex", <<"/">> \o e.val \o <<"/">>)>>
      [] e.kind = "Number" -> <<Token("Number", e.val)>>
      [] e.kind = "Variable" -> Word(e.val)
      [] OTHER -> <<Token("Capture", <<"$">> \o e.val)>>

ListTokens(list) == FlattenSeq([i \in DOMAIN list |-> ExprTokens(list[i])])

CallTokens(call) ==
    Word(call.name) \o
    IF call.args = <<>> THEN <<>>
    ELSE Mark("LeftParen")
         \o FlattenSeq([i \in DOMAIN call.args |->
                          (IF i = 1 THEN <<>> ELSE Mark("Comma")) \o ExprTokens(call.args[i])])
         \o Mark("RightParen")

AltTokens(alts, layout) ==
    FlattenSeq([i \in DOMAIN alts |->
      (CASE i = 1 -> <<>>
         [] i > 1 /\ layout.bars  -> LineEnd \o Indent(2) \o Mark("Pipe")
         [] i > 1 /\ ~layout.bars -> Mark("Pipe")) \o ListTokens(alts[i])])

BlockTokens(block, layout) ==
    FlattenSeq([i \in DOMAIN block |->
      (IF i = 1 /\ layout.inline THEN <<>> ELSE LineEnd \o Gap(layout) \o Indent(2)) \o CallTokens(block[i])])

StmtTokens(stmt, layout) ==
    LineEnd \o Gap(layout) \o Indent(1) \o
    CASE stmt.kind = "Skip"   -> Mark("Skip") \o ListTokens(stmt.alts[1])
      [] stmt.kind = "Action" -> CallTokens(stmt.actions[1])
      [] OTHER -> Mark(stmt.kind) \o AltTokens(stmt.alts, layout) \o Mark("Colon")
                  \o BlockTokens(stmt.actions, layout)

DefineTokens(name, e) == Mark("Define") \o Word(name) \o ExprTokens(e) \o LineEnd

GrammarTokens(name, grammar, layout) ==
    Mark("Grammar") \o Word(name)
    \o (IF grammar.inherit = NoParent THEN <<>>
        ELSE Mark("LeftParen") \o Word(grammar.inherit) \o Mark("RightParen"))
    \o Mark("Colon")
    \o FlattenSeq([i \in DOMAIN grammar.stmts |-> StmtTokens(grammar.stmts[i], layout)]) \o LineEnd

TokensOf(doc, layout) ==
    LET defines == SetToSeq(DOMAIN doc.defines)
        grammars == SetToSeq(DOMAIN doc.grammars)
    IN  FlattenSeq([i \in DOMAIN defines |-> DefineTokens(defines[i], doc.defines[defines[i]])])
        \o FlattenSeq([i \in DOMAIN grammars |->
                         GrammarTokens(grammars[i], doc.grammars[grammars[i]], layout)])
        \o Mark("EOF")

-----------------------------------------------------------------------------
(* Loading                                                                 *)

\* compile_regexes, for every statement.
Compiled(doc) ==
    [stmt \in Stmts(doc) |->
       [i \in DOMAIN stmt.alts |-> FieldList(doc.defines, stmt.alts[i])]]

StartsFrom(src) ==
    \E s \in BoundedSeq(src.chars, src.length) :
       Utf8(s) /\ source = [doc |-> src.doc, layout |-> src.layout, input |-> s]

Init ==
    /\ \/ /\ \E src \in Sources : StartsFrom(src)
          /\ phase = "source" /\ ast = NoDoc /\ compiled = <<>>
       \/ /\ \E src \in Loaded : StartsFrom(src)
          /\ phase = "ready" /\ ast = source.doc /\ compiled = Compiled(ast)
    /\ pos = 0 /\ match = NoMatch /\ running = <<>> /\ calls = <<>> /\ effect = NoEffect

Parse ==
    /\ phase = "source"
    /\ \E doc \in {Document(TokensOf(source.doc, source.layout))} :
         /\ phase' = IF doc.ok THEN "parsed" ELSE "refused"
         /\ ast' = IF doc.ok THEN doc.val ELSE NoDoc
    /\ UNCHANGED <<source, compiled, pos, match, running, calls, effect>>

\* Errors end it, warnings do not.
Check ==
    /\ phase = "parsed"
    /\ phase' = IF \E d \in Diagnostics(ast) : d.severity = "error" THEN "refused" ELSE "valid"
    /\ UNCHANGED <<source, ast, compiled, pos, match, running, calls, effect>>

Compile ==
    /\ phase = "valid"
    /\ phase' = "ready" /\ compiled' = Compiled(ast)
    /\ UNCHANGED <<source, ast, pos, match, running, calls, effect>>

-----------------------------------------------------------------------------
(* Matching                                                                *)

\* What the first statement that is tried and matches leaves to be done.
Run(stmt, m, at) ==
    /\ phase' = CASE m.is = "match" -> "matched" [] m.is = "overflow" -> "overflow" [] OTHER -> "done"
    /\ match' = IF m.is = "match" THEN m ELSE match
    /\ pos' = at
    /\ running' = IF m.is = "match" THEN Due(stmt.actions, m) ELSE <<>>
    /\ effect' = NoEffect
    /\ UNCHANGED <<source, ast, compiled, calls>>

\* eval_match; the text matched is consumed.
EvalMatch(stmt) ==
    /\ phase = "ready" /\ Readable /\ stmt.kind \in {"Match", "IMatch"}
    /\ \E m \in {EvalAlternatives(ast.defines, compiled[stmt], Remaining, stmt.kind = "IMatch")} :
         Run(stmt, m, pos + m.len)

\* eval_when: nothing is consumed.
EvalWhen(stmt) ==
    /\ phase = "ready" /\ Readable /\ stmt.kind = "When"
    /\ Run(stmt, EvalAlternatives(ast.defines, compiled[stmt], Remaining, FALSE), pos)

\* An action that stands alone: captures among its arguments are empty, but texts
\* are still filled in from the last match.
EvalAction(stmt) ==
    /\ phase = "ready" /\ stmt.kind = "Action"
    /\ phase' = "matched"
    /\ running' = Due(stmt.actions, NoMatch)
    /\ UNCHANGED <<source, ast, compiled, pos, match, calls, effect>>

FastKind(e) == {k \in Kinds : e = Expr("Regex", <<k>>)}

\* eval_skip: by the fast path if the expression has a kind.
Skipped(e) ==
    IF FastKind(e) # {} THEN LET n == Fast(CHOOSE k \in FastKind(e) : TRUE, Remaining)
                             IN  IF n > 0 THEN Match(n, <<>>, <<>>) ELSE NoMatch
    ELSE EvalExpression(ast.defines, e, Remaining, FALSE, <<>>, <<>>)

\* A skip that consumed something starts the statements over.
EvalSkip(stmt) ==
    /\ phase = "ready" /\ Readable /\ stmt.kind = "Skip"
    /\ \E m \in {Skipped(compiled[stmt][1].exprs[1])} :
         /\ pos' = pos + m.len
         /\ phase' = CASE m.len > 0 -> "ready" [] m.is = "overflow" -> "overflow" [] OTHER -> "done"
    /\ UNCHANGED <<source, ast, compiled, match, running, calls, effect>>

\* A skip left the position inside a character: slicing there panics.
ReadInside(stmt) ==
    /\ phase = "ready" /\ ~Readable /\ stmt.kind # "Action"
    /\ phase' = "panicked"
    /\ UNCHANGED <<source, ast, compiled, pos, match, running, calls, effect>>

-----------------------------------------------------------------------------
(* Acting                                                                  *)

\* How many arguments an action of the tree needs, and which one is the value.
Needs == [name \in {<<"out.create">>, <<"out.add">>, <<"out.replace">>, <<"out.open">>, <<"out.enter">>,
                     <<"out.add_attribute">>} |-> IF name = <<"out.add_attribute">> THEN 3 ELSE 1]
OnTree(call) == call.name \in DOMAIN Needs /\ Len(call.args) >= Needs[call.name]
Value(call) == CASE call.name = <<"out.add_attribute">> -> SubSeq(call.args, 3, 3)
                 [] call.name \in {<<"out.open">>, <<"out.enter">>} -> <<>>
                 [] OTHER -> SubSeq(call.args, 2, Min({2, Len(call.args)}))

\* An argument whose definitions form a circle.
Circular(arg) == LET e == Resolve(ast.defines, arg)
                 IN  e.kind = "Variable" /\ ~Dangles(ast.defines, e)

\* What an action does, by the text of its arguments: the path parsed and the
\* value decoded, but for an attribute's.
EffectBy(action, TextIn(_)) ==
    LET value == FlattenSeq([i \in DOMAIN Value(action.call) |-> TextIn(Value(action.call)[i])])
    IN  [action |-> action, at |-> Target(action.call.name, TextIn(action.call.args[1])),
         text |-> IF action.call.name = <<"out.add_attribute">> THEN value ELSE Decode(value)]

\* Captures of its own match substituted, and then references in texts filled in
\* from the last match.
Effect(action, last) ==
    EffectBy(action, LAMBDA arg :
      TextOf(ast.defines, Substitute(arg, action.of.caps, action.of.names), last.caps, last.names))

\* The same in the streaming engine.
EffectStreaming(action, last) ==
    EffectBy(action, LAMBDA arg :
      TextStreaming(ast.defines, SubstituteStreaming(ast.defines, arg, action.of.caps, action.of.names),
                    last.caps, last.names))

IsCall(call) == call.name \in DOMAIN ast.grammars

Act ==
    /\ phase = "matched" /\ running # <<>> /\ ~IsCall(running[1].call)
    /\ running' = Tail(running)
    /\ IF ~OnTree(running[1].call) THEN UNCHANGED <<phase, effect>>
       ELSE IF \E arg \in ToSet(running[1].call.args) : Circular(arg)
       THEN phase' = "overflow" /\ UNCHANGED effect
       ELSE /\ effect' = Effect(running[1], match)
            /\ phase' = IF effect'.at.node = "panic" THEN "panicked" ELSE phase
    /\ UNCHANGED <<source, ast, compiled, pos, match, calls>>

\* A grammar is called: its statements are tried next.
RunInlineGrammar ==
    /\ phase = "matched" /\ running # <<>> /\ IsCall(running[1].call) /\ Len(calls) < MaxCalls
    /\ phase' = "ready" /\ running' = <<>>
    /\ calls' = Append(calls, [rest |-> Tail(running), from |-> pos])
    /\ UNCHANGED <<source, ast, compiled, pos, match, effect>>

\* It ends; when it consumed something, the rest of the block is skipped.
Return ==
    /\ phase \in {"ready", "done"} /\ calls # <<>>
    /\ phase' = "matched"
    /\ running' = IF pos > Last(calls).from THEN <<>> ELSE Last(calls).rest
    /\ calls' = Front(calls)
    /\ UNCHANGED <<source, ast, compiled, pos, match, effect>>

\* The block is done: the statements are tried again.
Restart ==
    /\ phase = "matched" /\ running = <<>>
    /\ phase' = "ready"
    /\ UNCHANGED <<source, ast, compiled, pos, match, running, calls, effect>>

Next == \/ Parse \/ Check \/ Compile \/ Act \/ RunInlineGrammar \/ Return \/ Restart
        \/ \E stmt \in DOMAIN compiled :
             \/ EvalMatch(stmt) \/ EvalWhen(stmt) \/ EvalAction(stmt)
             \/ EvalSkip(stmt) \/ ReadInside(stmt)
Spec == Init /\ [][Next]_vars

-----------------------------------------------------------------------------
(* Properties                                                              *)

\* Layouts in which the parser sees the lines as they are meant: no line of
\* white space only, and no call as a statement right after a block whose only
\* action stands behind the colon (it becomes part of that block).
WellLaidOut(doc, layout) ==
    /\ layout.gap # "spaces"
    /\ layout.inline => \A g \in DOMAIN doc.grammars : \A i \in 2 .. Len(doc.grammars[g].stmts) :
         doc.grammars[g].stmts[i].kind = "Action" => Len(doc.grammars[g].stmts[i - 1].actions) # 1

\* A document in such a layout is parsed to what was meant: blocks end where the
\* indentation does, alternatives and lists go over lines, comments are nothing.
ParsesAsWritten ==
    phase # "source" /\ WellLaidOut(source.doc, source.layout) => ast = source.doc

\* Definitions that lead to a text, a number or an expression; the validator does
\* not look at definitions.
Leads(defines) == \A n \in DOMAIN defines : Resolve(defines, Expr("Variable", n)).kind # "Variable"

\* A document without diagnostics, and whose definitions lead somewhere, never
\* fails for what it is not: nothing it matches is undefined or no expression,
\* nothing it calls without arguments is unknown, and no definition is followed
\* for ever.
CleanRuns ==
    Diagnostics(ast) = {} /\ Leads(ast.defines) =>
      /\ phase # "overflow"
      /\ \A stmt \in DOMAIN compiled :
           /\ \A list \in ToSet(compiled[stmt]) : \A e \in ToSet(list.exprs) :
                e.kind # "Variable" /\ (e.kind = "Regex" => e.val \in DOMAIN Pattern)
           /\ \A call \in Actions(stmt) :
                call.args = <<>> => call.name \in Builtin \cup DOMAIN ast.grammars

\* On ordinary text every kind takes as many bytes as the characters have that its
\* regular expression matches, from every position a repeated skip gets to where
\* the text can be read.  On other text it may not: there the fast path is not the
\* complete stand-in for the expression that the comment in eval_skip takes it for.
FastIsRegex ==
    phase = "ready" /\ Readable =>
      \A stmt \in {s \in DOMAIN compiled : s.kind = "Skip"} : \A k \in FastKind(compiled[stmt][1].exprs[1]) :
        Ordinary(k, Remaining) => Fast(k, Remaining) = Regex(k, Remaining)

\* A match one expression after the other, within one window, and what the list
\* of expressions matches by the way that was compiled.
SameMatch(single, used, ci) ==
    single.is = "match" /\ single.len <= Window =>
      /\ used.is = "match" /\ used.len = single.len /\ Len(used.caps) = Len(single.caps)
      /\ \A i \in DOMAIN used.caps : Same(used.caps[i], single.caps[i], ci)

\* What matches one expression after the other, within one window, matches at
\* once too, is as long, and has the same captures under the same numbers (up to
\* case, when case is ignored); no prefix keeps it from being tried.
EvaluatorsAgree ==
    phase = "ready" =>
      \A stmt \in {s \in DOMAIN compiled : s.kind \in {"Match", "IMatch", "When"}} :
        LET ci == stmt.kind = "IMatch" IN
        \A list \in ToSet(compiled[stmt]) :
          list.re # <<>> => SameMatch(OneByOne(ast.defines, list.exprs, Remaining, ci),
                                      EvalFieldList(ast.defines, list, Remaining, ci), ci)

RefersBack(exprs) == \E e \in ToSet(exprs) : e.kind \in {"Capture", "CaptureName"}

\* Captures that need no encoding, in arguments without an escaped "$", whether
\* they are written out or defined.
PlainArgs(call, m) ==
    /\ \A text \in ToSet(m.caps) : ToSet(text) \cap DOMAIN Hex = {}
    /\ \A arg \in ToSet(call.args) :
         LET e == Resolve(ast.defines, arg) IN e.kind = "String" => "\\" \notin ToSet(e.val)

\* No reference in a text, and no argument, is to a capture by a name.
NumbersOnly(text) ==
    \A i \in {p \in DOMAIN text : text[p] = "$"} : \A j \in i + 1 .. Len(text) :
      (\A k \in i + 1 .. j : text[k] \in NameChar) => text[j] \in Digits
ByNumber(call) ==
    \A arg \in ToSet(call.args) :
      LET e == Resolve(ast.defines, arg)
      IN  arg.kind # "CaptureName" /\ (e.kind = "String" => NumbersOnly(e.val))

\* The effect of a call after a match in the batch engine, and after a match in the
\* streaming engine.
SameWrite(call, used, streamed) ==
    LET batch == Effect([call |-> call, of |-> used], used)
        stream == EffectStreaming([call |-> call, of |-> streamed], streamed)
    IN  batch.at = stream.at /\ batch.text = stream.text

\* The streaming engine evaluates a list, on a text within one window, as the other
\* engine does without a combined expression: variables followed when they are
\* met, captures under the same numbers and names.  A match that refers back,
\* itself or by a definition, to an empty capture, or one in another case, is
\* missed; nothing is matched in addition.
\* Each engine runs the calls of the block on its own match.  When both have the
\* same captures, the calls that write have the same effect, with two exceptions:
\* a capture that needs encoding, as the streaming engine encodes nothing, and a
\* reference by name when the batch engine has used a combined expression, as that
\* has no names; the names of the streaming engine then stand for a text and those
\* of the batch engine for none.
EnginesAgree ==
    phase = "ready" /\ Len(Remaining) <= Window =>
      \A stmt \in {s \in DOMAIN compiled : s.kind \in {"Match", "IMatch", "When"}} : \A i \in DOMAIN stmt.alts :
        LET ci == stmt.kind = "IMatch"
            single == OneByOne(ast.defines, compiled[stmt][i].exprs, Remaining, ci)
            used == EvalFieldList(ast.defines, compiled[stmt][i], Remaining, ci)
            streamed == EvalFieldListStreaming(ast.defines, stmt.alts[i], Remaining, ci)
        IN  /\ \/ streamed.is = "match"
               \/ single.is = "match" /\ ~RefersBack(compiled[stmt][i].exprs)
               => streamed = single
            /\ used.is = "match" /\ streamed.is = "match" /\ used.caps = streamed.caps =>
                 \A call \in {c \in ToSet(stmt.actions) : OnTree(c) /\ PlainArgs(c, used)} :
                   used.names = streamed.names \/ ByNumber(call) => SameWrite(call, used, streamed)

IsCapture(arg) == arg.kind \in {"Capture", "CaptureName"}
IsWrittenOut(arg) == arg.kind \notin {"Variable", "Regex"}

\* An argument as it is written, and with the captures it refers to put in.
Written(arg) == IF IsCapture(arg) THEN <<"$">> \o arg.val ELSE arg.val
Raw(text, m) == InterpolateLocal(text, m.caps, m.names)

\* The segments of a path as it is written, and then the captures put in.
FilledIn(path, m) ==
    LET segs == SelectSeq(ParsePath(path), LAMBDA seg : Raw(seg.tag, m) # <<>> \/ seg.attribs # <<>>)
    IN  [i \in DOMAIN segs |->
           [tag |-> Normal(Raw(segs[i].tag, m)),
            attribs |-> [j \in DOMAIN segs[i].attribs |->
                           <<Normal(Raw(segs[i].attribs[j][1], m)), Raw(segs[i].attribs[j][2], m)>>]]]

TrimValues(segs) ==
    [i \in DOMAIN segs |->
       [segs[i] EXCEPT !.attribs = [j \in DOMAIN @ |-> <<@[j][1], Trim(@[j][2])>>]]]

\* The path of an action is the cursor's own node: it is ".", written or captured.
MeansCursor(call, m) ==
    call.name \notin {<<"out.open">>, <<"out.enter">>} /\ Raw(Written(call.args[1]), m) = <<".">>

\* Whatever characters a capture has, they divide no path: putting it in and
\* parsing is parsing and then putting it in, apart from space around the value of
\* an attribute; and a text is written as it was captured, if it is written out
\* and not defined.  What a capture can do is what its text does as a whole: if
\* nothing else is in a segment, an empty capture leaves the segment out, and
\* "." is the node before it, or the cursor's own when it is all of the path, as
\* a "." that is written, for it is not encoded.
\* A capture that is an argument is one of the action's own match, whatever was
\* called in between; one within a text is of the last match.
CapturesSurvive ==
    LET call == effect.action.call
        value == Value(call)
        Refers(arg) == IF IsCapture(arg) THEN effect.action.of ELSE match
    IN  /\ effect.at.node # "none" /\ IsWrittenOut(call.args[1]) =>
             IF MeansCursor(call, Refers(call.args[1])) THEN effect.at.node = "cursor"
             ELSE /\ effect.at.node # "cursor"
                  /\ TrimValues(effect.at.segs) = TrimValues(FilledIn(Written(call.args[1]), Refers(call.args[1])))
        /\ effect.at.node # "none" /\ call.name # <<"out.add_attribute">> /\ value # <<>> /\ IsWrittenOut(value[1]) =>
             effect.text = Raw(Written(value[1]), Refers(value[1]))
=============================================================================
