--------------------------- MODULE StatementTerms ----------------------------
(***************************************************************************)
(* The terms in which the theorems about Statement are proved.             *)
(*                                                                         *)
(* Where a scan stops and what the parts of an expression match, for the   *)
(* fast path; what the parser, the compiler and the evaluators return; the *)
(* inductive invariant IInv of Statement; and what it is for tokens to sit *)
(* in a text, for the way back from the tokens to the document.  Nothing   *)
(* here models code: these are sets and relations over the operators of    *)
(* Statement and of the modules it composes.                               *)
(***************************************************************************)
EXTENDS Statement

\* The texts the first part is about.
Inputs == {s \in Seq(Char) : Utf8(s)}

-----------------------------------------------------------------------------
(* What the parts of an expression match                                   *)

\* The ends from p to m that cut no character.
Places(s, p, m) == {e \in p .. m : e \in Bounds(s)}

\* Classes of ASCII, and classes that have all bytes of a character or none.
Ascii(C) == "u" \notin C /\ "c" \notin C
WholeIn(s, C) == \A i \in 2 .. Len(s) : s[i] = "c" => (s[i - 1] \in C <=> s[i] \in C)

\* Largest position of a set of ends, 0 if there is none.
Longest(E) == IF E = {} THEN 0 ELSE CHOOSE e \in E : \A f \in E : f <= e

-----------------------------------------------------------------------------
(* Line endings                                                            *)

\* Past one line ending, if one stands there.
EolStep(s, q) == IF q < Len(s) /\ s[q + 1] = "n" THEN q + 1
              ELSE IF q + 1 < Len(s) /\ s[q + 1] = "r" /\ s[q + 2] = "n" THEN q + 2
              ELSE q

\* g leads from every place from i on to the end of its line endings.
LeadsOn(s, i, g) == \A p \in i .. Len(s) : g[p] = IF EolStep(s, p) = p THEN p ELSE g[EolStep(s, p)]

\* What an expression matches line by line, step after step.
EolLines(s, P) ==
    LET Round[n \in 0 .. Len(s)] == IF n = 0 THEN P ELSE Eol(s, Round[n - 1])
    IN  Round

-----------------------------------------------------------------------------
(* Recursive functions                                                     *)

\* A recursion over D that gets nearer to n by the measure M: the value is given
\* on Stop, and is everywhere else made from the value at J[x].
Recursion(D, n, V, M, Stop, J, B, H) ==
    /\ n \in Nat /\ M \in [D -> 0 .. n]
    /\ \A x \in D : x \in Stop => B[x] \in V
    /\ \A x \in D : x \notin Stop => J[x] \in D /\ M[J[x]] > M[x] /\ \A v \in V : H[<<x, v>>] \in V

\* A recursion upwards from 0: the value at i is made from the value at i - 1.
Iteration(n, V, b, H) == n \in Nat /\ b \in V /\ \A i \in 1 .. n : \A v \in V : H[<<i, v>>] \in V

\* The sequence g of the values of an iteration.
Iterated(g, n, V, b, H) == g \in [0 .. n -> V] /\ g[0] = b /\ \A i \in 1 .. n : g[i] = H[<<i, g[i - 1]>>]

-----------------------------------------------------------------------------
(* The parser                                                              *)

\* The texts of the parser.
Tokens == Seq(AnyToken)

\* What a parser returns that starts at i: nothing, or a part of the document and
\* the position after it.
Parsed(t, i, S) == [ok : {TRUE}, at : i .. Len(t) + 1, val : S] \cup {Fail}

\* What a loop of the parser returns: the parts, and the position after them.
Listed(A, S) == [ok : {TRUE}, at : A, val : Seq(S)]

\* A loop takes an item where it does not stop, and goes on at a later position.
IsLoop(D, n, M, S, Stop, At1, Item1, Nxt) ==
    /\ n \in Nat /\ M \in [D -> 0 .. n]
    /\ \A x \in D : x \in Stop => At1[x] \in M[x] .. n
    /\ \A x \in D : x \notin Stop => Item1[x] \in S /\ Nxt[x] \in D /\ M[Nxt[x]] > M[x]

-----------------------------------------------------------------------------
(* Expressions and calls                                                   *)

\* The alternatives of a statement.
Lists == Seq(AnyList) \ {<<>>}

-----------------------------------------------------------------------------
(* Statements                                                              *)

\* The calls under a statement.
Blocks == Seq(AnyCall) \ {<<>>}

\* The call on the line after j, if it is indented enough.
CallFrom(t, j, base) ==
    IF Width(t, After(t, j, {"Newline"})) < base THEN Fail
    ELSE FunctionCall(t, After(t, After(t, j, {"Newline"}), {"Indent"}))

-----------------------------------------------------------------------------
(* Documents                                                               *)

\* The parts of a document: defines and grammars.
AnyPart == [part : {"Define"}, name : Texts, def : AnyExpr] \cup [part : {"Grammar"}, name : Texts, def : AnyGrammar]

\* A part read, if one starts here.
PartAt(t, i) == CASE KindAt(t, i) = "Define"  -> DefineStatement(t, i)
                  [] KindAt(t, i) = "Grammar" -> GrammarStatement(t, i)
                  [] OTHER                    -> Fail

-----------------------------------------------------------------------------
(* What a variable stands for                                              *)

\* What a chain of definitions may end in that starts from e.
ChainEnds(defines, e) == {e} \cup {defines[m] : m \in {k \in DOMAIN defines : defines[k].kind # "Variable"}}

-----------------------------------------------------------------------------
(* Regular expressions                                                     *)

\* The types of what expressions are made of, and the ways to divide a text
\* among n items.
AnyItem == [set : SUBSET Symbol, opt : BOOLEAN, many : BOOLEAN]
AnyGroup == [from : Nat \ {0}, to : Nat, name : Texts]
Takes(n, m) == [1 .. n -> 0 .. m]

\* What an evaluation returns.
AnyMatch == [is : {"none", "match", "overflow", "error"}, len : Nat, caps : Seq(Texts), names : Seq(Texts)]

-----------------------------------------------------------------------------
(* Expressions and lists of them                                           *)

\* A match and the next expression of a list.
StepOne(defines, s, ci, m, e) ==
    IF m.is # "match" THEN m
    ELSE Joined(m, EvalExpression(defines, e, SubSeq(s, m.len + 1, Len(s)), ci, m.caps, m.names))

\* One step of the streaming engine along a list.
StepStreaming(defines, s, ci, m, e) ==
    IF m.is # "match" THEN m
    ELSE Joined(m, EvalStreaming(defines, e, SubSeq(s, m.len + 1, Len(s)), ci, m.caps, m.names))

\* A list is evaluated step by step, in either engine.
OneByOneBy(g, defines, exprs, s, ci) ==
    /\ g \in [0 .. Len(exprs) -> AnyMatch] /\ g[0] = Match(0, <<>>, <<>>)
    /\ \A i \in 1 .. Len(exprs) : g[i] = StepOne(defines, s, ci, g[i - 1], exprs[i])
    /\ OneByOne(defines, exprs, s, ci) = g[Len(exprs)]

\* The matches of a list, one more expression in each step, in the streaming
\* engine.
StreamingBy(g, defines, exprs, s, ci) ==
    /\ g \in [0 .. Len(exprs) -> AnyMatch] /\ g[0] = Match(0, <<>>, <<>>)
    /\ \A i \in 1 .. Len(exprs) : g[i] = StepStreaming(defines, s, ci, g[i - 1], exprs[i])
    /\ EvalFieldListStreaming(defines, exprs, s, ci) = g[Len(exprs)]

-----------------------------------------------------------------------------
(* Lists compiled                                                          *)

\* Compiled expressions, and compiled lists.
AnyRe == {re \in [items : Seq(AnyItem), groups : Seq(AnyGroup)] : IsRe(re)}
AnyFieldList == [exprs : Seq(AnyExpr), re : {<<>>} \cup {<<re>> : re \in AnyRe}, prefix : Texts]

\* The combined expression, one more part in each step.
WholeBy(g, parts) ==
    /\ g \in [0 .. Len(parts) -> AnyRe] /\ g[0] = Re(<<>>, <<>>)
    /\ \A i \in 1 .. Len(parts) : g[i] = ThenPart(g[i - 1], PatternOf(parts[i]))
    /\ Whole(parts) = g[Len(parts)]

\* The phases of a load, the calls of a document, what a run still owes, and
\* clean documents: those without a diagnostic and in which every definition
\* leads somewhere.
Loading == {"source", "parsed", "valid", "refused"}
CallsOf(doc) == UNION {Actions(stmt) : stmt \in Stmts(doc)}
Duties == [call : CallsOf(ast), of : AnyMatch]
Clean == Diagnostics(ast) = {} /\ Leads(ast.defines)

\* The document is whole and compiled as a whole.
DocumentOK ==
    /\ IsDoc(source.doc) /\ source.layout \in Layouts /\ source.input \in Inputs
    /\ IsDoc(ast)
    /\ compiled = IF phase \in Loading THEN <<>> ELSE Compiled(ast)

\* Nothing has been run while it is loaded, and what is to be run are its calls.
ProgressOK ==
    /\ phase \in Loading \cup {"ready", "matched", "done", "overflow", "panicked"}
    /\ pos \in Nat /\ match \in AnyMatch
    /\ running \in Seq(Duties)
    /\ calls \in Seq([rest : Seq(Duties), from : Nat])
    /\ phase \in Loading => running = <<>> /\ calls = <<>> /\ effect = NoEffect

\* What was done is what the last match makes of a call.
EffectOK ==
    effect.at.node # "none" =>
      effect.action \in Duties /\ OnTree(effect.action.call) /\ effect = Effect(effect.action, match)

\* No clean document has overflowed.
CleanOK == Clean => phase # "overflow"

\* The inductive invariant.
IInv == DocumentOK /\ ProgressOK /\ EffectOK /\ CleanOK

-----------------------------------------------------------------------------
(* The two engines.                                                        *)

\* Captures without a character that is encoded.
PlainCaps(m) == \A text \in ToSet(m.caps) : ToSet(text) \cap DOMAIN Hex = {}

-----------------------------------------------------------------------------
(* One expression after the other, and all at once.                        *)

\* An item takes the characters between two places.
Piece(item, s, a, b, ci) ==
    /\ a = b => item.opt
    /\ b > a + 1 => item.many
    /\ \A j \in a + 1 .. b : \E c \in item.set : Same(<<c>>, <<s[j]>>, ci)

\* What is taken by the items of one expression and then by those of another.
Catted(z, d, c, n, k) ==
    /\ d \in [1 .. n -> Nat] /\ c \in [1 .. k -> Nat] /\ z \in [1 .. n + k -> Nat]
    /\ \A i \in 1 .. n : z[i] = d[i]
    /\ \A i \in 1 .. k : z[n + i] = c[i]

\* The greediest division is one.
Best(re, s, ci, d) == d \in Divisions(re, s, ci) /\ \A y \in Divisions(re, s, ci) \ {d} : Before(d, y)

\* What is seen from a place within the window is what its own window starts with.
Aligned(w, v, off) ==
    /\ w \in Texts /\ v \in Texts /\ off \in Nat /\ off <= Len(w) /\ Len(w) - off <= Len(v)
    /\ \A j \in 1 .. Len(w) - off : w[off + j] = v[j]

\* What is between two places, seen from either.
Cut(s, a, b) == SubSeq(s, a, b)

\* The part from p to q of one text is that from m to b of the other.
Moved(w, v, off, a, b, p, q, m) ==
    /\ Aligned(w, v, off) /\ off \in Nat /\ a \in Nat /\ b \in Nat
    /\ p = off + a + 1 /\ q = off + b /\ m = a + 1 /\ q <= Len(w)

\* The captures are the texts of the groups.
CapsAre(re, w, d, caps, ci) ==
    /\ Len(caps) = Len(re.groups)
    /\ \A i \in 1 .. Len(re.groups) :
         Same(SubSeq(w, EndOf(d, re.groups[i].from - 1) + 1, EndOf(d, re.groups[i].to)), caps[i], ci)

\* A match is that of an expression on a window: the greediest division, its
\* length, its groups.
MatchOf(re, w, ci, d, len, caps) ==
    Best(re, w, ci, d) /\ EndOf(d, Len(re.items)) = len /\ CapsAre(re, w, d, caps, ci)

\* A match within the window is one of the expression.
Fits(re, s, ci, m) ==
    m.is = "match" /\ m.len <= Window =>
      m.len <= Len(InWindow(s)) /\ \E d : MatchOf(re, InWindow(s), ci, d, m.len, m.caps)

-----------------------------------------------------------------------------
(* Reading what was written                                                *)

\* The tokens p stand in the text t from i on.
Sits(t, i, p) ==
    /\ i \in 1 .. Len(t) + 1 /\ i + Len(p) \in 1 .. Len(t) + 1
    /\ \A k \in 1 .. Len(p) : t[i + k - 1] = p[k]

\* What opens a line indented n times.
Opened(layout, n) == LineEnd \o Gap(layout) \o Indent(n)

-----------------------------------------------------------------------------
(* Expressions and calls, read                                             *)

\* What stands between two alternatives.
Bar(layout) == IF layout.bars THEN LineEnd \o Indent(2) \o Mark("Pipe") ELSE Mark("Pipe")

\* How far a block is indented: not at all as long as its only call stands behind
\* the colon.
BaseOf(block, layout) == IF layout.inline /\ Len(block) = 1 THEN 0 ELSE 8

-----------------------------------------------------------------------------
(* Statements, read                                                        *)

\* The statements that have a block of calls.
Blocked == {"Match", "IMatch", "When"}

\* What follows a statement is not part of it.
Closes(t, at, stmt, layout) ==
    /\ KindAt(t, at) = "Newline"
    /\ stmt.kind \in Blocked => ~ CallFrom(t, at, BaseOf(stmt.actions, layout)).ok

\* The tokens of a statement without what opens its line.
WithoutLine(stmt, layout) ==
    CASE stmt.kind = "Skip"   -> Mark("Skip") \o ListTokens(stmt.alts[1])
      [] stmt.kind = "Action" -> CallTokens(stmt.actions[1])
      [] OTHER -> Mark(stmt.kind) \o AltTokens(stmt.alts, layout) \o Mark("Colon")
                  \o BlockTokens(stmt.actions, layout)

\* Statements that stand where they are seen as they are meant.
WellLaid(stmts, layout) ==
    /\ layout.gap # "spaces"
    /\ layout.inline => \A i \in 2 .. Len(stmts) : stmts[i].kind = "Action" => Len(stmts[i - 1].actions) # 1

\* The tokens of the statements of a grammar.
StmtsTokens(stmts, layout) == FlattenSeq([i \in DOMAIN stmts |-> StmtTokens(stmts[i], layout)])

-----------------------------------------------------------------------------
(* Documents, read                                                         *)

\* The name of a grammar, with that of the one it inherits from.
Heading(grammar) ==
    IF grammar.inherit = NoParent THEN <<>>
    ELSE Mark("LeftParen") \o Word(grammar.inherit) \o Mark("RightParen")

\* What is read from i on is the grammar, and its last line ends before end.
IsReadTo(t, i, end, name, grammar) ==
    \E at \in 1 .. Len(t) + 1 :
      /\ GrammarStatement(t, i) = Ok(at, [part |-> "Grammar", name |-> name, def |-> grammar])
      /\ KindAt(t, at) = "Newline" /\ end = at + 1

\* The names of a map, in the order in which they are written.
NamesOf(g) == SetToSeq(DOMAIN g)

\* The definitions or the grammars of a document, as they are inserted.
PartsOf(part, g) ==
    [m \in 1 .. Len(NamesOf(g)) |->
       [part |-> part, name |-> NamesOf(g)[m], def |-> g[NamesOf(g)[m]]]]

\* The tokens of all definitions, and of all grammars.
DefinesTokens(g) == FlattenSeq([m \in DOMAIN NamesOf(g) |-> DefineTokens(NamesOf(g)[m], g[NamesOf(g)[m]])])
GrammarsTokens(g, layout) ==
    FlattenSeq([m \in DOMAIN NamesOf(g) |-> GrammarTokens(NamesOf(g)[m], g[NamesOf(g)[m]], layout)])

\* The loop of a document: f reads what starts at each position.
ReadsOn(t, f) ==
    \A j \in 1 .. Len(t) + 1 :
      f[j] = IF KindAt(t, j) = "Newline" THEN f[j + 1]
             ELSE IF PartAt(t, j).ok THEN Prepend(PartAt(t, j).val, f[PartAt(t, j).at])
             ELSE Ok(j, <<>>)

\* Every grammar of a map is laid out well.
AllWellLaid(g, layout) == \A name \in DOMAIN g : WellLaid(g[name].stmts, layout)

==============================================================================
