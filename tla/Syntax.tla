------------------------------- MODULE Syntax -------------------------------
(***************************************************************************)
(* The parser of Gel documents (src/parser/syntax.rs): recursive descent   *)
(* over the tokens of a document, first alternative that parses.           *)
(*                                                                         *)
(* A parser takes the tokens and the position of the next one; it returns  *)
(* whether it succeeded, the position after what it took, and the part of  *)
(* the document.  The code passes the rest of a slice of tokens instead.   *)
(* Loops are recursive functions of the position.                          *)
(*                                                                         *)
(* Abstractions.  A name, a text and a number are sequences of characters  *)
(* or of one name.  Spans and messages of errors are left out, and so are  *)
(* numbers too large for i64, which the code does not parse.               *)
(***************************************************************************)
EXTENDS Naturals, SequencesExt

CONSTANT Symbol   \* what texts and names consist of

Digits == {"0", "1", "2", "3", "4", "5", "6", "7", "8", "9"}
ASSUME SymbolAssumption == Digits \cup {"'", "/", "$", "%", "\n", " "} \subseteq Symbol

Token(kind, slice) == [kind |-> kind, slice |-> slice]

\* What the document consists of.
Expr(kind, val) == [kind |-> kind, val |-> val]
Call(name, args) == [name |-> name, args |-> args]
Stmt(kind, alts, actions) == [kind |-> kind, alts |-> alts, actions |-> actions]
Grammar(inherit, stmts) == [inherit |-> inherit, stmts |-> stmts]
NoParent == <<>>

AllDigits(s) == \A i \in DOMAIN s : s[i] \in Digits

\* A number read and written again: without leading zeros.
Canonical(s) ==
    LET lead == {i \in 1 .. Len(s) - 1 : \A j \in 1 .. i : s[j] = "0"}
    IN  SubSeq(s, Cardinality(lead) + 1, Len(s))

\* Those with all they must have.  Numbers have no leading zeros, and references
\* are to a group by its number exactly when they are written in digits.
Texts == Seq(Symbol)
AnyToken == {tok \in [kind : {"Newline", "Indent", "String", "Regex", "Number", "Identifier", "Capture", "Define",
                             "Grammar", "Match", "IMatch", "When", "Skip", "LeftParen", "RightParen", "Comma",
                             "Pipe", "Colon", "EOF"}, slice : Texts] :
               /\ tok.kind = "Number" => tok.slice \in Seq(Digits)
               /\ tok.kind = "Capture" => tok.slice # <<>>}
AnyExpr == {e \in [kind : {"String", "Regex", "Number", "Variable", "Capture", "CaptureName"}, val : Texts] :
              /\ e.kind = "Number" => e.val \in Seq(Digits) /\ Canonical(e.val) = e.val
              /\ e.kind \in {"Capture", "CaptureName"} => (e.kind = "Capture" <=> AllDigits(e.val))}
AnyCall == [name : Texts, args : Seq(AnyExpr)]
AnyList == Seq(AnyExpr) \ {<<>>}
AnyStmt == [kind : {"Match", "IMatch", "When"}, alts : Seq(AnyList) \ {<<>>}, actions : Seq(AnyCall) \ {<<>>}]
           \cup [kind : {"Skip"}, alts : {a \in Seq(AnyList) : Len(a) = 1 /\ Len(a[1]) = 1}, actions : {<<>>}]
           \cup [kind : {"Action"}, alts : {<<>>}, actions : {b \in Seq(AnyCall) : Len(b) = 1}]
AnyGrammar == [inherit : Texts, stmts : Seq(AnyStmt)]
IsMap(f, S) == IsFiniteSet(DOMAIN f) /\ DOMAIN f \subseteq Texts /\ f \in [DOMAIN f -> S]
IsDoc(doc) == /\ doc = [defines |-> doc.defines, grammars |-> doc.grammars]
              /\ IsMap(doc.defines, AnyExpr) /\ IsMap(doc.grammars, AnyGrammar)

Ok(at, val) == [ok |-> TRUE, at |-> at, val |-> val]
Fail == [ok |-> FALSE, at |-> 0, val |-> <<>>]

\* One parser after the other; and a list, which ends before what does not parse.
AndThen(r, Next(_)) == IF r.ok THEN Next(r) ELSE Fail
Many(r, at, Next(_)) == IF r.ok THEN Next(r) ELSE Ok(at, <<>>)
Prepend(val, r) == [r EXCEPT !.val = <<val>> \o @]
Nonempty(r) == IF r.val = <<>> THEN Fail ELSE r

KindAt(t, i) == IF i <= Len(t) THEN t[i].kind ELSE "nothing"

\* The position after the tokens of the given kinds that start at i.
After(t, i, Ks) ==
    CHOOSE j \in i .. Len(t) + 1 : /\ \A k \in i .. j - 1 : t[k].kind \in Ks
                                   /\ KindAt(t, j) \notin Ks

\* skip_ws_tokens.
AfterSpace(t, i) == After(t, i, {"Newline", "Indent"})

-----------------------------------------------------------------------------
(* Expressions and calls                                                   *)

\* The text between the delimiters of a literal; escapes stay as they are.
Unquoted(s) == IF Len(s) >= 2 THEN SubSeq(s, 2, Len(s) - 1) ELSE s

ExprKinds == {"String", "Regex", "Number", "Capture", "Identifier"}
ExprOf(tok) ==
    CASE tok.kind \in {"String", "Regex"} -> Expr(tok.kind, Unquoted(tok.slice))
      [] tok.kind = "Number"     -> Expr("Number", Canonical(tok.slice))
      [] tok.kind = "Capture"    -> Expr(IF AllDigits(Tail(tok.slice)) THEN "Capture" ELSE "CaptureName",
                                         Tail(tok.slice))
      [] tok.kind = "Identifier" -> Expr("Variable", tok.slice)

Expression(t, i) == IF KindAt(t, i) \in ExprKinds THEN Ok(i + 1, ExprOf(t[i])) ELSE Fail

\* many1_expression: over line ends, up to what is not an expression.
Expressions(t, i) ==
    LET More[j \in 1 .. Len(t) + 1] ==
          LET k == AfterSpace(t, j)
          IN  IF KindAt(t, k) \in ExprKinds
              THEN Prepend(ExprOf(t[k]), More[k + 1])
              ELSE Ok(k, <<>>)
    IN  Nonempty(More[i])

\* The alternatives of match and when, with "|" between them.
Alternatives(t, i) ==
    LET Alts[j \in 1 .. Len(t) + 1] ==
          AndThen(Expressions(t, j), LAMBDA one :
            LET bar == AfterSpace(t, one.at)
            IN  IF KindAt(t, bar) # "Pipe" THEN Ok(one.at, <<one.val>>)
                ELSE AndThen(Alts[bar + 1], LAMBDA rest : Prepend(one.val, rest)))
    IN  Alts[i]

\* A name alone is a call without arguments.
FunctionCall(t, i) ==
    LET Args[j \in 1 .. Len(t) + 1] ==
          IF KindAt(t, j) \in ExprKinds
          THEN Prepend(ExprOf(t[j]), Args[IF KindAt(t, j + 1) = "Comma" THEN j + 2 ELSE j + 1])
          ELSE Ok(j, <<>>)
    IN  IF KindAt(t, i) # "Identifier" THEN Fail
        ELSE IF KindAt(t, i + 1) # "LeftParen" THEN Ok(i + 1, Call(t[i].slice, <<>>))
        ELSE AndThen(Args[i + 2], LAMBDA args :
               IF KindAt(t, args.at) = "RightParen"
               THEN Ok(args.at + 1, Call(t[i].slice, args.val)) ELSE Fail)

-----------------------------------------------------------------------------
(* Statements                                                              *)

\* The width of the indentation at i: the lexer makes it one token.
Width(t, i) == IF KindAt(t, i) = "Indent" THEN Len(t[i].slice) ELSE 0

\* Mutant: the block does not look at the indentation.
ActionBlockAnyIndent(t, i) ==
    LET Block[j \in 1 .. Len(t) + 1] ==
          Many(FunctionCall(t, AfterSpace(t, j)), j, LAMBDA call : Prepend(call.val, Block[call.at]))
    IN  Nonempty(Block[i])

\* Calls up to one that is indented less than the first indented one; base is
\* the width of that one, 0 while there was none.
ActionBlock(t, i) ==
    LET Block[from \in (1 .. Len(t) + 1) \X Nat] ==
          LET line == After(t, from[1], {"Newline"})
              width == Width(t, line)
              base == from[2]
          IN  Many(IF width < base THEN Fail ELSE FunctionCall(t, After(t, line, {"Indent"})), from[1],
                   LAMBDA call : Prepend(call.val, Block[<<call.at, IF base = 0 THEN width ELSE base>>]))
    IN  Nonempty(Block[<<i, 0>>])

\* match, imatch and when: alternatives, ":" and a block.
Matching(t, i, kind) ==
    AndThen(Alternatives(t, i), LAMBDA alts :
      IF KindAt(t, alts.at) # "Colon" THEN Fail
      ELSE AndThen(ActionBlock(t, alts.at + 1), LAMBDA block :
             Ok(block.at, Stmt(kind, alts.val, block.val))))

SkipStatement(t, i) ==
    AndThen(Expression(t, i), LAMBDA e : Ok(e.at, Stmt("Skip", <<<<e.val>>>>, <<>>)))

ActionStatement(t, i) ==
    AndThen(FunctionCall(t, i), LAMBDA call : Ok(call.at, Stmt("Action", <<>>, <<call.val>>)))

\* Line ends first, then indentation: no line end may follow that.
StatementLine(t, i) ==
    LET k == After(t, After(t, i, {"Newline"}), {"Indent"})
        kind == KindAt(t, k)
    IN  CASE kind = "Skip"                        -> SkipStatement(t, k + 1)
          [] kind \in {"Match", "IMatch", "When"} -> Matching(t, k + 1, kind)
          [] OTHER                                -> ActionStatement(t, k)

\* many0_stmt: up to a line that is no statement.
Statements(t, i) ==
    LET More[j \in 1 .. Len(t) + 1] ==
          Many(StatementLine(t, j), j, LAMBDA stmt : Prepend(stmt.val, More[stmt.at]))
    IN  More[i]

-----------------------------------------------------------------------------
(* Documents                                                               *)

DefineStatement(t, i) ==
    IF KindAt(t, i + 1) # "Identifier" THEN Fail
    ELSE AndThen(Expression(t, i + 2), LAMBDA e :
           Ok(e.at, [part |-> "Define", name |-> t[i + 1].slice, def |-> e.val]))

GrammarStatement(t, i) ==
    LET heir == KindAt(t, i + 2) = "LeftParen"
        colon == IF heir THEN i + 5 ELSE i + 2
        parent == IF heir THEN t[i + 3].slice ELSE NoParent
    IN  IF /\ KindAt(t, i + 1) = "Identifier"
           /\ heir => KindAt(t, i + 3) = "Identifier" /\ KindAt(t, i + 4) = "RightParen"
           /\ KindAt(t, colon) = "Colon"
        THEN AndThen(Statements(t, colon + 1), LAMBDA stmts :
               Ok(stmts.at, [part |-> "Grammar", name |-> t[i + 1].slice,
                             def |-> Grammar(parent, stmts.val)]))
        ELSE Fail

\* A map filled in order: a name inserted again is overwritten.
MapOf(part, inserts) ==
    LET of == {i \in DOMAIN inserts : inserts[i].part = part}
    IN  [n \in {inserts[i].name : i \in of} |-> inserts[Max({i \in of : inserts[i].name = n})].def]

\* gel_document: definitions and grammars in any order, and then the end.
Document(t) ==
    LET Parts[i \in 1 .. Len(t) + 1] ==
          IF KindAt(t, i) = "Newline" THEN Parts[i + 1]
          ELSE Many(CASE KindAt(t, i) = "Define"  -> DefineStatement(t, i)
                      [] KindAt(t, i) = "Grammar" -> GrammarStatement(t, i)
                      [] OTHER                    -> Fail, i,
                    LAMBDA part : Prepend(part.val, Parts[part.at]))
    IN  AndThen(Parts[1], LAMBDA parts :
          IF KindAt(t, parts.at) # "EOF" THEN Fail
          ELSE Ok(parts.at, [defines |-> MapOf("Define", parts.val),
                             grammars |-> MapOf("Grammar", parts.val)]))
=============================================================================
