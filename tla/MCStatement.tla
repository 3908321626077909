---------------------------- MODULE MCStatement ----------------------------
(***************************************************************************)
(* Six families: every pair of statements in every layout, every pair of  *)
(* definitions, every list of two expressions and some of three on every   *)
(* short text, and captures of every short text with special characters;   *)
(* calls between a match and the use of its captures; and every kind of    *)
(* skip on every short text of its classes.                                *)
(***************************************************************************)
EXTENDS Statement

MCBuiltin == {<<"out.add">>, <<"out.create">>, <<"out.open">>, <<"out.add_attribute">>, <<"do.next">>}

MCSymbol == STRING
SkipChar == {"r", "n", "s", "t", "h", "b", "d", "w", "u", "c", "v"}
AnyChar == {"a", "A", "b", "/", "?", "%", " ", "\"", "$", ".", "2", "F"}
MCChar == SkipChar \cup AnyChar
MCPattern ==
    (<<"a+">> :> Re(<<Item({"a"}, FALSE, TRUE)>>, <<>>))
    @@ (<<"(?P<n>a*)b?">> :> Re(<<Item({"a"}, TRUE, TRUE), Item({"b"}, TRUE, FALSE)>>,
                                <<Group(1, 1, <<"n">>)>>))
    @@ (<<"[ab]">> :> Re(<<Item({"a", "b"}, FALSE, FALSE)>>, <<>>))
    @@ (<<".*">> :> Re(<<Item(AnyChar, TRUE, TRUE)>>, <<>>))

Text(s) == Expr("String", s)
RegEx(r) == Expr("Regex", <<r>>)
Var(v) == Expr("Variable", <<v>>)
Cap(i) == Expr("Capture", <<i>>)
CapName(n) == Expr("CaptureName", <<n>>)

Plain == [inline |-> FALSE, bars |-> FALSE, gap |-> "none"]
Doc(defines, inherit, stmts) ==
    [defines |-> defines, grammars |-> (<<"input">> :> Grammar(inherit, stmts))]
Source(doc, layout, chars, length) == [doc |-> doc, layout |-> layout, chars |-> chars, length |-> length]

(* Layouts.                                                                *)
Next1 == Call(<<"do.next">>, <<>>)
Sub == Call(<<"sub">>, <<>>)
Add == Call(<<"out.add">>, <<Text(<<"a">>), Cap("0")>>)
SomeStmts ==
    {Stmt("Skip", <<<<RegEx("a+")>>>>, <<>>), Stmt("Action", <<>>, <<Sub>>),
     Stmt("Action", <<>>, <<Add>>),
     Stmt("Match", <<<<Text(<<"a">>), Var("x")>>, <<Expr("Number", <<"2">>)>>>>, <<Add>>),
     Stmt("IMatch", <<<<RegEx("a+"), CapName("n")>>>>, <<Sub, Add>>),
     Stmt("When", <<<<RegEx("[ab]")>>, <<Var("x")>>>>, <<Sub>>)}
SubDoc(stmts) ==
    [defines |-> (<<"x">> :> Text(<<"b">>)),
     grammars |-> (<<"input">> :> Grammar(<<"sub">>, stmts)) @@ (<<"sub">> :> Grammar(NoParent, <<>>))]
Written2 == {Source(SubDoc(<<s, t>>), l, {"a", "b"}, 2) : s \in SomeStmts, t \in SomeStmts, l \in Layouts}

(* Definitions.                                                            *)
Defs == {Text(<<"a">>), RegEx("a+"), RegEx("*"), Var("x"), Var("y"), Var("z")}
Users == {Stmt("Skip", <<<<Var("x")>>>>, <<>>),
          Stmt("Match", <<<<Text(<<"b">>)>>, <<Var("y"), Text(<<"b">>)>>>>,
               <<Call(<<"out.open">>, <<Var("x")>>)>>),
          Stmt("Match", <<<<Var("x"), RegEx("*")>>>>, <<Call(<<"unknown">>, <<>>)>>),
          Stmt("When", <<<<RegEx("a+")>>, <<Var("z")>>>>, <<Call(<<"out.add">>, <<Var("x")>>)>>)}
Defined == {Source(Doc((<<"x">> :> d) @@ (<<"y">> :> e), p, <<u>>), Plain, {"a", "b"}, 2) :
              d \in Defs, e \in Defs, u \in Users, p \in {NoParent, <<"input">>, <<"unknown">>}}

(* Lists of expressions.                                                   *)
SomeExprs == {Text(<<>>), Text(<<"a">>), Text(<<"b", "a">>), RegEx("a+"), RegEx("(?P<n>a*)b?"),
              RegEx("[ab]"), Var("x"), Var("y"), Cap("0"), Cap("1")}
Lists == {<<d, e>> : d \in SomeExprs, e \in SomeExprs} \cup {<<e>> : e \in SomeExprs}
         \cup {<<RegEx("(?P<n>a*)b?"), e, f>> : e \in SomeExprs, f \in {RegEx("[ab]"), CapName("n")}}
Writes == <<Call(<<"out.add">>, <<Text(<<"$", "1">>), Cap("0")>>),
            Call(<<"out.add">>, <<Text(<<"a">>), CapName("n")>>)>>
Listed == {Source(Doc((<<"x">> :> RegEx("a+")) @@ (<<"y">> :> Cap("0")), NoParent, <<Stmt(kind, <<list>>, Writes)>>), Plain, t[1], t[2]) :
             kind \in {"Match", "IMatch"}, list \in Lists, t \in {<<{"a", "A", "b"}, 3>>, <<{"a", "b"}, 4>>}}

(* Captures.                                                               *)
T(path, value) == {Call(<<"out.add">>, <<Text(path), Text(value)>>)}
Ref == <<"$", "0">>
Templates ==
    T(Ref, Ref) \cup T(<<"a", "/">> \o Ref \o <<"b">>, <<"a">> \o Ref)
    \cup T(<<"a", "?", "n", "=", "\"">> \o Ref \o <<"\"", "&", "b", "=">> \o Ref \o <<"/">> \o Ref, <<"\\", "$">>)
    \cup {Call(<<"out.create">>, <<Cap("0"), Cap("0")>>), Call(<<"out.open">>, <<Text(Ref \o <<"/", ".">>)>>),
          Call(<<"out.create">>, <<CapName("n")>>), Call(<<"out.add">>, <<Text(Ref), Var("e")>>),
          Call(<<"out.add_attribute">>, <<Text(<<"a", "/">> \o Ref), Text(<<"n">>), Cap("0")>>)}
Captured == {Source(Doc((<<"e">> :> Text(<<"\\", "$", "/">> \o Ref)), NoParent, <<Stmt("When", <<<<RegEx(".*")>>>>, <<c>>)>>), Plain, AnyChar, 3) :
               c \in Templates}

(* Calls between a match and what uses its captures.                       *)
Inner == {Stmt("When", <<<<RegEx("[ab]")>>>>, <<Call(<<"out.create">>, <<Text(Ref), Cap("1")>>)>>),
          Stmt("Match", <<<<RegEx("a+")>>>>, <<Call(<<"out.add">>, <<Text(Ref), Text(Ref)>>)>>)}
Outer == {Stmt("Match", <<<<RegEx("(?P<n>a*)b?")>>>>, <<Sub, Call(<<"out.add">>, <<Text(Ref), CapName("n")>>)>>),
          Stmt("Action", <<>>, <<Call(<<"out.add">>, <<Text(<<"b">> \o Ref), Cap("0")>>)>>),
          Stmt("Action", <<>>, <<Call(<<"out.create">>, <<Cap("0")>>)>>)}
Nested == {Source([defines |-> <<>>,
                   grammars |-> (<<"input">> :> Grammar(NoParent, <<o, p>>))
                                @@ (<<"sub">> :> Grammar(NoParent, <<i>>))], Plain, {"a", "b"}, 4) :
             o \in Outer, p \in Outer, i \in Inner}

(* Skips.                                                                  *)
Skips == {Source(Doc(<<>>, NoParent, <<Stmt("Skip", <<<<RegEx(k)>>>>, <<>>)>>), Plain, t[1], t[2]) :
            k \in Kinds, t \in {<<SkipChar, 3>>, <<{"r", "n", "s", "h", "w"}, 4>>}}

MCSources == Written2 \cup Defined
MCLoaded == Listed \cup Captured \cup Nested \cup Skips
=============================================================================
