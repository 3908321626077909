------------------------------ MODULE Patterns ------------------------------
(***************************************************************************)
(* Matching of the patterns of match, when and skip statements             *)
(* (compile_regexes and its helpers in src/parser/ast.rs, eval_field_list  *)
(* and the evaluation of expressions in src/exec/mod.rs).                  *)
(*                                                                         *)
(* A list of expressions is matched as one regular expression when all of  *)
(* them can be resolved at compile time, and one expression after the      *)
(* other when not; either way on a window of the remaining text.           *)
(*                                                                         *)
(* Abstractions.  A regular expression is a sequence of items, each a set  *)
(* of characters that may be optional and may be repeated (greedily), with *)
(* groups over stretches of items; it takes the first match in the order   *)
(* of a backtracking search.  Alternatives and look-around inside of an    *)
(* expression are left out.  Characters are ASCII: one byte each, and      *)
(* ignoring case is the same for texts and expressions.  No name is <<>>.  *)
(***************************************************************************)
EXTENDS Syntax

CONSTANTS Pattern,   \* the regular expressions that compile, by their text
          Window     \* how much of the text a regular expression is given

ASSUME WindowAssumption == Window \in Nat

LowerOf == [A |-> "a", B |-> "b", D |-> "d", F |-> "f"]
LowerChar(c) == IF c \in DOMAIN LowerOf THEN LowerOf[c] ELSE c
Lower(s) == [i \in DOMAIN s |-> LowerChar(s[i])]

\* The same text, or with case ignored (eq_ignore_ascii_case).
Same(s, u, ci) == IF ci THEN Lower(s) = Lower(u) ELSE s = u

NoName == <<>>

-----------------------------------------------------------------------------
(* Regular expressions                                                     *)

Item(C, opt, many) == [set |-> C, opt |-> opt, many |-> many]
Group(from, to, name) == [from |-> from, to |-> to, name |-> name]
Re(items, groups) == [items |-> items, groups |-> groups]
Literal(s) == Re([i \in DOMAIN s |-> Item({s[i]}, FALSE, FALSE)], <<>>)

\* Groups, possibly empty, over the items of the expression.
IsRe(re) ==
    /\ re.items \in Seq([set : SUBSET Symbol, opt : BOOLEAN, many : BOOLEAN])
    /\ re.groups \in Seq([from : Nat \ {0}, to : Nat, name : Texts])
    /\ \A i \in DOMAIN re.groups : /\ re.groups[i].from <= re.groups[i].to + 1
                                  /\ re.groups[i].to <= Len(re.items)
ASSUME PatternAssumption == \A r \in DOMAIN Pattern : IsRe(Pattern[r])

\* Where the i-th item ends when the items take so many characters each.
EndOf(taken, i) ==
    LET End[j \in 0 .. Len(taken)] == IF j = 0 THEN 0 ELSE End[j - 1] + taken[j] IN End[i]

\* The ways to divide a start of s among the items.
Divisions(re, s, ci) ==
    {taken \in [DOMAIN re.items -> 0 .. Len(s)] :
       /\ EndOf(taken, Len(taken)) <= Len(s)
       /\ \A i \in DOMAIN re.items :
            /\ taken[i] = 0 => re.items[i].opt
            /\ taken[i] > 1 => re.items[i].many
            /\ \A j \in EndOf(taken, i - 1) + 1 .. EndOf(taken, i) :
                 \E c \in re.items[i].set : Same(<<c>>, <<s[j]>>, ci)}

\* Greedy: the first item in which two divisions differ took more.
Before(x, y) == \E i \in DOMAIN x : x[i] > y[i] /\ \A j \in 1 .. i - 1 : x[j] = y[j]

Match(len, caps, names) == [is |-> "match", len |-> len, caps |-> caps, names |-> names]
NoMatch == [is |-> "none", len |-> 0, caps |-> <<>>, names |-> <<>>]
Overflow == [NoMatch EXCEPT !.is = "overflow"]
Refused == [NoMatch EXCEPT !.is = "error"]

\* The match in which the items take so many characters each.
Taking(re, s, taken) ==
    LET TextOf(g) == SubSeq(s, EndOf(taken, g.from - 1) + 1, EndOf(taken, g.to))
    IN  Match(EndOf(taken, Len(taken)), [i \in DOMAIN re.groups |-> TextOf(re.groups[i])],
              [i \in DOMAIN re.groups |-> re.groups[i].name])

\* The match of an anchored expression with the texts of its groups.
Find(re, s, ci) ==
    LET D == Divisions(re, s, ci)
    IN  IF D = {} THEN NoMatch
        ELSE Taking(re, s, CHOOSE x \in D : \A y \in D \ {x} : Before(x, y))

InWindow(s) == SubSeq(s, 1, IF Len(s) < Window THEN Len(s) ELSE Window)

-----------------------------------------------------------------------------
(* Compiling a document                                                    *)

NameOf(e) == e.val

\* The chain of definitions from a variable on, to the first that is none; the
\* variable itself when the chain breaks off or closes.
Resolve(defines, e) ==
    LET Follow[at \in (DOMAIN defines) \X SUBSET DOMAIN defines] ==
          LET n == at[1]
              visited == at[2]
          IN  IF n \in visited THEN e
              ELSE IF defines[n].kind # "Variable" THEN defines[n]
              ELSE IF NameOf(defines[n]) \in DOMAIN defines
              THEN Follow[<<NameOf(defines[n]), visited \cup {n}>>] ELSE e
    IN  IF e.kind = "Variable" /\ NameOf(e) \in DOMAIN defines THEN Follow[<<NameOf(e), {}>>] ELSE e

\* expr_to_regex_pattern: what can stand in a combined expression.
Compilable(e) == \/ e.kind \in {"String", "Number"}
                 \/ e.kind = "Regex" /\ e.val \in DOMAIN Pattern
PatternOf(e) == IF e.kind = "Regex" THEN Pattern[e.val] ELSE Literal(e.val)

Shifted(groups, n) == [i \in DOMAIN groups |->
                         Group(groups[i].from + n, groups[i].to + n, groups[i].name)]

\* Mutant: only expressions without groups of their own get one.
ThenPartUnwrapped(re, part) ==
    LET n == Len(re.items)
        own == IF part.groups = <<>> THEN <<Group(n + 1, n + Len(part.items), NoName)>>
               ELSE Shifted(part.groups, n)
    IN  Re(re.items \o part.items, re.groups \o own)

\* One expression more, in a group of its own.
ThenPart(re, part) ==
    LET n == Len(re.items)
    IN  Re(re.items \o part.items,
           Append(re.groups, Group(n + 1, n + Len(part.items), NoName)) \o Shifted(part.groups, n))

NamesOnce(groups) == \A i, j \in DOMAIN groups :
                        groups[i].name = groups[j].name /\ groups[i].name # NoName => i = j

\* The expressions of a list put together.
Whole(parts) ==
    LET Through[i \in 0 .. Len(parts)] ==
          IF i = 0 THEN Re(<<>>, <<>>) ELSE ThenPart(Through[i - 1], PatternOf(parts[i]))
    IN  Through[Len(parts)]

\* The combined expression of a list, none as <<>>: something cannot be resolved
\* at compile time, or the combination does not compile.
Combined(defines, exprs) ==
    LET parts == [i \in DOMAIN exprs |-> Resolve(defines, exprs[i])]
    IN  IF (\A i \in DOMAIN parts : Compilable(parts[i])) /\ NamesOnce(Whole(parts).groups)
        THEN <<Whole(parts)>> ELSE <<>>

\* The text the first expression stands for, if it stands for one.
LiteralPrefix(defines, exprs) ==
    LET e == Resolve(defines, Head(exprs)) IN IF e.kind = "String" THEN e.val ELSE <<>>

\* A list compiled: combined expression and prefix first, then the variables of
\* the list replaced.
FieldList(defines, exprs) ==
    [exprs  |-> [i \in DOMAIN exprs |-> Resolve(defines, exprs[i])],
     re     |-> Combined(defines, exprs),
     prefix |-> LiteralPrefix(defines, exprs)]

-----------------------------------------------------------------------------
(* Evaluating expressions one by one                                       *)

StartsWith(s, u, ci) == Len(u) <= Len(s) /\ Same(SubSeq(s, 1, Len(u)), u, ci)

MatchText(s, u, ci) == IF StartsWith(s, u, ci) THEN Match(Len(u), <<u>>, <<NoName>>) ELSE NoMatch

\* A character of digits as a number (for captures).
DigitVal == ("0" :> 0) @@ ("1" :> 1) @@ ("2" :> 2) @@ ("3" :> 3) @@ ("4" :> 4)
            @@ ("5" :> 5) @@ ("6" :> 6) @@ ("7" :> 7) @@ ("8" :> 8) @@ ("9" :> 9)
IndexOf(s) == FoldLeft(LAMBDA n, c : 10 * n + DigitVal[c], 0, s)

\* The texts that $0, $1 or $name stand for: one or none.
Referred(ref, caps, names) ==
    LET i == IF AllDigits(ref) THEN IndexOf(ref) + 1
             ELSE SelectInSeq(names, LAMBDA n : n = ref)
    IN  IF i \in DOMAIN caps THEN <<caps[i]>> ELSE <<>>

\* A variable that is left after compilation leads to an undefined name; if not,
\* its definitions form a circle, and the evaluation follows that until the stack
\* overflows.
Dangles(defines, e) ==
    LET Reach[n \in Nat] == IF n = 0 THEN {NameOf(e)}
                            ELSE {NameOf(defines[m]) : m \in Reach[n - 1] \cap DOMAIN defines}
    IN  \E n \in 0 .. Cardinality(DOMAIN defines) : Reach[n] \ DOMAIN defines # {}

\* The match of an expression with its text as the first capture.
WithWhole(s, m) ==
    IF m.is = "match" THEN Match(m.len, <<SubSeq(s, 1, m.len)>> \o m.caps, <<NoName>> \o m.names) ELSE m

\* eval_expression_with_groups; eval_expression without the groups.
EvalExpression(defines, e, s, ci, caps, names) ==
    CASE e.kind = "Regex" -> IF e.val \in DOMAIN Pattern
                             THEN WithWhole(s, Find(Pattern[e.val], InWindow(s), ci)) ELSE NoMatch
      [] e.kind = "String"   -> MatchText(s, e.val, ci)
      [] e.kind = "Number"   -> MatchText(s, e.val, FALSE)
      [] e.kind = "Variable" -> IF Dangles(defines, e) THEN NoMatch ELSE Overflow
      [] OTHER -> LET referred == Referred(e.val, caps, names)
                  IN  IF referred = <<>> THEN NoMatch ELSE MatchText(s, referred[1], ci)

\* One match and the next, if it is one.
Joined(m, next) ==
    IF next.is = "match" THEN Match(m.len + next.len, m.caps \o next.caps, m.names \o next.names) ELSE next

\* The loop of eval_field_list without a combined expression.
OneByOne(defines, exprs, s, ci) ==
    LET Step(m, e) ==
          IF m.is # "match" THEN m
          ELSE Joined(m, EvalExpression(defines, e, SubSeq(s, m.len + 1, Len(s)), ci, m.caps, m.names))
        Through[i \in 0 .. Len(exprs)] ==
          IF i = 0 THEN Match(0, <<>>, <<>>) ELSE Step(Through[i - 1], exprs[i])
    IN  Through[Len(exprs)]

\* With a combined expression: its groups are the captures, without their names.
AtOnce(re, s, ci) ==
    [Find(re, InWindow(s), ci) EXCEPT !.names = [i \in DOMAIN @ |-> NoName]]

\* eval_field_list.
EvalFieldList(defines, list, s, ci) ==
    CASE ~StartsWith(s, list.prefix, ci) -> NoMatch
      [] StartsWith(s, list.prefix, ci) /\ list.re # <<>> -> AtOnce(list.re[1], s, ci)
      [] OTHER -> OneByOne(defines, list.exprs, s, ci)

\* eval_match, eval_when: the first alternative that matches.
EvalAlternatives(defines, lists, s, ci) ==
    LET hits == {i \in DOMAIN lists : EvalFieldList(defines, lists[i], s, ci) # NoMatch}
    IN  IF hits = {} THEN NoMatch ELSE EvalFieldList(defines, lists[Min(hits)], s, ci)
=============================================================================
