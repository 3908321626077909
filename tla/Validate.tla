------------------------------ MODULE Validate ------------------------------
(***************************************************************************)
(* The checks of a parsed document before it is run (validate and its      *)
(* passes in src/parser/validate.rs).  Duplicate grammars are not checked: *)
(* the pass for them is empty.                                             *)
(***************************************************************************)
EXTENDS Patterns

CONSTANT Builtin    \* the action names that start with "do." or "out."

Diagnostic(severity, what, name) == [severity |-> severity, what |-> what, name |-> name]

Stmts(doc) == UNION {ToSet(doc.grammars[g].stmts) : g \in DOMAIN doc.grammars}

Actions(stmt) == ToSet(stmt.actions)
Arguments(stmt) == UNION {ToSet(call.args) : call \in Actions(stmt)}
Matched(stmt) == UNION {ToSet(list) : list \in ToSet(stmt.alts)}

\* Mutant: only the first alternative is looked at.
VisitExpressionsFirst(stmt) ==
    Arguments(stmt) \cup IF stmt.alts = <<>> THEN {} ELSE ToSet(stmt.alts[1])

\* visit_expressions.
VisitExpressions(stmt) == Matched(stmt) \cup Arguments(stmt)

Visited(doc) == UNION {VisitExpressions(stmt) : stmt \in Stmts(doc)}

\* Calls without arguments of what is no grammar.
UndefinedGrammarRefs(doc) ==
    {Diagnostic("warning", "grammar", call.name) :
       call \in {c \in UNION {Actions(stmt) : stmt \in Stmts(doc)} :
                   c.args = <<>> /\ c.name \notin Builtin \cup DOMAIN doc.grammars}}

\* Variables of statements; not those of definitions.
UndefinedVariables(doc) ==
    {Diagnostic("warning", "variable", e.val) :
       e \in {x \in Visited(doc) : x.kind = "Variable" /\ x.val \notin DOMAIN doc.defines}}

RegexSyntax(doc) ==
    {Diagnostic("error", "regex", e.val) :
       e \in {x \in Visited(doc) \cup {doc.defines[n] : n \in DOMAIN doc.defines} :
                x.kind = "Regex" /\ x.val \notin DOMAIN Pattern}}

InheritanceTargets(doc) ==
    {Diagnostic("error", "parent", parent) :
       parent \in {doc.grammars[g].inherit : g \in DOMAIN doc.grammars}
                  \ (DOMAIN doc.grammars \cup {NoParent})}

Diagnostics(doc) == UndefinedGrammarRefs(doc) \cup UndefinedVariables(doc)
                    \cup RegexSyntax(doc) \cup InheritanceTargets(doc)
=============================================================================
