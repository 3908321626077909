------------------------------ MODULE Inherit ------------------------------
(***************************************************************************)
(* Grammar inheritance (collect_inherited_statements of src/exec/mod.rs):  *)
(* the statement list a grammar is run with, its ancestors' included.      *)
(*                                                                         *)
(* The recursion goes up the chain of parents (Descend, Stop) and appends  *)
(* each grammar's own statements as its calls return (Return).  A caller   *)
(* that validates the document first rejects unknown parents, but not      *)
(* cycles, and the engine itself takes every document: every parent        *)
(* function is considered.                                                 *)
(*                                                                         *)
(* Abstraction.  The statements of one grammar are one item of the list,   *)
(* the grammar's name.                                                     *)
(***************************************************************************)
EXTENDS Naturals, Sequences

CONSTANTS Grammar,   \* the grammars of the document
          Name,      \* every name that can follow "inherit"
          NoParent   \* a grammar without a parent

ASSUME NameAssumption == Grammar \subseteq Name /\ NoParent \notin Name

VARIABLES inherit,   \* the parent of each grammar
          start,     \* the argument of the outermost call
          name,      \* the argument of the running call
          calls,     \* the grammars whose calls wait for their parent's, first to last
          visited,   \* the set of grammars entered
          stmts,     \* the list collected
          phase      \* "up" the chain or "down" again

vars == <<inherit, start, name, calls, visited, stmts, phase>>

Init == /\ inherit \in [Grammar -> Name \cup {NoParent}]
        /\ start \in Grammar /\ name = start
        /\ calls = <<>> /\ visited = {} /\ stmts = <<>> /\ phase = "up"

\* Mutant: a grammar is entered before it is looked up among the visited.
DescendTwice ==
    /\ phase = "up" /\ name \in Grammar
    /\ \A i, j \in DOMAIN calls : calls[i] = name /\ calls[j] = name => i = j
    /\ visited' = visited \cup {name}
    /\ calls' = Append(calls, name)
    /\ name' = inherit[name]
    /\ UNCHANGED <<inherit, start, stmts, phase>>

\* Mutant: a visited grammar is passed over instead of ending the chain.
DescendThrough ==
    /\ phase = "up" /\ name \in Grammar
    /\ visited' = visited \cup {name}
    /\ calls' = IF name \in visited THEN calls ELSE Append(calls, name)
    /\ name' = inherit[name]
    /\ UNCHANGED <<inherit, start, stmts, phase>>

\* A grammar that was not entered before: first its parent's statements.
Descend ==
    /\ phase = "up" /\ name \in Grammar /\ name \notin visited
    /\ visited' = visited \cup {name}
    /\ calls' = Append(calls, name)
    /\ name' = inherit[name]
    /\ UNCHANGED <<inherit, start, stmts, phase>>

\* No parent, an unknown one or one that was entered: nothing.
Stop ==
    /\ phase = "up" /\ (name \in Grammar => name \in visited)
    /\ phase' = "down"
    /\ UNCHANGED <<inherit, start, name, calls, visited, stmts>>

\* Mutant: the own statements go before the inherited ones.
ReturnOwnFirst ==
    /\ phase = "down" /\ calls # <<>>
    /\ stmts' = <<calls[Len(calls)]>> \o stmts
    /\ calls' = SubSeq(calls, 1, Len(calls) - 1)
    /\ UNCHANGED <<inherit, start, name, visited, phase>>

\* Mutant: the statements of the call that returned are appended again.
ReturnCallee ==
    /\ phase = "down" /\ calls # <<>>
    /\ stmts' = Append(stmts, name) /\ name' = calls[Len(calls)]
    /\ calls' = SubSeq(calls, 1, Len(calls) - 1)
    /\ UNCHANGED <<inherit, start, visited, phase>>

\* The parent's call has returned: the grammar's own statements follow.
Return ==
    /\ phase = "down" /\ calls # <<>>
    /\ stmts' = Append(stmts, calls[Len(calls)])
    /\ calls' = SubSeq(calls, 1, Len(calls) - 1)
    /\ UNCHANGED <<inherit, start, name, visited, phase>>

Next == Descend \/ Stop \/ Return
Spec == Init /\ [][Next]_vars

\* One thread that runs until it returns.
FairSpec == Spec /\ WF_vars(Next)

Done == phase = "down" /\ calls = <<>>

-----------------------------------------------------------------------------
(* Properties                                                              *)

\* Types of the variables a step can change.
TypeOK == /\ inherit \in [Grammar -> Name \cup {NoParent}] /\ start \in Grammar
          /\ name \in Name \cup {NoParent}
          /\ calls \in Seq(Grammar) /\ stmts \in Seq(Grammar)
          /\ visited \subseteq Grammar /\ phase \in {"up", "down"}

\* A set of grammars that holds the parents of its members.
Closed(S) == \A k \in S : inherit[k] \in Grammar => inherit[k] \in S

\* The chain of the grammar: the least closed set it is a member of.
Chain == {g \in Grammar : \A S \in SUBSET Grammar : start \in S /\ Closed(S) => g \in S}

\* On every document, cyclic ones included, the list holds each grammar of the
\* chain exactly once and nothing else, and the grammar itself comes last.
CollectsChain ==
    Done => /\ {stmts[i] : i \in DOMAIN stmts} = Chain
            /\ \A i, j \in DOMAIN stmts : stmts[i] = stmts[j] => i = j
            /\ stmts[Len(stmts)] = start

\* The list runs from the farthest ancestor to the grammar itself: a grammar
\* stands right after its parent.
AncestorsFirst ==
    \A i \in 1 .. Len(stmts) - 1 : inherit[stmts[i + 1]] = stmts[i]

\* The recursion ends on inheritance cycles too.
Terminates == <>Done

\* docs/syntax.md: the child's own statements take precedence.  The first
\* statement that matches wins, so they would have to stand first.
ChildTakesPrecedence ==
    Done => \A i, j \in DOMAIN stmts : inherit[stmts[i]] = stmts[j] /\ i # j => i < j
=============================================================================
