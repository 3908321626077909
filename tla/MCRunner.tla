------------------------------ MODULE MCRunner ------------------------------
(***************************************************************************)
(* Small documents for Runner: a grammar Main whose first statement is a   *)
(* block of up to two actions and whose second one is fixed, a grammar Sub *)
(* it can call, and a grammar Leaf that Sub can call.                      *)
(***************************************************************************)
EXTENDS Runner

Do(op) == [op |-> op]
Call(g) == [op |-> "call", g |-> g]
At(op, path) == [op |-> op, path |-> path]
Ret(n) == [op |-> "return", levels |-> n]
Enqueue(kind, rx, keep) == [op |-> "enqueue", kind |-> kind, rx |-> rx, keep |-> keep]

Stm(kind, pat, acts) == [kind |-> kind, pat |-> pat, acts |-> acts]
Pats == {"a", Empty}
Heads(blocks) == {Stm(kind, pat, acts) : kind \in {"match", "when"}, pat \in Pats, acts \in blocks}
AsStmt(acts) == {Stm("action", Empty, <<x>>) : x \in acts}
Pairs(xs, ys) == {<<>>} \cup {<<x>> : x \in xs} \cup {<<x, y>> : x \in xs, y \in ys}

Doc(main, sub, leaf) == [g \in {"Main", "Sub", "Leaf"} |->
                           CASE g = "Main" -> main [] g = "Sub" -> sub [] OTHER -> leaf]

Leaves == {<<Stm("match", "a", <<Ret(2)>>)>>, <<Stm("skip", "b", <<>>)>>,
           <<Stm("match", Empty, <<Do("fail")>>)>>}

\* Control: calls, returns, do.next, do.skip, do.fail.
Flow == {Do("next"), Do("skip"), Do("fail"), Ret(0), Ret(2)}
ControlMains ==
    {<<s, Stm("skip", "b", <<>>)>> :
        s \in Heads(Pairs({Call("Sub"), At("add", <<"n">>)}, Flow \cup {Call("Sub")}))}
    \cup {<<s, Stm("match", "a", <<At("add", <<"n">>)>>)>> :
            s \in Heads({<<>>, <<Do("next")>>}) \cup AsStmt({Call("Sub"), Do("fail"), Ret(1)})}
ControlSubs == {<<s, Stm("skip", "b", <<>>)>> : s \in Heads({<<x>> : x \in Flow \cup {Call("Leaf")}})
                                                    \cup AsStmt({Call("Leaf"), Ret(3)})}
ControlDocs == {Doc(m, s, l) : m \in ControlMains, s \in ControlSubs, l \in Leaves}

\* Scopes: open, enter, leave, add, calls between them, early exits.
Cursor == {At("open", <<"n">>), At("enter", <<"n">>), Do("leave"), At("add", <<"n">>),
           Call("Sub")}
Odd == {At("open", <<>>), At("add", <<>>)}
ScopeMains ==
    {<<s, Stm("match", "b", <<At("open", <<"n">>), Do("fail"),
                             At("add", <<"n">>)>>)>> :
        s \in {Stm("match", "a", b) : b \in Pairs(Cursor, Cursor \cup Odd \cup {Ret(1)})}
                \cup AsStmt(Cursor)}
ScopeSubs == {<<s>> : s \in Heads(Pairs({At("open", <<"n">>), Do("leave")},
                                        Odd \cup {Do("leave"), Ret(1), Call("Leaf")}))}
ScopeDocs == {Doc(m, s, l) : m \in ScopeMains, s \in ScopeSubs, l \in Leaves}

\* Triggers: registered in one block, fired or cleared in a later one.
Enqueues == {Enqueue(k, rx, keep) : k \in Kinds, rx \in Pats, keep \in BOOLEAN}
TriggerMains ==
    {<<Stm("match", "a", <<x, y>>), Stm("match", "b", <<z>>)>> :
        x \in Enqueues, y \in {At("open", <<"n">>), Do("clear"), Enqueue("after", "b", FALSE)},
        z \in {Do("clear"), At("add", <<"n">>), Do("leave"), Do("next")}}
Queued == {Enqueue("after", rx, FALSE) : rx \in {"a", "b", Empty}}
TriggerMains3 ==
    {<<Stm("match", "b", q), Stm("match", "a", <<z>>)>> :
        q \in [1 .. 3 -> Queued], z \in {At("add", <<"n">>), Do("next")}}
TriggerDocs == {Doc(m, <<>>, <<>>) : m \in TriggerMains \cup TriggerMains3}

MCDocs == ControlDocs \cup ScopeDocs \cup TriggerDocs

\* A called grammar fails.
FailDocs == {Doc(<<Stm("match", "a", <<Call("Sub"), At("add", <<"n">>)>>)>>,
                 <<Stm("match", Empty, <<Do("fail")>>)>>, <<>>)}

Words == UNION {[1 .. n -> {"a", "b"}] : n \in 0 .. 2}
=============================================================================
