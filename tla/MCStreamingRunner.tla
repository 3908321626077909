------------------------- MODULE MCStreamingRunner -------------------------
(***************************************************************************)
(* Small grammars of two statements for StreamingRunner.                   *)
(***************************************************************************)
EXTENDS StreamingRunner

WordOf(w) == [kind |-> "word", toks |-> w]
RunOf(t) == [kind |-> "run", toks |-> <<t>>]
Do(op) == [op |-> op]
Ret(n) == [op |-> "return", levels |-> n]
RunB == [op |-> "run", pat |-> RunOf("b")]
Enqueue(kind) == [op |-> "enqueue", kind |-> kind, rx |-> "a"]
Stm(kind, pat, acts) == [kind |-> kind, pat |-> pat, acts |-> acts]

Pats == {WordOf(<<"a">>), WordOf(<<"a", "b">>), WordOf(<<>>), RunOf("a")}
Firsts == {Do("open"), Do("add"), Do("fail"), RunB}
Seconds == {Do("leave"), Do("next"), Do("replace"), Ret(0), Ret(1), RunB}
Blocks == {<<>>} \cup {<<x>> : x \in Firsts \cup Seconds}
            \cup {<<x, y>> : x \in Firsts, y \in Seconds}
Lasts == {Stm("skip", WordOf(<<"b">>), <<>>), Stm("action", WordOf(<<>>), <<RunB>>),
          Stm("action", WordOf(<<>>), <<Do("open")>>)}
Queued == {<<Enqueue(k), x>> : k \in Kinds, x \in {Do("add"), Do("open"), Ret(1)}}

MCDocs == {<<Stm(kind, pat, b), last>> :
             kind \in {"match", "when"}, pat \in Pats, b \in Blocks, last \in Lasts}
            \cup {<<Stm(kind, WordOf(<<"a">>), b), Stm("skip", WordOf(<<"b">>), <<>>)>> :
                    kind \in {"match", "when"}, b \in Queued}
MCInputs == {<<"a">>, <<"a", "b">>, <<"b", "a">>, <<"a", "a", "b">>, <<"a", "b", "a">>,
             <<"a", "b", "b">>}

\* One-token statements only.
LocalDocs == {<<Stm(k1, WordOf(<<t1>>), b), Stm(k2, WordOf(<<t2>>), <<>>),
                Stm("match", WordOf(<<"b">>), <<Do("next"), Do("add")>>)>> :
                k1 \in {"match", "skip"}, k2 \in {"match", "skip"}, t1 \in {"a", "b"},
                t2 \in {"a", "b"}, b \in {<<>>, <<Do("next")>>, <<Do("open"), Do("leave")>>}}
LocalInputs == UNION {[1 .. n -> {"a", "b", "c"}] : n \in 0 .. 4}

MCCases == (MCDocs \X MCInputs) \cup (LocalDocs \X LocalInputs)

\* A when statement that does not consume.
WhenCases == {<<Stm("when", WordOf(<<"a">>), <<Do("add")>>)>>} \X MCInputs
=============================================================================
