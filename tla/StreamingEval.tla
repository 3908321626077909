---------------------------- MODULE StreamingEval ----------------------------
(***************************************************************************)
(* The streaming engine's own copy of the evaluation of expressions and of *)
(* the substitution of arguments (src/exec/streaming.rs).  It compiles     *)
(* nothing in advance: no combined expressions, no variables replaced, no  *)
(* window.                                                                 *)
(***************************************************************************)
EXTENDS Paths

\* Mutant: only the groups of an expression are captured, not its whole match.
EvalStreamingGroupsOnly(defines, e, s, ci, caps, names) ==
    LET r == Resolve(defines, e)
        referred == Referred(r.val, caps, names)
    IN  CASE r.kind = "Regex" -> IF r.val \in DOMAIN Pattern THEN Find(Pattern[r.val], s, ci) ELSE Refused
          [] r.kind = "String"   -> MatchText(s, r.val, ci)
          [] r.kind = "Number"   -> MatchText(s, r.val, FALSE)
          [] r.kind = "Variable" -> IF Dangles(defines, r) THEN NoMatch ELSE Overflow
          [] OTHER -> IF referred \in {<<>>, <<<<>>>>} THEN NoMatch ELSE MatchText(s, referred[1], FALSE)

\* eval_expression_streaming: an expression that does not compile is an error, and
\* an empty or missing capture no match.
EvalStreaming(defines, e, s, ci, caps, names) ==
    LET r == Resolve(defines, e)
        referred == Referred(r.val, caps, names)
    IN  CASE r.kind = "Regex" -> IF r.val \in DOMAIN Pattern
                                 THEN WithWhole(s, Find(Pattern[r.val], s, ci)) ELSE Refused
          [] r.kind = "String"   -> MatchText(s, r.val, ci)
          [] r.kind = "Number"   -> MatchText(s, r.val, FALSE)
          [] r.kind = "Variable" -> IF Dangles(defines, r) THEN NoMatch ELSE Overflow
          [] OTHER -> IF referred \in {<<>>, <<<<>>>>} THEN NoMatch ELSE MatchText(s, referred[1], FALSE)

\* eval_field_list_streaming.
EvalFieldListStreaming(defines, exprs, s, ci) ==
    LET Step(m, e) ==
          IF m.is # "match" THEN m
          ELSE Joined(m, EvalStreaming(defines, e, SubSeq(s, m.len + 1, Len(s)), ci, m.caps, m.names))
        Through[i \in 0 .. Len(exprs)] ==
          IF i = 0 THEN Match(0, <<>>, <<>>) ELSE Step(Through[i - 1], exprs[i])
    IN  Through[Len(exprs)]

-----------------------------------------------------------------------------

\* substitute_action_streaming: captures as they are, and variables that stand for
\* a text or a number.
SubstituteStreaming(defines, e, caps, names) ==
    LET text == Referred(e.val, caps, names)
    IN  CASE e.kind \in {"Capture", "CaptureName"} ->
               Expr("String", IF text = <<>> THEN <<>> ELSE text[1])
          [] e.kind = "Variable" /\ e.val \in DOMAIN defines ->
               IF defines[e.val].kind \in {"String", "Number"} THEN Expr("String", defines[e.val].val) ELSE e
          [] OTHER -> e

\* expr_to_string_streaming: no escape, nothing encoded.
TextStreaming(defines, arg, caps, names) ==
    LET e == Resolve(defines, arg)
    IN  CASE e.kind = "String" -> Fill(e.val, caps, names, FALSE, LAMBDA text : text)
          [] e.kind = "Number" -> e.val
          [] e.kind = "Regex"  -> <<"/">> \o e.val \o <<"/">>
          [] OTHER             -> <<>>
=============================================================================
