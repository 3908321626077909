------------------------------- MODULE Paths -------------------------------
(***************************************************************************)
(* How captured text gets into the output tree: it is percent-encoded into *)
(* the arguments of an action (substitute_action and expr_to_string in     *)
(* src/exec/mod.rs), the path is parsed (parse_path in src/exec/out.rs),   *)
(* and the parts and the value are decoded.                                *)
(*                                                                         *)
(* Abstractions.  The characters that are encoded are those of Hex, one    *)
(* byte each; "%" with other digits does not occur.  White space is " ".   *)
(***************************************************************************)
EXTENDS Patterns

-----------------------------------------------------------------------------
(* Percent encoding                                                        *)

Hex == [c \in {"/", "?", "=", "&", "\"", "%", "$"} |->
          CASE c = "/" -> <<"2", "F">> [] c = "?" -> <<"3", "F">> [] c = "=" -> <<"3", "D">>
            [] c = "&" -> <<"2", "6">> [] c = "\"" -> <<"2", "2">> [] c = "%" -> <<"2", "5">>
            [] c = "$" -> <<"2", "4">>]

\* Mutant: "/" is safe, as it is in Python's quote by default.
EncodeNotSlash(s) ==
    FlattenSeq([i \in DOMAIN s |-> IF s[i] \in DOMAIN Hex \ {"/"} THEN <<"%">> \o Hex[s[i]] ELSE <<s[i]>>])

\* percent_encode.
Encode(s) ==
    FlattenSeq([i \in DOMAIN s |-> IF s[i] \in DOMAIN Hex THEN <<"%">> \o Hex[s[i]] ELSE <<s[i]>>])

\* The character with these digits, in upper or lower case: one or none.
Coded(high, low) == {c \in DOMAIN Hex : Same(Hex[c], <<high, low>>, TRUE)}

\* percent_decode.
Decode(s) ==
    LET From[i \in 1 .. Len(s) + 1] ==
          LET c == IF i + 2 <= Len(s) /\ s[i] = "%" THEN Coded(s[i + 1], s[i + 2]) ELSE {}
          IN  CASE i > Len(s)             -> <<>>
                [] i <= Len(s) /\ c = {}  -> <<s[i]>> \o From[i + 1]
                [] i <= Len(s) /\ c # {}  -> <<CHOOSE x \in c : TRUE>> \o From[i + 3]
    IN  From[1]

-----------------------------------------------------------------------------
(* Arguments                                                               *)

\* substitute_action: an argument that is a capture becomes its encoded text.
Substitute(e, caps, names) ==
    LET text == Referred(e.val, caps, names)
    IN  IF e.kind \notin {"Capture", "CaptureName"} THEN e
        ELSE Expr("String", IF text = <<>> THEN <<>> ELSE Encode(text[1]))

NameChar == Digits \cup {"_", "a", "A", "b", "B", "n"}

\* The captures that s refers to by $0, $1 and $name put in, each through Enc, and
\* \$ replaced by $ if it is an escape.
Fill(s, caps, names, escape, Enc(_)) ==
    LET NameEnd(i) == CHOOSE e \in i .. Len(s) : /\ \A j \in i + 1 .. e : s[j] \in NameChar
                                                 /\ e = Len(s) \/ s[e + 1] \notin NameChar
        Put(ref) == IF ref = <<>> THEN <<"$">>
                    ELSE LET text == Referred(ref, caps, names)
                         IN  IF text = <<>> THEN <<>> ELSE Enc(text[1])
        From[i \in 1 .. Len(s) + 1] ==
          IF i > Len(s) THEN <<>>
          ELSE IF escape /\ s[i] = "\\" /\ i < Len(s) /\ s[i + 1] = "$" THEN <<"$">> \o From[i + 2]
          ELSE IF s[i] = "$" THEN Put(SubSeq(s, i + 1, NameEnd(i))) \o From[NameEnd(i) + 1]
          ELSE <<s[i]>> \o From[i + 1]
    IN  From[1]

\* expr_to_string of a text.
Interpolate(s, caps, names) == Fill(s, caps, names, TRUE, Encode)

\* The same for what triggers add: nothing is encoded.
InterpolateLocal(s, caps, names) == Fill(s, caps, names, TRUE, LAMBDA text : text)

\* expr_to_cow, expr_to_string.
TextOf(defines, arg, caps, names) ==
    LET e == Resolve(defines, arg)
    IN  CASE e.kind = "String" -> Interpolate(e.val, caps, names)
          [] e.kind = "Number" -> e.val
          [] e.kind = "Regex"  -> <<"/">> \o e.val \o <<"/">>
          [] OTHER             -> <<>>

-----------------------------------------------------------------------------
(* Paths                                                                   *)

\* The pieces of s between the positions of P.
Pieces(s, P) ==
    LET cuts == <<0>> \o SetToSortSeq(P, <) \o <<Len(s) + 1>>
    IN  [i \in 1 .. Len(cuts) - 1 |-> SubSeq(s, cuts[i] + 1, cuts[i + 1] - 1)]

At(s, c) == {i \in DOMAIN s : s[i] = c}

\* The part of s before and the part after the first c.
Upto(s, c) == SubSeq(s, 1, Min(At(s, c) \cup {Len(s) + 1}) - 1)
Beyond(s, c) == SubSeq(s, Min(At(s, c) \cup {Len(s) + 1}) + 1, Len(s))

Trim(s) ==
    LET ink == DOMAIN s \ At(s, " ")
    IN  IF ink = {} THEN <<>> ELSE SubSeq(s, Min(ink), Max(ink))

Dashed(s) == [i \in DOMAIN s |-> IF s[i] = " " THEN "-" ELSE s[i]]

Quoted(s) == Len(s) >= 2 /\ Head(s) = "\"" /\ Last(s) = "\""

\* split_path_segments: at each "/" with an even number of quotes before it.
SplitPathSegments(path) ==
    Pieces(path, {i \in At(path, "/") : Cardinality(At(SubSeq(path, 1, i), "\"")) % 2 = 0})

\* A pair key=value of a segment.
Attribute(pair) ==
    LET val == Trim(Beyond(pair, "="))
    IN  <<Decode(Dashed(Lower(Trim(Upto(pair, "="))))),
          Decode(IF Quoted(val) THEN SubSeq(val, 2, Len(val) - 1) ELSE val)>>

Normal(tag) == Lower(Dashed(Trim(tag)))

PathSegment(part) ==
    LET query == Beyond(part, "?")
        pairs == SelectSeq(Pieces(query, At(query, "&")), LAMBDA p : At(p, "=") # {})
    IN  [tag |-> Normal(Decode(Upto(part, "?"))),
         attribs |-> [i \in DOMAIN pairs |-> Attribute(pairs[i])]]

\* parse_path.
ParsePath(path) ==
    LET parts == SelectSeq(SplitPathSegments(path), LAMBDA p : p # <<>>)
    IN  [i \in DOMAIN parts |-> PathSegment(parts[i])]

\* What exec makes of the path of an action: the cursor's node, a child of it or
\* the end of a path.  The first segment is taken without a test whether there is
\* one.
Target(name, path) ==
    LET segs == ParsePath(path)
        direct == /\ name \in {<<"out.create">>, <<"out.add">>}
                  /\ At(path, "/") = {} /\ (path # <<>> => Head(path) # ".")
    IN  CASE path = <<".">> /\ name \notin {<<"out.open">>, <<"out.enter">>} ->
               [node |-> "cursor", segs |-> <<>>]
          [] direct -> [node |-> IF segs = <<>> THEN "panic" ELSE "child", segs |-> segs]
          [] OTHER  -> [node |-> "path", segs |-> segs]
=============================================================================
