------------------------------ MODULE FastSkip ------------------------------
(***************************************************************************)
(* The fast path of skip statements (eval_skip and try_fast_skip_kind of   *)
(* src/exec/mod.rs): the common patterns are recognized by their text      *)
(* (classify_fast_path) and matched by scanning for bytes, and the regular *)
(* expression is then not tried.  Regex below is what the expression of    *)
(* each kind matches, and the reference for Fast.                          *)
(*                                                                         *)
(* Abstractions.  A text is a sequence of bytes, each one of its class:    *)
(* "r" and "n" for CR and LF, "s" space, "t" tab, "h" hash, "b" bang, "d"  *)
(* digit, "w" any other ASCII word character, "v" the vertical tab, which  *)
(* is white space to the regular expressions only, and "u" and "c" the     *)
(* first byte and each other byte of a character that is not ASCII.  Fast  *)
(* goes byte by byte, Regex character by character.  The window of 1000    *)
(* bytes the expressions are given is left out.  No match and a match of   *)
(* nothing are both 0, as a skip statement ignores both.                   *)
(***************************************************************************)
EXTENDS Naturals, Sequences

CONSTANT Char      \* bytes of the inputs

Cr == {"r"}
Nl == {"n"}
CrNl == {"r", "n"}
Blank == {"s", "t"}
AsciiSpace == Blank \cup CrNl
AsciiWord == {"d", "w"}
NotIn(C) == Char \ C

\* The bytes of characters that are whole, however many a character has.
Utf8(s) == \A i \in DOMAIN s :
             /\ s[i] = "u" => i < Len(s) /\ s[i + 1] = "c"
             /\ s[i] = "c" => i > 1 /\ s[i - 1] \in {"u", "c"}

\* Where no character is cut: a string can be sliced at these positions only.
Bounds(s) == {p \in 0 .. Len(s) : p = Len(s) \/ s[p + 1] # "c"}

-----------------------------------------------------------------------------
(* Scanning                                                                *)

\* memchr, memchr2: the first position from i on with a byte of C, 0
\* without one.
First(s, i, C) ==
    LET Hits == {j \in i .. Len(s) : s[j] \in C}
    IN  IF Hits = {} THEN 0 ELSE CHOOSE j \in Hits : \A k \in Hits : j <= k

\* take_while: the end of the stretch of C after position i.
RunEnd(s, i, C) ==
    CHOOSE e \in i .. Len(s) : /\ \A j \in i + 1 .. e : s[j] \in C
                               /\ e = Len(s) \/ s[e + 1] \notin C

\* The end of the line endings \n and \r\n after position i.
EolsEnd(s, i) ==
    LET End[p \in i .. Len(s)] ==
          IF p < Len(s) /\ s[p + 1] = "n" THEN End[p + 1]
          ELSE IF p + 1 < Len(s) /\ s[p + 1] = "r" /\ s[p + 2] = "n" THEN End[p + 2]
          ELSE p
    IN  End[i]

One(s, C) == IF s[1] \in C THEN 1 ELSE 0

\* Mutant: the line may be empty.
ToEmpty(s, C, atLeast) == First(s, 1, C)

\* Through the first byte of C, with at least so many before it.
To(s, C, atLeast) == LET i == First(s, 1, C) IN IF i > atLeast THEN i ELSE 0

\* Where a comment that starts with a byte of Lead ends.
CommentEnd(s, Lead, C) == IF s[1] \in Lead THEN First(s, 2, C) ELSE 0

\* The end of what follows spaces at the start, if that is something.
AfterSpaces(s, end) == IF end > RunEnd(s, 0, {"s"}) THEN end ELSE 0

\* SkipToOptCrNlPlus: something must stand before the \r\n or \n.
ToOptCrNlPlus(s) ==
    LET nl == First(s, 1, Nl)
        before == IF nl > 1 /\ s[nl - 1] = "r" THEN nl - 2 ELSE nl - 1
    IN  IF nl > 0 /\ before >= 1 THEN nl ELSE 0

HashComment(s, C) ==
    IF CommentEnd(s, {"h"}, C) = 0 THEN 0
    ELSE IF C = Nl THEN EolsEnd(s, CommentEnd(s, {"h"}, C))
    ELSE RunEnd(s, CommentEnd(s, {"h"}, C), C)

OptCrNl(s) ==
    IF s[1] = "n" THEN 1 ELSE IF s[1] = "r" /\ Len(s) > 1 /\ s[2] = "n" THEN 2 ELSE 0

\* try_fast_skip_kind.
ByKind(k, s) ==
    CASE k = "SkipToNewline"      -> To(s, Nl, 0)
      [] k = "SkipToNewlinePlus"  -> To(s, Nl, 1)
      [] k = "SkipToCrLf"         -> To(s, CrNl, 0)
      [] k = "SkipToCrLfPlus"     -> To(s, CrNl, 1)
      [] k = "CommentBangHash"    -> CommentEnd(s, {"b", "h"}, CrNl)
      [] k = "CommentHashPlus"    -> HashComment(s, CrNl)
      [] k = "DotStarNewline"     -> To(s, Nl, 0)
      [] k = "Whitespace"         -> RunEnd(s, 0, AsciiSpace)
      [] k = "NonWhitespace"      -> RunEnd(s, 0, NotIn(AsciiSpace))
      [] k = "Digits"             -> RunEnd(s, 0, {"d"})
      [] k = "WordChars"          -> RunEnd(s, 0, AsciiWord)
      [] k = "HorizWhitespace"    -> RunEnd(s, 0, Blank)
      [] k = "CrLfPlus"           -> RunEnd(s, 0, CrNl)
      [] k = "CrLf"               -> One(s, CrNl)
      [] k = "NonCrLfPlus"        -> RunEnd(s, 0, NotIn(CrNl))
      [] k = "NonCrLfStar"        -> RunEnd(s, 0, NotIn(CrNl))
      [] k = "NonCrLf"            -> One(s, NotIn(CrNl))
      [] k = "SpacesNewlines"     -> AfterSpaces(s, RunEnd(s, RunEnd(s, 0, {"s"}), CrNl))
      [] k = "OptCrNl"            -> OptCrNl(s)
      [] k = "OptCrNlPlus"        -> EolsEnd(s, 0)
      [] k = "SkipToOptCrNl"      -> To(s, Nl, 0)
      [] k = "SkipToOptCrNlPlus"  -> ToOptCrNlPlus(s)
      [] k = "CommentBangHashOpt" -> CommentEnd(s, {"b", "h"}, Nl)
      [] k = "CommentHashPlusOpt" -> HashComment(s, Nl)
      [] k = "SpacesOptCrNlPlus"  -> AfterSpaces(s, EolsEnd(s, RunEnd(s, 0, {"s"})))
      [] k = "Newline"            -> One(s, Nl)
      [] k = "Dot"                -> 1

Fast(k, s) == IF s = <<>> THEN 0 ELSE ByKind(k, s)

-----------------------------------------------------------------------------
(* The regular expression of each kind.  Each is deterministic, so what it *)
(* matches is the longest match; an operator maps the positions where a    *)
(* part can start to those where it can end.  A class that has one byte of *)
(* the characters that are not ASCII has them all.                         *)

\* After the character that starts after position p.
Past(s, p) == RunEnd(s, p + 1, {"c"})

Then(s, P, C) == {Past(s, p) : p \in {q \in P : q < Len(s) /\ s[q + 1] \in C}}
Perhaps(s, P, C) == P \cup Then(s, P, C)
Star(s, P, C) == {e \in Bounds(s) : \E p \in P : p <= e /\ \A i \in p + 1 .. e : s[i] \in C}
Plus(s, P, C) == Star(s, Then(s, P, C), C)
Eol(s, P) == Then(s, Perhaps(s, P, Cr), Nl)
EolPlus(s, P) ==
    LET After[n \in 0 .. Len(s)] == IF n = 0 THEN P ELSE Eol(s, After[n - 1])
    IN  UNION {After[n] : n \in 1 .. Len(s)}

Space == AsciiSpace \cup {"v"}      \* \s: also some of "u"
Line(s, C) == Star(s, {0}, C)
Line1(s, C) == Plus(s, {0}, C)
Lead(s, C) == Star(s, Then(s, {0}, C), NotIn(CrNl))

\* classify_fast_path, from the kind to the pattern.
Ends(k, s) ==
    CASE k = "SkipToNewline"      -> Then(s, Line(s, NotIn(Nl)), Nl)
      [] k = "SkipToNewlinePlus"  -> Then(s, Line1(s, NotIn(Nl)), Nl)
      [] k = "SkipToCrLf"         -> Then(s, Line(s, NotIn(CrNl)), CrNl)
      [] k = "SkipToCrLfPlus"     -> Then(s, Line1(s, NotIn(CrNl)), CrNl)
      [] k = "CommentBangHash"    -> Then(s, Lead(s, {"b", "h"}), CrNl)
      [] k = "CommentHashPlus"    -> Plus(s, Lead(s, {"h"}), CrNl)
      [] k = "DotStarNewline"     -> Then(s, Line(s, NotIn(Nl)), Nl)
      [] k = "Whitespace"         -> Line1(s, Space)
      [] k = "NonWhitespace"      -> Line1(s, NotIn(Space))
      [] k = "Digits"             -> Line1(s, {"d"})
      [] k = "WordChars"          -> Line1(s, AsciiWord)
      [] k = "HorizWhitespace"    -> Line1(s, Blank)
      [] k = "CrLfPlus"           -> Line1(s, CrNl)
      [] k = "CrLf"               -> Then(s, {0}, CrNl)
      [] k = "NonCrLfPlus"        -> Line1(s, NotIn(CrNl))
      [] k = "NonCrLfStar"        -> Line(s, NotIn(CrNl))
      [] k = "NonCrLf"            -> Then(s, {0}, NotIn(CrNl))
      [] k = "SpacesNewlines"     -> Plus(s, Line(s, {"s"}), CrNl)
      [] k = "OptCrNl"            -> Eol(s, {0})
      [] k = "OptCrNlPlus"        -> EolPlus(s, {0})
      [] k = "SkipToOptCrNl"      -> Eol(s, Line(s, NotIn(CrNl)))
      [] k = "SkipToOptCrNlPlus"  -> Eol(s, Line1(s, NotIn(CrNl)))
      [] k = "CommentBangHashOpt" -> Eol(s, Lead(s, {"b", "h"}))
      [] k = "CommentHashPlusOpt" -> EolPlus(s, Lead(s, {"h"}))
      [] k = "SpacesOptCrNlPlus"  -> EolPlus(s, Line(s, {"s"}))
      [] k = "Newline"            -> Then(s, {0}, Nl)
      [] k = "Dot"                -> Then(s, {0}, NotIn(Nl))

Regex(k, s) == LET E == Ends(k, s) IN
               IF E = {} THEN 0 ELSE CHOOSE e \in E : \A f \in E : f <= e

-----------------------------------------------------------------------------
(* The kinds, and where fast path and expression are meant to agree        *)

Unicode == {"Whitespace", "NonWhitespace", "Digits", "WordChars"}
CrSafe == {"SkipToOptCrNl", "SkipToOptCrNlPlus", "CommentBangHashOpt", "CommentHashPlusOpt"}
Kinds == Unicode \cup CrSafe \cup
         {"SkipToNewline", "SkipToNewlinePlus", "SkipToCrLf", "SkipToCrLfPlus",
          "CommentBangHash", "CommentHashPlus", "DotStarNewline", "HorizWhitespace",
          "CrLfPlus", "CrLf", "NonCrLfPlus", "NonCrLfStar", "NonCrLf", "SpacesNewlines",
          "OptCrNl", "OptCrNlPlus", "SpacesOptCrNlPlus", "Newline", "Dot"}

\* The kinds that take one byte, whatever it is part of.
OneByte == {"Dot", "NonCrLf"}

\* Where the fast path and the expression agree: no character that only the
\* Unicode classes know, every CR part of a CRLF, for "." no line ending, and for
\* a kind that takes one byte a character that has no more.
CrIsCrLf(s) == \A i \in DOMAIN s : s[i] = "r" => i < Len(s) /\ s[i + 1] = "n"
Ordinary(k, s) ==
    /\ k \in Unicode => \A i \in DOMAIN s : s[i] \notin {"u", "v"}
    /\ k \in CrSafe => CrIsCrLf(s)
    /\ k = "Dot" => s # <<>> /\ s[1] # "n"
    /\ k \in OneByte => s = <<>> \/ s[1] # "u"
=============================================================================
