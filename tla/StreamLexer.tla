---------------------------- MODULE StreamLexer ----------------------------
(***************************************************************************)
(* The chunked lexer of grammar sources (src/stream): a reader delivers    *)
(* chunks, next_batch tokenizes what has arrived and returns a batch, and  *)
(* a literal that a chunk cuts is waited for.                              *)
(*                                                                         *)
(* The caller asks for batches until it gets none.  pending is the input   *)
(* between offset and read.  A call of next_batch fills, lexes token by    *)
(* token, and ends in Deliver, which may fill and start over (the          *)
(* recursion of the code).                                                 *)
(*                                                                         *)
(* Abstractions.  A character is one of its class: "w" of identifiers,     *)
(* numbers and keywords, "t" of intra-line white space and indentation,    *)
(* "n" of newlines, "#" the start of a comment, "q" the delimiter of       *)
(* strings and regexes (without escapes), "?" of anything that starts no   *)
(* token.  Read errors and chunks that cut a multi-byte character, which   *)
(* end the call with an error, are left out.                               *)
(***************************************************************************)
EXTENDS Naturals, Sequences

CONSTANTS Inputs,    \* the sources: sequences of characters
          MaxChunk,  \* chunk_size
          MaxBatch   \* tokens in a batch: 2048 in the code

Char == {"w", "t", "n", "#", "q", "?"}

ASSUME InputsAssumption == Inputs \subseteq Seq(Char)
ASSUME MaxChunkAssumption == MaxChunk \in Nat \ {0} /\ MaxBatch \in Nat \ {0}

VARIABLES input,     \* chosen at the start
          read,      \* characters the reader has delivered
          eof, finished,
          offset,    \* global_offset
          phase,     \* "idle" between calls, "start", "lex", "full",
                     \* "end", "failed"
          local,     \* local_consumed
          batch,     \* tokens of this call
          out,       \* history: tokens returned so far
          cuts       \* history: ends of the chunks

vars == <<input, read, eof, finished, offset, phase, local, batch, out, cuts>>

Init == /\ input \in Inputs
        /\ read = 0 /\ eof = FALSE /\ finished = FALSE /\ offset = 0
        /\ phase = "idle" /\ local = 0 /\ batch = <<>> /\ out = <<>> /\ cuts = {}

-----------------------------------------------------------------------------
(* Tokens                                                                  *)

Ch(p) == input[p + 1]

\* The end of the longest stretch from p, within e, of characters in S.
StretchEnd(p, e, S) ==
    CHOOSE k \in p .. e : /\ \A i \in p .. k - 1 : Ch(i) \in S
                          /\ k = e \/ Ch(k) \notin S

\* A literal at p that is closed before e, and where.
Closers(p, e) == {k \in p + 1 .. e - 1 : Ch(k) = "q"}
ClosedAt(p, e) == CHOOSE k \in Closers(p, e) : \A j \in Closers(p, e) : k <= j

\* looks_fragmented.
Fragmented(p, e) == p < e /\ Ch(p) = "q" /\ Closers(p, e) = {}

\* next_token recognizes nothing at p in the text up to e.
NoToken(p, e) == Ch(p) = "?" \/ Fragmented(p, e)

\* Mutant of TokenEnd: a literal goes on to the last delimiter.
TokenEndGreedy(p, e) ==
    CASE Ch(p) = "q" -> (CHOOSE k \in Closers(p, e) : \A j \in Closers(p, e) : j <= k) + 1
      [] Ch(p) = "#" -> StretchEnd(p, e, {"w", "t", "q", "#", "?"})
      [] OTHER       -> StretchEnd(p, e, {Ch(p)})

\* Where the token at p ends.
TokenEnd(p, e) ==
    CASE Ch(p) = "q" -> ClosedAt(p, e) + 1
      [] Ch(p) = "#" -> StretchEnd(p, e, {"w", "t", "q", "#", "?"})
      [] OTHER       -> StretchEnd(p, e, {Ch(p)})

\* Comments and white space within a line are not pushed.
Pushed(p) == Ch(p) \in {"w", "n", "q"}
Token(p, end) == [kind |-> Ch(p), start |-> p, len |-> end - p]
EofToken(p) == [kind |-> "eof", start |-> p, len |-> 0]
Skipped(p) == [kind |-> "#", start |-> p, len |-> 0]

-----------------------------------------------------------------------------
(* next_batch                                                              *)

\* fill: the next chunk, or the end of the input.
Fill == IF eof THEN UNCHANGED <<read, eof, cuts>>
        ELSE \/ \E n \in 1 .. MaxChunk :
                  /\ read + n <= Len(input)
                  /\ read' = read + n /\ cuts' = cuts \cup {read + n} /\ UNCHANGED eof
             \/ read = Len(input) /\ eof' = TRUE /\ UNCHANGED <<read, cuts>>

\* A call: nothing after the end, else it starts.
Call ==
    /\ phase = "idle"
    /\ phase' = IF finished THEN "end" ELSE "start"
    /\ UNCHANGED <<input, read, eof, finished, offset, local, batch, out, cuts>>

Pending == offset < read

\* The call fills when nothing is pending; at the end of the input it returns
\* the EOF token.
Start ==
    /\ phase = "start"
    /\ IF Pending THEN UNCHANGED <<read, eof, cuts>> ELSE Fill
    /\ IF offset = read' /\ eof'
         THEN /\ finished' = TRUE /\ out' = Append(out, EofToken(offset)) /\ phase' = "idle"
         ELSE /\ phase' = "lex" /\ UNCHANGED <<finished, out>>
    /\ local' = 0 /\ batch' = <<>>
    /\ UNCHANGED <<input, offset>>

At == offset + local
Lexing == phase = "lex" /\ At < read

LexToken ==
    /\ Lexing /\ ~NoToken(At, read)
    /\ local' = TokenEnd(At, read) - offset
    /\ batch' = IF Pushed(At) THEN Append(batch, Token(At, TokenEnd(At, read))) ELSE batch
    /\ phase' = IF Len(batch') >= MaxBatch THEN "full" ELSE "lex"
    /\ UNCHANGED <<input, read, eof, finished, offset, out, cuts>>

\* A character that starts no token is dropped; after the end of the input a
\* comment of length 0 is pushed for it.
LexGarbage ==
    /\ Lexing /\ NoToken(At, read) /\ ~Fragmented(At, read)
    /\ local' = local + 1
    /\ batch' = IF eof THEN Append(batch, Skipped(At)) ELSE batch
    /\ UNCHANGED <<input, read, eof, finished, offset, phase, out, cuts>>

\* An open literal at the end of the input: an error, and the batch is lost.
LexUnterminated ==
    /\ Lexing /\ Fragmented(At, read) /\ eof
    /\ phase' = "failed"
    /\ UNCHANGED <<input, read, eof, finished, offset, local, batch, out, cuts>>

\* The loop is over: everything lexed, an open literal to wait for, or a full
\* batch.
LoopOver == phase = "full" \/ (phase = "lex" /\ (At = read \/ (Fragmented(At, read) /\ ~eof)))

\* Mutant: starts over without filling.
RetryNoFill ==
    /\ LoopOver /\ batch = <<>> /\ ~eof
    /\ offset' = At
    /\ phase' = "start"
    /\ local' = 0
    /\ UNCHANGED <<input, read, eof, finished, batch, out, cuts>>

\* Nothing to return before the end of the input: fill and start over, or
\* return an empty batch when the end was found with nothing pending.
Retry ==
    /\ LoopOver /\ batch = <<>> /\ ~eof
    /\ Fill
    /\ offset' = At
    /\ phase' = IF At = read' THEN "idle" ELSE "start"
    /\ local' = 0
    /\ UNCHANGED <<input, finished, batch, out>>

\* Mutant: the consumed text stays pending.
DeliverKeepsPending ==
    /\ LoopOver /\ (batch # <<>> \/ eof)
    /\ finished' = (eof /\ At = read)
    /\ out' = out \o batch \o (IF eof /\ At = read THEN <<EofToken(At)>> ELSE <<>>)
    /\ phase' = "idle" /\ local' = 0
    /\ UNCHANGED <<input, read, eof, offset, batch, cuts>>

\* The batch is returned, with the EOF token when all input is consumed.
Deliver ==
    /\ LoopOver /\ (batch # <<>> \/ eof)
    /\ offset' = At
    /\ finished' = (eof /\ At = read)
    /\ out' = out \o batch \o (IF eof /\ At = read THEN <<EofToken(At)>> ELSE <<>>)
    /\ phase' = "idle" /\ local' = 0
    /\ UNCHANGED <<input, read, eof, batch, cuts>>

Next == Call \/ Start \/ LexToken \/ LexGarbage \/ LexUnterminated \/ Retry \/ Deliver
Spec == Init /\ [][Next]_vars

\* One thread; the caller asks for batches until it gets none.
FairSpec == Spec /\ WF_vars(Next)

-----------------------------------------------------------------------------
(* Properties                                                              *)

\* Types of the variables a step can change.
TypeOK == /\ 0 <= offset /\ offset <= read /\ read <= Len(input)
          /\ local \in Nat /\ offset + local <= read
          /\ {eof, finished} \subseteq BOOLEAN /\ cuts \subseteq 1 .. Len(input)
          /\ phase \in {"idle", "start", "lex", "full", "end", "failed"}

\* The state is well typed, and the tokens returned over all batches are in the
\* order of the text, do not overlap and lie in what was consumed; EOF comes
\* once, at the end of the whole input, as the last one.
InOrder ==
    /\ TypeOK
    /\ \A i \in 1 .. Len(out) - 1 : out[i].start + out[i].len <= out[i + 1].start
    /\ \A i \in DOMAIN out : out[i].start + out[i].len <= offset
    /\ \A i \in DOMAIN out : out[i].kind = "eof" => i = Len(out) /\ out[i].start = Len(input)
    /\ finished <=> \E i \in DOMAIN out : out[i].kind = "eof"

\* The tokens of the text from p on, lexed in one piece; "open" marks a
\* literal that is not closed.
WholeFrom[p \in 0 .. Len(input)] ==
    LET e == Len(input) IN
    IF p = e THEN <<EofToken(p)>>
    ELSE IF Fragmented(p, e) THEN <<[kind |-> "open", start |-> p, len |-> e - p]>>
    ELSE IF NoToken(p, e) THEN WholeFrom[p + 1]
    ELSE IF Pushed(p) THEN <<Token(p, TokenEnd(p, e))>> \o WholeFrom[TokenEnd(p, e)]
    ELSE WholeFrom[TokenEnd(p, e)]
Whole == WholeFrom[0]

\* Where the tokens of the text in one piece start, skipped ones included.
StartsFrom[p \in 0 .. Len(input)] ==
    LET e == Len(input) IN
    {p} \cup (IF p = e THEN {}
              ELSE IF Fragmented(p, e) THEN {e}
              ELSE StartsFrom[IF NoToken(p, e) THEN p + 1 ELSE TokenEnd(p, e)])
Starts == StartsFrom[0]

\* Positions inside a literal.
Inside == {p \in 0 .. Len(input) : \E s \in Starts : /\ s < p /\ Ch(s) = "q"
                                                  /\ \A r \in Starts : s < r => p < r}

\* The tokens of q without the comments.
Content(q) ==
    LET Upto[i \in 0 .. Len(q)] ==
          IF i = 0 THEN <<>>
          ELSE IF q[i].kind = "#" THEN Upto[i - 1] ELSE Append(Upto[i - 1], q[i])
    IN  Upto[Len(q)]

\* Chunks that end between two tokens or inside a literal cannot be seen: the
\* tokens are those of the text in one piece, and a literal that is never
\* closed is an error, not lost.  (Other tokens are not waited for: a chunk
\* that ends inside an identifier or a comment is seen.)
CutsInvisible ==
    cuts \subseteq Starts \cup Inside =>
      /\ phase = "end" => Content(out) = Whole
      /\ phase = "failed" => Whole[Len(Whole)].kind = "open"

\* The caller gets to the end of every source, closed or not.
Finishes == <>(phase \in {"end", "failed"})

=============================================================================
