# Rustine in TLA+

Rustine runs grammars of the Gel language over a text and builds an output
tree from the actions of the grammars. This directory models the parts of the
engine that keep state, checks them with TLC on small instances, and proves
the safety of the output tree, both engines, the chunked lexer and the way from
a document to its matches with TLAPS for every size.

Paths below are relative to the repository; `mod.rs`, `out.rs` and
`streaming.rs` are the files of `src/exec`.

## 1. The system

| part | state | operations | talks to |
|---|---|---|---|
| lexer, syntax parser (`src/parser`) | none | text to tokens to AST | validator, engine |
| validator (`validate.rs`) | none | AST to diagnostics | `parse_and_run`, `GelContext` |
| pattern compilation (`ast.rs`) | indexes and compiled expressions of the document | `compile_regexes` | engine |
| batch engine (`mod.rs`) | position, call stack, counts, error, trigger lists | `run_grammar`, `run_inline_grammar`, `execute_runtime_actions`, `fire_triggers` | output tree |
| inheritance (`mod.rs:70`) | visited set | `collect_inherited_statements` | engine |
| pattern evaluation (`mod.rs:402-958`) | captures and names of the match under way | `eval_match`, `eval_when`, `eval_skip`, `eval_field_list` | engine |
| skip fast path (`mod.rs:433-743`) | none | `eval_skip`, `try_fast_skip_kind` | engine |
| substitution, interpolation (`mod.rs:1055`, `mod.rs:1548`) | captures of the last match | `substitute_action`, `expr_to_string` | output tree |
| paths and percent codec (`out.rs:310-447`) | none | `percent_encode`, `percent_decode`, `parse_path` | output tree |
| streaming engine (`streaming.rs`) | buffer, position, totals, trigger lists, end of input | `feed`, `set_eof`, `step`, `finish` | its caller, output tree |
| output tree (`out.rs`) | arena, cursor stack, child index, attribute pool | `exec` of create, add, replace, add_attribute, open, enter, leave | engines |
| flat tree (`out.rs:184`) | sequence of nodes | `compact_and_flatten`, `children_of` | serializers |
| chunked lexer (`src/stream`) | pending text, offset, end of input | `fill`, `next_batch` | chunk reader, its caller |
| serializers, bridge, command line | none | text out, arguments in | all |

The program is sequential. What makes it hard is not concurrency but

* recursion with early exits: a block calls a grammar whose blocks call others,
  and `do.return`, `do.next`, `do.skip`, `do.fail` and the leaves that `out.open`
  owes cross these calls in ways of their own (`mod.rs:1111-1468`);
* structure that refers to itself by number: node ids, child positions in an
  index, offsets into a shared pool, ranges of a flat sequence, each of which
  some operation shifts (`out.rs`);
* input that arrives in pieces, with a caller that may call in any order
  (`streaming.rs`, `stream_lexer.rs`);
* loops that go on "as long as there is progress";
* fast paths and copies that must agree with what they replace: byte scans for
  expressions, one combined expression for several, a streaming engine with an
  evaluation of its own;
* text that is data in one place and syntax in the next: indentation that ends a
  block, captures that become part of a path.

`PROJECT.json` lists each hazard with its line and the properties for it.

What makes each part correct:

* attribute pool: every node sees the attributes that were given to it, in
  order, whatever was relocated for other nodes;
* output tree: the arena is a tree, lookup through the index answers what a scan
  answers, open scopes are nested and attached;
* flat tree: every reachable node once, its children its range, grouped by name;
* batch engine: it ends, leaves no scope open, accounts for what it consumed,
  fires each single-shot trigger that hits once, a failure is final;
* inheritance: each grammar of the chain once, ancestors first, cycles included;
* streaming engine: what is true of the batch engine, between any two calls, and
  the cut into chunks cannot be seen;
* chunked lexer: the tokens of the whole text, in order, with one end;
* skip fast path: on ordinary text, the bytes of the characters that the regular
  expression matches;
* parser: a document in any sensible layout is the document that was meant;
* validator and compilation: a document without diagnostics never fails for a
  name or an expression that is not there;
* pattern evaluation: every way to evaluate a list gives the same match and the
  same captures;
* substitution and paths: the characters of a captured text divide no path.

## 2. Modules

| module | models | state in the code |
|---|---|---|
| `NodeAttrs` | abstract: a private list of attributes for each node | - |
| `AttrPool` | `set_node_attrs_raw`, `push_node_attr`, `node_attrs` | `attr_pool` = `OutputTree::attr_pool`, `start`/`len` = `attr_start`/`attr_len` |
| `AttrPool_proof` | theorems about `AttrPool` | - |
| `OutputTree` | all path operations, `leave`, `set_root_name`, the child index | `arena`, `stack` = cursor stack, `op` = the running loop over path segments |
| `OutputTree_proof` | theorems about `OutputTree` | - |
| `Flatten` | `compact_node`, `from_arena` | `born` = the children as built, `children`, `calls` = recursion, `groups`, `order` = all pushed to the queue, `nodes`, `next` = `next_child_start` |
| `Flatten_proof` | theorems about `Flatten` | - |
| `Inherit` | `collect_inherited_inner` | `calls` = recursion, `visited`, `stmts` |
| `Inherit_proof` | theorems about `Inherit` | - |
| `Runner` | `run_grammar`, `run_inline_grammar`, `execute_runtime_actions`, `fire_triggers` | `frames` = call stack, `pos`, `single`/`persist` = trigger lists, `depth` = cursor stack, `consumed`, `error` |
| `FastSkip` | `try_fast_skip_kind`, and the expression of each kind | - (operators) |
| `Syntax` | the rules of `syntax.rs`, from tokens to the document | - |
| `Patterns` | `resolve_defines_inline`, combined expressions, prefixes, `eval_field_list`, `eval_expression_with_groups` | - |
| `StreamingEval` | the streaming engine's evaluation and substitution | - |
| `Paths` | percent codec, `substitute_action`, `expr_to_string`, `parse_path`, the path cases of `exec` | - |
| `Validate` | `validate` and its passes | - |
| `Statement` | `parse_and_run`, `GelContext::new`, `eval_match`, `eval_when`, `eval_skip`, slicing inside a character (`ReadInside`), actions that stand alone, calls, and what the `out` actions get as arguments | `ast`, `compiled` = `compiled_regex` and `literal_prefix`, `pos`, `match` = `last_captures` and `last_capture_names`, `running` = substituted actions, `calls` = recursion |
| `StatementTerms` | the sets and relations these theorems speak of, with their inductive invariant; no code | - |
| `Statement_proof` | theorems about `Statement` and the operators it composes | - |
| `Runner_proof` | theorems about `Runner` | - |
| `StreamingRunner` | `feed`, `set_eof`, `step`, `finish`, `execute_runtime_actions_streaming` | `fed` = length of `buffer`, `pos`, `consumed`, `run` = locals of `step`, `trigs` |
| `StreamingRunner_proof` | theorems about `StreamingRunner` | - |
| `StreamLexer` | `fill`, `next_batch`, `looks_fragmented` | `read`, `offset` = `global_offset`, `local` = `local_consumed`, `batch` |
| `StreamLexer_proof` | theorems about `StreamLexer` | - |
| `MC*` | values of the constants for TLC | - |

Recursive code is modelled with an explicit stack, one action for each stretch
of code between two points where it can branch. A history variable (marked
so) records what a property needs to look back at; no guard reads one.

`AttrPool` refines `NodeAttrs`: the lists are what the slices read
(`ImplementsNodeAttrs`). `OutputTree` keeps a node's attributes as the list that
`AttrPool` implements, and `Flatten` starts from any arena `OutputTree` can
leave behind: `IsTree` there is what `Init` assumes here. `Statement` composes the
operators of `Syntax`, `Validate`, `Patterns`, `FastSkip`, `Paths` and `StreamingEval`:
a document goes from its tokens to what its actions do, and the statements that
`Runner` takes as matching somewhere are matched there. `Runner` and
`StreamingRunner` keep the depth of the cursor stack, whose contents are
`OutputTree`'s. `Inherit` yields the statement lists they run.

## 3. Runs

| run | question | instance |
|---|---|---|
| `attr_pool` | do two nodes ever share a slot; does every node see its own list | three nodes, all orders of creation and push |
| `output_tree` | are index, children and open scopes consistent after any operations | paths of one and two segments, index from two children on, four nodes |
| `output_tree_reuse` | does `out.add` reuse a child as documented (no) | as above |
| `flatten` | is the flat tree the tree, grouped | every arena of five nodes, two names |
| `runner` | call stack, scopes, accounting, triggers, termination | three families of documents, inputs of up to two tokens |
| `runner_fail_stops` | does `do.fail` end execution as documented (no) | one document |
| `inherit` | is the statement list right on every document | every parent function of four grammars |
| `inherit_precedence` | do the child's statements win as documented (no) | as above |
| `statement` | are documents read as written; does a clean document find what it refers to; do byte scans, combined expressions and both engines agree; can the characters of a capture divide a path | pairs of six statements in eight layouts; pairs of six definitions in twelve documents; lists of one to three of nine expressions on every text of up to three or four characters; eight forms of arguments with every capture of up to three of twelve characters; calls between a match and the use of its captures; 27 kinds of skips on every UTF-8 text of up to three bytes of eleven classes, or four of five |
| `streaming` | totals, scopes, stalls between calls; independence of the cut | all cuts and call orders of small inputs |
| `streaming_when` | does `step` always return (no) | one `when` statement |
| `stream_lexer` | tokens in order, once, independent of the cut; does it end | every text of up to four characters and longer ones with literals |

Why the bounds are enough. The pool has two cases for a push, at the tail and
elsewhere; three nodes give every pair of neighbours and a third to push them
apart. The index threshold, 8 in the code, is a constant, 2 in the run: the
node passes it upwards (push) and downwards (replace) within four nodes.
Flattening mixes depth, width, names and detached nodes with five nodes. Two
grammar calls below the top are what `do.return` with levels and the settling of
owed leaves can tell apart, and two tokens give each call the choice of
consuming. Four grammars give inheritance cycles of every length with and
without a tail. Three bytes, or four with the two kinds of line endings, cover
every pattern of the fast path with one character before and after its line ending,
and a character of two or three bytes first, last or alone.
The window of expressions, 1000 bytes in the code, is a constant, 3 in the run, and
texts are up to four characters long. Statements come in pairs because a block can
only swallow what follows it; definitions in pairs give chains, circles and dangling
names. In three characters a capture can open and close a quote around a slash, or
be a whole percent code. `Symbol`, what texts consist of, is every string in the run
and any set with the digits and the marks of the syntax in the proofs. Chunks of the streaming runs cut
small inputs everywhere. What is bounded only for TLC (`MaxNodes`, `MaxDepth`,
`MaxAttrs`, `MaxFrames`, `MaxCalls`, `MaxQueue`, `MaxLen`) is a constant named as a bound.

Fairness. Each engine is one thread that runs until it returns: weak fairness
of its next step and no more. In `StreamingRunner` it covers only the engine:
nothing is assumed of the caller, who may never call again. The caller of
`StreamLexer` asks until it gets no batch, as the loop over batches does.

Deadlock is not checked: each run models a computation that returns, after which
nothing happens, or a bound that stops it.

## 4. Proofs
TLAPS proves the following for every value of the constants: any set of nodes,
attributes, names, grammars, tokens and documents, any number of each. Constants are
assumed to have their types (`...Assumption`); what is assumed beyond that is in the
last column. The theorems rest on inductive invariants, proved with one lemma per
action, and TLC checked each of them before it was proved; `FastEqualsRegex`, which
is about operators only, rests on lemmas about these.

| module | theorem | says | assumes |
|---|---|---|---|
| `AttrPool_proof` | `PoolTypeOK`, `PoolRangesInPool`, `PoolRangesDisjoint` | the range of a node lies in the pool, and no two nodes share a slot | - |
| | `PoolImplementsNodeAttrs` | relocation is invisible: the pool implements private lists | |
| `OutputTree_proof` | `TreeThroughout`, `IndexedWhenWide` | the arena stays a tree, and a node has an index exactly from the threshold on | `Threshold` is positive |
| | `IndexStaysSound`, `LookupStaysExact` | the index never points at a wrong child, and answers as the scan does where `add_attribute` changed none | |
| | `ScopesStayAttached` | no operation detaches an open scope | |
| `Flatten_proof` | `FlattenTypeOK`, `FlattenChildrenKept` | compaction permutes the children of every node | `Size` is positive |
| | `FlattenGroupsContiguous` | in the flat tree children of one name stand together and in order, and so do the groups | |
| | `FlattenRangesExact`, `FlattenNothingLost` | the recorded ranges are where the children arrive, and exactly the reachable nodes are moved | |
| `Inherit_proof` | `InheritTypeOK`, `InheritCollectsChain`, `InheritAncestorsFirst` | the list is the chain, each grammar once, a grammar right after its parent | "no parent" is no grammar |
| `Runner_proof` | `SpecCallStack` | every caller waits at the call it made, and positions only grow from caller to callee | `MaxFrames` is positive |
| | `SpecScopesClosed`, `SpecScopesKept` | no block leaves a scope open, nor closes one it did not open | |
| | `SpecConsumedIsPosition` | the total is never more than the position, and equal to it for accountable grammars | |
| | `SpecFailAtTopIsFinal` | after a `do.fail` of the grammar that is run nothing runs | |
| | `SpecSingleShotExact` | firing removes exactly the triggers that hit, however `swap_remove` moves the others | |
| `StreamingRunner_proof` | `SpecConsumedIsPosition`, `SpecScopesClosed` | totals and scopes are right between calls, however the input is cut | - |
| | `SpecStalledIsStuck` | a stalled engine has nothing it could do | |
| | `SpecChunkingInvisible` | with one-token statements whose blocks neither consume nor end the run, the statements taken are those of one pass over the whole input | |
| `StreamLexer_proof` | `SpecInOrder` | tokens come in the order of the text, with one EOF at its end | chunks and batches are not empty |
| | `SpecCutInv`, `SpecCutsInvisible` | cuts between tokens and inside literals cannot be seen | |
| `Statement_proof` | `FastEqualsRegex` | on every UTF-8 text that is ordinary for its kind, a fast path consumes the bytes of what the regular expression matches | - |
| | `FastPathIsRegex` | the same wherever a skip is tried and what is left can be read | |
| | `DocumentsAreRead` | a document laid out well is parsed to itself, whatever it consists of | |
| | `TypeCorrect` | what is compiled, due and done comes from the document in hand | |
| | `CleanDocumentsRun` | a clean document whose definitions lead somewhere finds every name and expression | |
| | `EvaluatorsDoTheSame` | what a list matches one by one it matches at once, with the same captures | |
| | `EnginesDoTheSame` | the streaming engine matches nothing else and misses only references back; on matches with the same plain captures, the calls of both engines write the same if the names are the same or are not used | |

*Pool.* `RangesDisjoint` is inductive with the types and `RangesInPool`: a push
at the tail extends the one range that can end there, and a push elsewhere moves
the range behind all others. The refinement needs the same three facts: a write
behind the pool changes no other node's slice.

*Tree.* `IInv` adds to the run's invariants that the node a path operation stands on
lies under the cursor (`Inside`). All that happens to the arena is one of three
changes, each with a lemma of its own: a node is added (`AddTree`, `AddIndexed`),
children are dropped and the index rebuilt (`RebuildGood`), labels change
(`RelabelGood`). Scopes stay attached because `replace` only drops edges below the
node it stands on: paths to open scopes, all above it, use none of them (`UnderKept`).
What `replace` keeps is proved to be in order by induction on positions (`NthRises`).

*Flattening.* That ranges are exact is not inductive: the children of a node arrive
where its range says only because nothing else was queued in between and nothing is
queued twice. `IInv` adds where the queued children are (`Ranges`), that the queue is
without repetition (`Once`), because all but the root are children of nodes already
moved (`Come`), and that what is queued is reachable (`Least`). While a node is
compacted, `Held` says which of its children are in the new list and the groups,
`Apart` that none is there twice, and `NamesApart` that the groups have different
names: without it a child could join two groups.

*Inheritance.* The calls that wait and the list collected are one chain, cut in two
(`Links`, `Junction`, `AncestorsFirst`), without repetition (`Distinct`). What was
visited is exactly the chain (`Split`); it lies in every closed set around the start
(`Least`) and is closed itself but for the parent still to be entered (`ClosedUp`).
A parent that was visited ends the chain, which is why cycles need no extra case.

That the groups are contiguous needs two more invariants. `SortInv`: while a node is
compacted, the new list and the groups are in order, each group starts with the oldest
child of its name, and the list comes before the groups; `Held` and `NamesApart` make
that enough when the groups are pushed. `TidyInv`: the calls form a path of the tree
(`Path`), every child a call has passed is compact, and so, when the recursion is back
at the root, is every node the queue will meet. `Compact` is stated without
recursion: some set holds the node, is closed under children and has all its lists
grouped.

*Batch engine.* `IInv` describes each frame alone (`FrameOK`) and each caller with
its callee (`Waits`). A frame in a block belongs to a statement that has one, and
after an `out.open` it owes a leave: this, not in any property, is what `do.next` and
`do.return` need when they end the block early. The cursor is no deeper than what
the frames owe together, and exactly as deep if no block leaves by itself; both
scope theorems follow. The total is right because the main grammar counts a
statement when it is over: `AccInv` compares `consumed` with the position up to
which frame 1 has counted. For `do.fail`, `FailInv` says that what remains of the
block is nothing and its return goes all the way. That firing is exact is shown
removal by removal, from the last hit down: every entry that does not hit is still
there once, at its own place or where a `swap_remove` of a hit above it moved it
(`Keeps`). Removing from the first hit up would not keep this, as the last entry,
which fills the gap, may itself be a hit.

*Streaming engine.* Between actions the total is the position because every
consumption is reported where it happens; scopes are closed because only a running
block owes leaves. `StalledIsStuck` needs what the scan has left behind (`ScanInv`): each
statement before the current one was idle at this very position. For the cut,
`LogInv` says that the statements taken, followed by what one pass would take from
here on, is what one pass takes from the start; a one-token statement that matches
in the buffer matches in the whole input and conversely (`TakesFirst`).

*Chunked lexer.* `CutInv` says the same of tokens: those returned and those in the
batch, followed by the tokens of the text from the current position on, are the
tokens of the text, and the current position is where one of them starts. A token
that a clean chunk ends is the token the text has there (`CleanToken`). The tokens of
the text are a recursive function of the position; that it exists is proved from the
library's well-founded recursion (`Unfolds`).

*Fast paths.* A scan is known by where it stops: every byte before is in the
set, the next is not (`FirstIs`, `RunEndIs`). The sets the scans use hold the bytes of
a multi-byte character all or none, so where such a scan stops is between characters
(`Bounds`). The same position bounds what the
parts of the expression match (`StarIs`, `ThenAfter`), for any length of text. For
repeated line endings both sides are recursive. No induction over them is needed:
every end the expression reaches leads to the same last line ending, and the longest
end cannot be continued (`EolPlusIs`).

*From a document to its matches.* `IInv` of `StatementTerms` has four parts.
`DocumentOK`: the document in hand is one the rules of the parser can return, and
`compiled` is compiled from it. `ProgressOK`: what is due and what a call left behind
are calls of this document, each with a match of the type the evaluators return.
`EffectOK`: the effect on record is that of such a call. `CleanOK`: a clean document has
not overflowed; it is inductive only with the others, as an overflow comes from an
expression of `compiled` or an argument that is due. That a clean list has no variable
left needs what `Resolve` returns: the chain of definitions is a function of the names
seen, so it does not matter from which variable it is entered (`ResolveUnfolds`).

Parser, compiler and evaluators are recursive functions over tokens, texts and lists.
No induction over data is used for them: a recursive function is what its unfolding
says at every argument (`Unfolds`, from the library's well-founded recursion), and a
property that holds at the first argument and passes from each to the next holds at
all (`Ascent`). The loops of the parser are one lemma, `LoopIs`: a loop that advances
with every turn returns a list.

`EvaluatorsDoTheSame` is about greed. The combined expression takes the best of all
divisions of the text (`Best`), the list one best division after the other. A division of
a concatenation is a division of its first part followed by one of the rest (`Catted`),
compared item by item (`BeforeCat`), so the best followed by the best is the best
(`ThenBest`). The window moves with every expression of a list and not at all with
the combined one, but what the parts see of the text is the same as long as the whole
match lies in the first window (`Aligned`), which the definition of `SameMatch` asks.
The captures agree group by group, as each part has a group of its own around its
own groups (`PartMatched`, `ListMatched`). `EnginesDoTheSame` compares the two loops
expression by expression; a variable met late is the expression it was replaced by.
The calls are then compared argument by argument, each engine filling in its own
match (`SameArgument`, `SameWrites`): names can differ, as the combined expression has
none, but a text without references by name is filled in the same (`FillSame`).
`FastPathIsRegex` needs that what remains is UTF-8 where it can be read
(`RestReadable`): the input is, and the position is not inside a character.

`DocumentsAreRead` goes along the structure of a document. The tokens of a construct
sit at a position of the text (`Sits`), and the rule for it, started there, ends right
behind them with the construct: for pieces of a line, a line of calls, a block
(`BlockRead`), a statement (`StatementRead`), a grammar (`GrammarRead`) and the document
(`DocumentRead`). Sequences are chains: the tokens of a list are cut where its elements
begin (`SitsFlat`), and each turn of a loop reads one element from one cut to the next
(`Chain`). What is not local is where a block ends. `ClosedByNext` shows that no statement
behind a block is taken for a call of it: its indentation is smaller, or it is not a
call, which is what `WellLaid` asks of a call that follows a block on one line. The
maps of a document are read as lists of insertions; as every name occurs once, the
last insertion of a name is the only one (`MapRead`).

What stays with TLC, and why:

* termination (`Terminates` of `Flatten` and `Runner`, `ProgressiveReturns`, `Finishes`,
  and that of `Inherit`): liveness is out of the prover's reach;
* `CapturesSurvive`: it compares texts before and after coding, and holds only for
  arguments whose literal text has no percent code, as those of the run. It says
  where a captured `.` or an empty capture changes the target: section 5;
* the four runs of the next section, which are counterexamples.

## 5. What the checks found

Four runs end in a counterexample to what the documentation says; `PROJECT.json`
has the lines.

* `output_tree_reuse`: `out.add_attribute` changes the attributes of a child but
  not its parent's index, so from eight children on `out.add` no longer finds it
  and makes a second one.
* `runner_fail_stops`: a `do.fail` in a called grammar does not stop the caller and
  its error is lost.
* `inherit_precedence`: inherited statements come first and therefore win.
* `streaming_when`: a `when` block that does not consume is run for ever by `step`.

Seen while modelling, and kept in the models as the code has them, without a run
of their own: `consumed` leaves out what grammars called from a `when` block
consume; `out.clear_queue` keeps `on_leave` and persistent triggers; `do.next`
restarts the loop instead of going on with the next statement; in the streaming
engine `do.fail` stops nothing (`ChunkingInvisible`, which compares with the batch
engine, excludes it) and a finished grammar runs again at the next
`step`; the chunked lexer drops indentation and does not wait for an identifier
or a comment that a chunk cuts; the fast path differs from the expressions on a
vertical tab, on Unicode classes, on a lone CR and for `.` on a newline. `.` and
`[^\r\n]` take one byte of a multi-byte character (`mod.rs:741`, `mod.rs:609`), after
which the next slice of the input panics (`mod.rs:166`; `ReadInside` here): on all
these texts the comment at `mod.rs:457`, which calls the fast path "semantically
complete", does not hold. `FastIsRegex` excludes such texts (`Ordinary`).

Of the way from a document to an action:

* A line of white space only, or a comment with more indentation before it than
  text, leaves an indentation token that no rule takes: the document is refused.
  A call that follows a block whose only action stands behind the colon becomes part
  of that block. `ParsesAsWritten` excludes these layouts (`WellLaidOut`).
* Definitions that form a circle are left "for the runtime fallback" (`ast.rs:374`),
  which recurses without end; the validator does not look at definitions.
  `CleanRuns` assumes there are none (`Leads`).
* Named captures are lost when a list compiles to one expression, and a name used
  twice keeps it from compiling; one by one the expressions do not backtrack into
  each other. `EvaluatorsAgree` therefore says that what matches one by one matches
  at once, with the same captures by number, and not the converse.
* The streaming engine does not encode captures and interpolates them again, has no
  `\$`, ignores an empty capture and compares captures by case, and, matching one by
  one always, has the group names that the combined expression of the batch engine
  drops (`streaming.rs:520-523`, `mod.rs:799`): `out.add('$0', $n)` after
  `/(?P<n>a*)b?/` writes the text of the group in one engine and none in the other.
  `EnginesAgree` runs the calls of a block in each engine on that engine's own match,
  and holds for captures that need no encoding (`PlainArgs`) and, where the names
  differ, for calls that use none (`ByNumber`). It compares the calls of one block
  after its own match: the streaming engine runs a called grammar by `do.run` only, in
  a batch engine and a tree of its own (`streaming.rs:731`), and what an action that
  stands alone finds from an earlier match is not compared. A reference back may be
  missed, whether it stands in the list or is what a variable of the list stands for,
  and `\$` counts in defined arguments as in written ones: the proof needed both, which
  no document of the run had shown.
* Text in an action that stands alone, or after a call that consumed nothing, is
  filled in from whatever matched last; arguments that are captures are not.
* `.` is not encoded (`out.rs:356-365`): a capture that is `.` and all of a path is the
  cursor's own node in `out.create`, `out.add`, `out.replace` and `out.add_attribute`,
  and the node before it where it is a segment, as a `.` that is written; an empty
  capture leaves its segment out. `CapturesSurvive` says so (`MeansCursor`, `FilledIn`).
* An attribute's value is trimmed, then decoded, and values of `add_attribute` are
  not decoded at all. `out.create` and `out.add` panic on an empty path.

## 6. Not modelled, and the plan

Left out for good: serializers, command line, the conversions of the bridge,
`exec/arena.rs` (layout, I/O, or unused), hash collisions of the child index, numbers
of 2^32 and more, and regular expressions beyond sequences of repeated character
sets: alternatives, look-around and Unicode tables belong to the `regex` crate.

Next, in this order:

1. `Engine`: `Runner` composed with `OutputTree`, so that `open` and `enter` with
   paths and triggers' `add_path` act on the real tree, and with the matches of
   `Statement` in place of its `MatchLen`.
2. Left recursion of grammar calls, which only exhausts the stack; `out.open` without
   an argument, which opens and owes nothing (`mod.rs:1218-1225`) and is no action of
   `Runner`.
3. Bytes of multi-byte characters at the ends of chunks (`ChunkReader`, `fill`) and
   of the window (`mod.rs:781`): `FastSkip` has bytes, `Patterns` and the streaming
   modules one symbol for a character.
4. The lexer of whole texts, character by character, and what the chunked lexer
   drops in comparison.
5. The order of triggers in both engines.
6. Proofs, of `Statement`: `CapturesSurvive` with the percent codes of the literal
   text.
