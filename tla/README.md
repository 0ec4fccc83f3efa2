# A verification project for markdown-core

TLA+ models of the stateful core of markdown-core, a C engine that parses
Markdown as it streams in, keeps the parsed document up to date through edits,
and serves it to editors over the language server protocol. The models are
checked by TLC on small instances, and the central ones are proved correct by
TLAPS for every value of their parameters.

Paths below are under `src/packages/markdown-core/` unless they begin with
`docs/`. `PROJECT.json` lists the lines of code each definition models; a helper
whose lines lie within those of the function it serves stands under that one.

## 1. The system

The engine runs on one thread per parse and calls nothing back: a call returns
when it is done. Parses are independent of each other and share no storage. What
is hard about it is therefore not threads but *history*. A session lives through
thousands of edits, each of which reads a small part of the text again and keeps
the rest of a document, an index and several logs that earlier calls made; any
allocation may be refused on the way, and the session must still be either right
or gone. The language server adds a client that writes ahead of its answers.

### Inventory

| component | state it keeps | operations | depends on | what makes it correct |
|---|---|---|---|---|
| growing arrays (`core/array.h`, `core/ahead.{h,c}`) | one storage, a storage ahead of twice its size, how many copies in it hold | push, append, reserve, write, replace, truncate, lend and take, shrink, free | the allocator | holds what a sequence would; no copy is stale at the switch; no write past the storage; no growth copies the whole |
| zippers (`core/zipper.h`) | a front measured from the text's start, a back measured from its end | move, cut, search, erase, insert | growing arrays | both parts stay in order across moves and edits |
| node storage (`core/slab.{h,c}`, `core/node.c`) | slabs with hold counts, released lists by class | take, give back, grow an array, swap, dispose | the allocator | nothing dangles, leaks, overlaps or is shared, in any order of disposal and release |
| roster of labels (`core/roster.{h,c}`) | a log of declarations, an index made late, a zipper by kind | declare, withdraw, find, mark, rollback, reopen, splice, compact, made and lost | zippers, the key index | a lookup finds the earliest declaration that stands; an edit names exactly the labels it altered |
| block parse (`core/blocks.c`, `core/parser.h`) | the open blocks, the input's lines, the reach, the marks, the old tail of an edit | commit, snapshot, flush, reopen, splice, candidates, lookahead | all of the above, the elements | reading in parts gives what reading at once gives |
| elements (`elements/*.c`) | little of their own: footnotes, headings, citations keep tables | open, continue, close, complete | the block and inline parse | a block reads no line but those its reach says |
| inline parse (`core/inlines.c`, `elements/link.c`, …) | delimiter and bracket stacks per root, memos of failed searches, the settled nodes of an open paragraph | push, match, close, settle, complete | roster lookups | a paragraph read in parts is the paragraph read whole; a memo changes no answer |
| heading anchors (`elements/heading.c`) | committed names, a snapshot's names over them, stems by base | commit, show, take back, flush, edit | roster anchors | every heading has the name one pass over the text gives it |
| publishing (`elements/ast.c`) | records of the last publish, extents, identities, source runs | publish, reopen, splice | node storage | each node is where it reads, and keeps its identity |
| session (`elements/session.c`) | the text, the committed parse, the document, widths, nests, peak, context | new, append, flush, edit, locate, line, close | block parse, publishing | the document is that of the text; the context is of the document |
| context (`elements/context.c`, `core/sink.c`) | what a cursor is in | report, finish | session | is of the text before the cursor |
| LSP store (`lsp/server.c`) | phase, an open-addressed table of documents | initialize, shutdown, open, update, close, complete | session | every record is found; a failed call changes nothing or closes its document |
| LSP adapter (`lsp/adapter.c`, `lsp/main.c`) | the exit code, the message in hand | read, handle, answer | LSP store, JSON, framing | each request is answered once and in order; what is served is what the client has |
| JSON, framing, text (`lsp/json.c`, `frame.c`, `text.c`) | none between messages | read, write, locate | – | decode inverts encode |
| wire format (`wire/`) | none | encode | publishing | decode inverts encode |
| dialect (`core/dialect.c`) | tables made once | resolve | elements | – |
| scanners (`elements/*_scanners.c`) | none, generated | scan | – | – |
| bindings (es, kotlin, swift) | handles of sessions and servers | the session's and server's | the C interface | no handle is used after it was closed |

### How they interact

A session owns a text and one parse that has committed it. `append` commits more
text and publishes a snapshot; `flush` ends the parse and publishes the document.

A **commit** reads the lines the text has finished, and holds the next: it stops
inside it before the first step that more bytes can change. A call whose answer
depends on text that has not come asks to be a **candidate**: the commit declines
it, marks its state there and reads on, and when a later line decides it, either
drops the mark or puts itself back at it. A **snapshot** reads what is left on
blocks it *lends*, ends the open ones, completes inlines, names headings,
publishes, and rolls the parse back; the next call takes back what was lent. An
open paragraph's inlines are read again by every snapshot; what no later byte can
change *settles* and is kept.

From the flush on `edit` works on the flushed parse: `session_rest` finds a *rest
point*, the start of a line before the edit at which the parse stood with nothing
undecided; `markdown_core_parser_reopen` puts the parse back there, hiding the
old tail; the line loop reads the new text; where it stands again as the old
parse stood, `S_splice` takes the old tail back; and `S_finish_parse` publishes.
The children that were kept may hold links to labels the edit made declared or
left undeclared: the roster says which labels, the uses index which children, and
`session_refresh` reads those again, as edits of nothing. Rest points are found
from the *reach*, a log of which bytes each reading read past its own block, and
from the *widths* of the children; both are mended by each edit, for the next.

Every **publish** works in place: each node gets its extent, measured from the
node before it, and its id, which is that of the old node it continues.

The language server holds one session for each open document in its store; the
adapter turns each message into at most one call of the store and one answer.

### What is hard here

Every hazard found is listed in `PROJECT.json`, each at its line and with the
properties that would catch it. In short:

* **State used after it changed.** Copies ahead of an array whose element was
  rewritten; an index that lags its log; a context, a set of widths or a line
  table of the document before the edit; children kept whose reading depended on
  the line that changed; a step of the held line taken on bytes that were not all
  there; inlines kept as settled that a later byte completes.
* **Long sequences of legal calls.** The reach, the roster's places, the widths,
  the stems of names and the records of a publish are each put together from what
  many calls left. An error appears calls later.
* **Things borrowed and given back.** A block lent to a mark, then to a snapshot,
  then changed in kind, comes back on an accept, a reject or a parse let go.
* **One step of several failing.** An edit allocates in a dozen places, and what
  each leaves is different.
* **Numbers at an edge.** Offsets measured from an end that moves by a signed
  amount; a table at its load limit whose runs wrap; power-of-two arrays.
* **Order of release.** Nodes outlive the pool they were cut from.
* **Requests that cross.** A client's changes and its own state run ahead of what
  the server has read, has refused or could not allocate for.

## 2. The modules

| module | models | kind |
|---|---|---|
| `PlainArray` | what a growing array promises | abstract |
| `GrowingArray` | `core/array.h`, `core/ahead.{h,c}` | detailed, refines `PlainArray` |
| `NodePool` | `core/slab.{h,c}`, the pool of `core/node.c` | detailed |
| `Session` | the control of `elements/session.c`, with every failure | detailed |
| `Labels` | what the roster promises, a bag of declarations | abstract |
| `Roster` | `core/roster.{h,c}`, `core/zipper.h` | detailed |
| `RosterLabels` | the two in step | composition |
| `Reread` | an edit's reading at the root: rest point, reopen, line loop, splice, flush, refresh | detailed, against a parse of the whole text |
| `BlockLines` | one line: the cursor and what each block element recognises in it | operators |
| `BlockTree` | the blocks: opening, closing, settling, definitions cut off a paragraph, tables, lending and take-back | operators |
| `Candidates` | the lines of the text, how a line goes on in the open blocks, the lookahead; the candidates' marks: made, met, accepted, seen, dropped; `elements/definition_list.c` and the feed that decides candidates | operators |
| `LineMachine` | the line machine: match, open, add text, hold | operators |
| `Stream` | the driver, the commit, the snapshot and the last commit, over any arrival of a text | detailed, against the text read at once |
| `Bytes`, `Scanners` | byte classes; the regular expressions of `elements/*_scanners.re` | operators |
| `Delimiters`, `Brackets`, `Opaque` | the delimiter stack; attribute containers and the bracket stack; the tokens with bodies of their own | operators |
| `InlineRun` | one inline run over a block's content, and its completion | operators |
| `Settling` | an open paragraph read again as it grows: the settle point | detailed, against the content read at once |
| `HeadingNames` | the anchors of headings while a parse streams; once edits come | operators |
| `HeadingAnchors` | a text's headings through snapshots, candidates, flush and edits | detailed, against one pass over the text |
| `PublishWalk` | `markdown_core_publish_tree`: extents and ids in place | operators |
| `Lending` | the tree between publishes: lends, marks; reopen, splice, nested and at the root | operators |
| `Publishing` | a document from publish to publish | detailed, against the rule for ids over whole documents |
| `LspStore` | what `markdown_core_lsp.h` promises | abstract |
| `LspServer` | `lsp/server.c` | detailed, refines `LspStore` |
| `LspAdapter` | `lsp/adapter.c`, `lsp/main.c`, with a client, over `LspStore` | composition |
| `Groundwork` | induction over the naturals and runs of a step, as facts about sets; powers of two, sequences, tallies | lemmas |
| `*Proof` | theorems about `GrowingArray`, `Session`, `NodePool`, `Roster` and `RosterLabels`, `LspServer`, `LspAdapter`, `Reread` | proofs |
| `MC*` | constants for TLC | instances |

The chain of the block parse is `BlockLines` <- `BlockTree` <- `Candidates` <-
`LineMachine` <- `Stream`, each extending the one before; that of the inline parse is `Bytes` <- `Scanners`, `Delimiters` <-
`Brackets`, `Opaque` <- `InlineRun` <- `Settling`; that of the publishing is
`PublishWalk` <- `Lending` <- `Publishing`. The models of the parse
are functional where the code is: one call of the engine is one step, and an
operator that models a function with a state takes the state and answers the next.

### GrowingArray

Storage is modelled by what is live in it: `values` is what the array holds, then
what a reader that borrowed its storage wrote past the count; `next` is what was
copied to the storage ahead and `moved` how many of those copies hold. Each
operation of `array.h` is an action that makes every outcome of
`markdown_core_ahead_extend` possible, a refused allocation included. `Limit`
stands for `SIZE_MAX / 2 / width`. `disturbed` is a history variable: it tells the
pace property which growths were by pushes alone.

### NodePool

A storage is its slab, its offset and its class. Class 0 is a node's slot and
class *c* is `16c` bytes with a header. A released list is a set, so any of its
storages may be handed out next: the code's order is one of those. A node owns
its slot, its record and its array of items. Disposing the pool drops the pool's
hold and what it has released; nodes in use keep their slabs. Left out: the pool
of resources, which is the same mechanism over slabs of its own; views; the
storage of source runs.

### Session

A document is represented by the text it is the parse of, and by whether it is a
snapshot or final; `Torn` is a tree that is the parse of no text. That keeps all
of `session.c`'s control (each early return, each thing set or forgotten before
it) and leaves to `Reread` the question whether an edit's reading makes the right
document. `lined` is the text the parse's line table is of, `measured` the
document the widths are of. Each edit succeeds, is refused, runs out of storage
before its text is replaced, or after.

What the session itself computes of a document is modelled too: the root's children
and THE WIDTHS they are found by. A byte stands for a line; a line of `Opens` starts
a child, which goes on up to the next, and there is one label, which `Defs` declare
and `Uses` name. `room` is the storage of the chunks and of their sums, which only
grows, so a mend is refused (`Refused`) only when it needs more than there is.
`widths_before`, `widths_start`, `widths_end` and `widths_child` read the chunks of
one text and the children of another, as the code does of widths that were not
mended; the Fenwick tree of the sums is the prefix sums it computes. `Again` is the
children `session_refresh` reads again: those an edit that altered the label kept,
before its rest point and from where it took the old children back. `Readings` finds
the rest point of each by the widths as they then are. The first reading of an edit,
which finds its own by widths that were just made, is right or fails, as are the rest
points below the root and the readings that share one; those are `Reread`'s. Two things this model makes visible and
no property forbids: after a failed append the session's document names the tree
taken back from the publish, and after a failed edit its line table may be that
of another text, though `include/markdown_core.h` describes `markdown_core_session_lines`
and `markdown_core_session_line` for any flushed session.

### Roster, Labels and RosterLabels

A record is its position in the log, 0 being NULL. The index is a list per key
with the hint the code walks from; the places of a kind are a zipper, the back
measured from the text's end. `RosterLabels` makes each call of the roster and of
a plain bag of declarations, and compares what the two answer. Left out: the
blocks that records are carved from, and refused allocations, which fail the
whole parse (the compaction's, which is ignored, is in). Equal starts are ordered
by position in the log, where the code orders them by address in one pass over
that log. The engine withdraws declarations only at its first flush; the model
withdraws under marks too, as `roster.h` allows.

### Reread

The text is a sequence of lines of one width, each of one of eight kinds: blank,
text, a line that uses a label, a link definition, a code fence, a comment fence,
a block quote line, an identifier line. They are chosen by dependency and not by
looks: a fence makes later lines its own; a comment fence is one only if a later
line closes it, so its reading looks any distance ahead; an identifier line names
the block quote before it if a blank line or the end of the text follows; a
definition turns a paragraph's first lines into other children; a use depends on
a definition anywhere. `Fresh(text)` reads a text from its start with the same
line machine, and the properties compare an edited document with it.

`Edit` finds the rest point, replaces the lines and reopens; `ReadLine`, `Pass`
and `Splice` are the line loop; `Flush` publishes what was read and mends the lead
of the first child taken back; `Refresh` is one reading of `session_refresh`. The
first state is any text after its first flush. Left out: nested rest points (a
quote here holds one paragraph, so `session_rest_in` finds none), the document's
properties at its head, candidates (there are none in an edit's reading, whose
text is final), and failed allocations, which are `Session`'s. Whether an edit
compacts depends on a peak that is a history of sizes; the model lets it choose
wherever some history allows it. The uses index is read as what it promises;
`AlteredIsExact` of the roster covers which labels it is asked for.

### Stream and the block parse

A text is a sequence of ASCII characters, each one byte. `Ask` is one call of a
session: more text is committed (`grow`), the document so far is shown (`show`), or
the text ends (`finish`); after the last nothing more comes. `st` is the parser's
state: the heap of blocks `n`, where the reading stands (the fields of
`markdown_core_parser_at`), the lines scanned, the line held with where the line
machine stopped in it, what was lent, and the candidates' marks. `whole` is the
document of the text read at once by an empty parse, and `shown` what the last
call showed.

A line is matched against the open blocks (`check_open_blocks`), opens blocks
(`open_new_blocks`, a turn for each) and leaves its text
(`add_text_to_container`). On the held line each step first asks whether the
bytes decide it (`S_continue_decided`, `S_start_decided`). Definition lists are the
elements whose calls ask to be candidates: a term depends on the next lines, and
so does a body's blank line. An opener that reads the end of a text that may go on
records it in `seen`, asks for a candidate and declines; `S_candidate_make` marks
the parse; `S_feed` gives the candidates each line first; an accept is
`S_candidate_undo`, a reject `S_candidate_drop`, and a snapshot that sees a
candidate's construct end reads on from its mark (`S_candidate_see`) without
deciding it.

The elements in: paragraphs, lists and tasks, callouts with titles, thematic
breaks, fenced and indented code, ATX and Setext headings, reference definitions,
HTML blocks, directives, formulas, footnotes, specimens, pipe tables with their
completed cells, definition lists, all line endings and tabs. Left out of this
dialect: the document's properties, comment blocks, block identifiers and captions,
attributes, the labels of directives, NUL bytes, and what blocks' inlines read
(that is `Settling`). Also abstracted: the facts a lookahead keeps of a line so that
a later one need not match it again, which change no answer, and refused
allocations, which fail the parse.

The reading of a text at once was also compared with the compiled engine on
thousands of texts, with the same kinds, places and literals for every block; so
were the inline reads of `InlineRun`.

### Settling and the inline parse

`InlineRun` reads content token by token in the dialect's order of owners: text
and line breaks, the delimiter rules (emphasis, strong, strikethrough, mark,
insertion, sub- and superscript, formulas), brackets (links, images, spans,
notes, footnote calls), code spans, HTML, comments, autolinks, cross links,
topics, text directives and character references; then `process_delimiters` pairs
what is left, and completion splits addresses out of text. Citations are left
out. Nodes are records in a sequence; a node names its marker by the offset where
the run of bytes began.

`Settling` feeds one paragraph, and lets snapshots read it, a commit take it less
its last lines (the rest a candidate's), a candidate put it back, later
definitions come, and the finalize complete it anew where a lookup that found
nothing finds one. The walk of an attribute container keeps its memo, and the run's
other memos (failed searches for closers, the index of backquote runs) are kept as
the code keeps them.

### HeadingAnchors

A name is the sequence of its numeric suffixes over one root, so `<<1>>` is `a-1`
and `<<1, 1>>` is `a-1-1`: that is all the naming tells apart. An item of the text is
a heading with its base, a block with an explicit anchor, or a heading that has
one. Names are committed, shown over by a snapshot, taken back with a candidate
or completed anew with a root; after the flush edits take items away and bring
others, and name again only the groups of the stems they touched. `RuleName` is
the rule of `docs/specs/dialect/anchors.md`, over the whole text.

### Publishing

The text is so many lines, and a line is what it does to the stack of open blocks:
where it stops and what it opens there. Nodes have one relation, their children,
and their place is a range of lines. `Publish` walks the tree in place and `shown`
is the document read back from the extents it wrote; `wanted` is made from the
*whole* of the document before and the one after, by the rule of which old node a
new one continues, and not from the records. `Commit`, `Mark`, `Accept`, `Reject`,
`Snapshot`, `FailSnapshot` and `Flush` are the stream; `Reopen`, `Reread` and
`Finish` an edit, whose rest point is at the root or in a quote of the root. Bounds
that shape the model: the chain of reopened blocks has depth one; a line read again
by an edit may be any line, as what the new text says is free; whether a block's
reach spans a rest point is `Spans` and `Trailed` of its kind. Source runs, roots
completed by a later definition and the records of inline nodes below an emphasis
are left out.

### LspStore, LspServer and LspAdapter

`LspServer` has the table of `server.c`: linear probing, load at most 3/4, the
backward shift of a close that leaves no tombstone. Every function from URIs to
the hashes of the instance is an initial state. A session is the text it holds.
`LspStore` is the same calls over a function from URIs to documents. `LspAdapter`
uses `LspStore` as the engine, which `LspServer` is shown to implement, and adds
the client, the inbox, the process loop and the exit code. `Scarcity` says which
processes are checked: one whose own allocations may fail, and one whose do not;
`Most` is how many messages the client of each sends.

## 3. The runs

| run | what it asks | bounds, and why they are enough |
|---|---|---|
| `growing_array` | `InBounds`, `CopiesHold`: storage and copies are sound. `ImplementsPlainArray`: its owner sees a sequence. `PacedPush`: a push copies a few elements for its own place, and a switch moves less than two slices; none copies the array whole. | Slices of one place, first capacity 2, limit 6: capacities 2, 4 and 8 occur, so there is growth without a storage ahead, a switch, and growth the sizes refuse. Two values tell a stale copy from a good one. |
| `node_pool` | `HoldsCounted`, `NothingDangles`, `NothingLeaks`, `NothingOverlaps`, `NothingShared`, `ArraysFit` | Two nodes, two slabs of two slots each, two classes and arrays of up to five items: a slab fills, a second is taken, slots of both strides share a slab, an array outgrows a class and then every class. |
| `session` | `DocumentIsOfText`, `ContextIsCurrent`, `WidthsMeasure`, `HolesBounded`, `GoneStaysGone`, `TypeOK` | Texts of up to four lines: the compaction needs a text under half of an earlier one, which 4 to 1 and 3 to 0 give. An append or edit brings nothing, a use, or a definition of two lines, so a definition comes and goes before and after uses that are kept, and children differ in width. `Chunk` is 1 for `SESSION_CHUNK` 64 and `FirstRoom` 2 for the 8 that `markdown_core_reserve` begins with: a third child needs more chunks, a fourth more sums. Every call may fail at every allocation but one (see the findings). |
| `session_widths` | the finding of section 6 | as above, and the one allocation may fail too |
| `roster` | `DeclarationsStand`, `LookupsFindEarliest`, `AlteredIsExact` against the bag; `IndexSound` (the lists in order, the counts exact) and `PlacesSound` (the zippers in order, the back ending with the text) of the structure | Two labels of one kind and an anchor, a log of three, a text of two bytes, one mark. Three records are what it takes for a record between two others to go, and two kinds what it takes for one kind's cursor to lag the other's. |
| `reread` | `EditIsFresh`: the edited document is that of the text. `ReachIsFresh`: so is the reach the next edit rests by. `RestUnspanned`: no reading that is kept read past the rest point. | Every text of up to five lines over six alphabets (`Reread.cfg`) of three kinds each, every edit of up to two lines out and one in, from either side of a line ending, and every edit after it. Five lines hold an identifier line with a quote and a blank line before it and a blank line after it, and one line more to splice at; a lookahead that goes past the line after its own; and uses on both sides of a definition. `MaxPasses` is 2 for `SESSION_PASSES` 8, so that places do share a reading. |
| `stream` | `StreamIsWhole`: what is shown, and what the parse ends with, is the document of the text read at once. `LooseIsSpaced`: a list is loose exactly where the text has a blank line between its blocks. `BlockPlacesNest`: blocks lie within and after one another. | Seventeen families (`MCStream`), each every order of four or five pieces up to four to six of them, a snapshot or none after each. A family's pieces are the bytes one element's decisions turn on; a piece boundary is where the text may stop, so every prefix of a line that matters is held, shown and continued. Six pieces give a list of two items with a blank line between; five give a term, a blank line, a marker, and a line after it, and a table with a row after its delimiters. |
| `settling` | `ReadIsWhole`: each read of the paragraph is that of its content at once. `PlacesNest`. `MemosChangeNothing`: the memos of failed searches change no answer. | Thirteen families (`MCSettling`) of four to six pieces around one kind of construct, up to five to eight of them. |
| `heading_anchors` | `NamesByTheRule`: each heading shows the name the rule gives it. `NamesKept`: the committed names, and the stems, are right between readings. | Six families (`MCHeadingAnchors`), texts of up to four items with names that nest, collide with explicit anchors and pass from one base to another; tails of two items; two edits. |
| `publishing` | `PublishContinues`: the places are those of the text and the ids those the rule gives. `NothingLost`: a parse let go at any moment lets every node go once. | Nine families (`MCPublishing`): two committed lines under snapshots of a line, up to two marks, three publishes' worth of calls; and flushed texts of up to eight lines under one or two edits at the root or in a quote. |
| `lsp_server` | `EveryRecordReached`: every record is found and every probe ends. `ImplementsLspStore` | Four URIs in tables of four and eight slots: one more than four slots take, so the table widens; two hash values, whose homes make one run wrap around the end of each table. |
| `lsp_adapter` | `HeldWithStorage`: while the adapter can allocate, what is served is the client's. `RequestsAnsweredInOrder`, `HaltedHolds`, and the liveness `EveryRequestAnswered` | One document and five messages of any kind (four where the adapter's own storage may be refused): an open, a change, a request, a shutdown and an exit fit, in any order, with the engine failing at will. |

Deadlock is checked except where the system may really stop: a session that was
closed and a process that has ended.

**Fairness.** Only `lsp_adapter` assumes any: `WF(Handle)`. The loop of `main.c`
reads a message, handles it and writes the answer, and waits for nothing but the
next message, so a message in the inbox is handled. Nothing is assumed of the
client, and nothing of allocations succeeding: a process that could not write
its answer has ended, which the property allows.

**Mutants.** Each property of each run has a mutant, a definition changed as a
plausible slip would change it, under which the run reports that property
violated. They stand beside the definitions they change.

## 4. The proofs

TLAPS checks the theorems below for every value of the constants.

**GrowingArrayProof**, from `Slice` and `First` positive and `First <= 2 * Limit`.
The invariant is `TypeOK /\ InBounds /\ CopiesHold /\ CopyAsserts`: the first two
are not inductive alone, because a switch keeps within the storage only if what it
did not copy is what is left, and a copy is made only where the assertions of
`markdown_core_ahead_copy` hold. The argument turns on `GrowthKeeps`: whatever a
growth comes to (in place, a copy step, a switch, a move, a refusal), it leaves
the elements as they were, room for what was asked and copies that hold. Each
action then either takes such a growth (`BecomesKeeps`) or works in place and makes
void the copies of what it changes (`InPlaceKeeps`), and is a step or a stutter of
`PlainArray`. Theorems: `TypeCorrect`, `StorageSafe`, `CopiesAlwaysHold`,
`CopyAssertsHold`, `Refinement`.

`PushesAlwaysPaced` is the action property `PacedPush`, and needs more than the
state: how far the copies have come of an array that only pushes have grown. `Paced`
says it from where the last growth left the array (`PaceAt`): of the places pushed
since, each has had its share copied, so what is left when the storage is full is
less than two slices. The proof corrected the property. It used to say that a
switch moves at most a slice, which TLC confirms for slices of one place; for
slices of three and a first capacity of eight it is false, and an array of 24-byte
elements in the code, with slices of 85, moves 128 at capacity 16384. A switch still moves
a bounded part, which is what `core/ahead.h` is for.

**SessionProof**, from a natural `Capacity`, a positive `Chunk` and `FirstRoom`, and
inserts that are sequences of bytes. The safety properties are inductive together with
`StreamingUnmade`: before the flush there are no widths, so the flush and the appends,
which publish other documents, leave none behind. `DocumentIsOfText` is proved where the storage of
mended widths is not refused: with it refused it is false (section 6). It rests on
what the widths tell once they are of the text they are asked about: `WidthsTell`
(where each child starts and ends), `ChildFound` (the walk stops in the chunk of the
line asked for, at a child that starts at or before it) and `ReadingsFound` (so the
rest point of every reading again is a child's start), for every text and chunk size.
Theorems:
`TypeCorrect`, `ContextAlwaysCurrent`, `WidthsAlwaysMeasure`,
`HolesAlwaysBounded`, `LinesAlwaysOfDocument`, `DocumentAlwaysOfText`,
`GoneAlwaysGone`.

**NodePoolProof**, from every stride fitting in a slab beside its count. The
invariant is `Table(nodes) /\ Sound(heap, LiveIn(nodes))`. `Sound(h, L)` judges a
heap by the storages `L` in use, so that one lemma says what taking storage does,
one what giving it back does, and a node's operations, which are sequences of the
two, follow. Exact hold counts need the disjointness of what is released from what
is in use; freeing needs the counts exact; and cutting needs every storage of the
pool's slab below the cut. Theorems: `HoldsAlwaysCounted`, `NothingEverDangles`,
`NothingEverLeaks`, `NothingEverOverlaps`, `NothingEverShared`, and
`ArraysAlwaysFit`: a node's items fit in the storage its array has, with capacities
that are powers of two (counted as the sizes of sets of subsets, `TwoExp`) so that
the shrink to a smaller class never cuts an item off.

**RosterProof**, from `RosterAssumption`: the kinds are finitely many, each once in
their order, and each label has one. The invariant `IInv` is of the whole parse, and
each part of it is there because another cannot be kept without it:

* `Sound` is of the roster alone. `Indexed`: the index holds just the records up to the
  cursors that stand, in the order of lookups, each list's hint in it, and the counts
  are of those records. The walk from a hint finds what it looks for only in such a
  list (`WalkedIs`). `Paired`: a record withdrawn has the one withdrawal, after it and
  within the cursor, so a rollback that pops the withdrawal links again a record the
  index does not hold. `Placed`: each part of each kind's zipper is of the declarations
  that stand, in order, each where it starts. `Divided`: no declaration of a front starts
  past one of its back, without which a list moved to the other part would be out of order.
* `Settled` (no cursor beyond the log), `Counted` (the dead), `Within` (what stands is in
  the text), `MarksOK` and `EditOK`. A rollback needs that no record since its mark was
  moved or let go by an edit; a splice puts the back after the front only because what
  was read lies below what is taken back.

Each call is shown to keep `Sound` by itself, then the calls a parse makes to keep
`IInv`. The recursions (records linked one after another, records popped, kinds indexed,
places pruned and copied) are runs of a step in the sense of `Groundwork`, each with what
its states keep. Where only one prover finds a step, its `BY` names it. Theorems:
`Invariance`, `RosterIndexSound`, `RosterPlacesSound`.

From there the roster is shown to implement `Labels`. The bags are tallies
(`Tally`): how many records of a set say the same. `Bagged` is that the labels seen are
the tally of what stands and is not hidden, those hidden the tally of what is, and that
each mark saved the tally of the records before it that were not dead then (neither
gone, nor a withdrawal, nor withdrawn by one of them); a rollback gives that back because
of `Paired` and `MarksOK`. With `IInv` it is inductive (`BothInvariance`): a withdrawal
takes the declaration `Labels!Withdraw` takes because the list is in order, and a
compaction only gives the records other names. `RosterDeclarationsStand` follows. So does
`RosterLookups`: the first of a list is the earliest of what a lookup sees, as what is
hidden comes last. What an edit altered takes the labels it began with, which the roster
no longer holds.
`EditSeen` says how they can still be told: those of the records let go (`lost`), of the
back, and of what starts before the edit, and that a splice leaves front and back on
their sides of the place it took back. `RosterAlteredExact` is that the first and the last
of a label's list, and `lost`, then tell the altered ones from the others.

**LspServerProof**, from a first capacity that is a multiple of four and at least
four (8 in the code), hashes that are naturals and edits that make texts of texts.
Nothing is assumed of how URIs hash. The invariant is that the table is `Fit`: at
most three quarters of it are held, the count is exact, each URI is held once, and
from each record's home to its slot no slot is empty. A probe therefore ends, at
the URI's record or at an empty slot if there is none (`Probe`). The difficulty is
`vacate`: its loop moves later records back over the hole and the hole on. While
it runs, `Vacating` holds: a record is reached if the hole counts as held, every
record passed so far has its home after the hole, and the walk ends at the empty
slot `e` that the load leaves. Widening is the same kind of run, of inserts into an
empty table. Both loops are runs of a step, whose existence and invariant come
from `Groundwork`. Theorems: `TypeCorrect`, `RecordsAlwaysReached`, and
`Refinement`: each call is a step of `LspStore` over the documents the table
holds.

**LspAdapterProof**. `HeldWithStorage` relates what the client has been told to
what the store holds, across an inbox of messages not yet read, so the invariant
is about what the inbox *will* make of it: `Leads` says that reading every message
waiting takes the documents open as of those read to those the client has open,
and that none of them opens one that is open. Besides that a running process has
answered every request it read (`AnswersRead`), and that a store not initialized
holds none. Theorems `AnswersAlwaysInOrder`, `DocumentsAlwaysHeld` and the action property
`HaltedAlwaysHolds`.

**RereadProof**, from `RereadAssumption`. When an edit puts the parse back at a rest
point, `markdown_core_parser_reopen` asserts that no reading it keeps read past that
point. `session_rest_root` looks for such a point by walking back over the children:
from a child some kept reading spans it goes to the child where that reading began,
until none spans it (`Descent`, `RestRoot`). The rest point is then the line that
child is on, and that is the child's own start only if every child of the root starts
a line. This is the real invariant (`DocOK`, the theorem
`ChildrenAlwaysStartLines`), and it is the documents a splice put together that make
it hard: their children come from the reading and from the old tail, each with a lead
measured from the child before it. So the reading is followed too: its children lie
apart, up to the line it reads, and the open one is of every line from its first
(`Laid`, `Reader`), which the line machine keeps line by line (`LineKeeps`: opening,
adding a line, closing, yielding definitions, an identifier that names the block before
it); and what is taken back starts where the reading stands (`EditOK`), so that the
two parts fit (`TakenBackFollows`). Theorems `ChildrenAlwaysStartLines` and
`RestAlwaysUnspanned`.

**Induction over data.** The library's induction theorems take an operator as a
parameter, which the provers cannot instantiate. `Groundwork` states what is needed
of them for sets instead: a set of naturals that is not empty has a least element,
so a set with 0 and the successor of each of its members has every number up to any
*n* (`UpTo`); and a step that maps states to states can be taken *n* times
(`Iterated`), which gives the recursive functions of the models their values. A
property is then proved of a recursion by collecting the numbers for which it
holds. `SelectSeq` stays closed to the prover; the adapter's answers are
written as a recursive function for that reason.

**Only model-checked.** Liveness (`EveryRequestAnswered`) and anything with
ENABLED is outside the prover. So is everything of `Stream`, `Settling`,
`HeadingAnchors` and `Publishing`, whose operators are RECURSIVE as the grammar is;
no module that is proved about reaches one. `EditIsFresh` and `ReachIsFresh` compare
an edit with a parse of the whole text, which needs the locality of every kind of
line in the line machine on top of what `RereadProof` shows: it is in the plan.

## 5. What is not modelled, and why

* Of the block parse: the document's properties, comment blocks, block identifiers
  and captions, attributes and directive labels in `Stream` (comments and
  identifiers at the root are in `Reread`). Each adds candidates or claims of later
  lines to machinery that is modelled.
* Of the inline parse: citations. Characters above ASCII, and the folding of
  labels beyond trimming.
* Of the publish: source runs, and the second relation of a node. Chains of
  reopened blocks deeper than one.
* The roots completed anew after a later definition are in `Settling` and
  `HeadingAnchors`, not in `Publishing`.
* The report of what a cursor is in (`context.c`, `parts.c`, the `*_parts` and
  `S_report_*` functions of elements): large, and a pure function of a finished
  parse. `Session` models when it is made and for which text.
* The accessors and the one-shot interface of `ast.c`; the pool of resources.
* The key index, and the Fenwick tree that sums the widths: `Session` has the prefix
  sums. The widths of the blocks below the root.
* The JSON reader, the framing and the wire format: byte formats with no state
  between messages.
* YAML and properties: parsers of one construct's bytes.
* The generated code of the scanners, whose regular expressions are modelled, and
  the character tables.
* The dialect: tables resolved before any text is read.
* The bindings: layers over the C interface, in other languages.
* The command line program: input and output around one parse.

## 6. Findings

`session_widths` is a run that TLC must find violated: `session_reread` ignores a
`widths_mend` that had no storage (`elements/session.c:923`). The same edit may go on to
`session_refresh`, which finds rest points by the widths of the old document. TLC's
trace: two children that name a label are flushed; an edit puts a definition of the
label, two lines long, before them; the chunks have room for two and are refused a
third; both uses were kept and are read again; and by the old sums the last starts a
line before where it does. The child before ends there, so `session_rest_root` accepts
it, the reading is put back on that line and reads it twice. The edit answers OK.

The code does the same. Against a build of the library with its three allocation
functions substituted, as its own test suite does: 511 paragraphs `abc` and one `[x]`,
a blank line after each, flushed, then `[x]:`, `/ab` and a blank line inserted at 1:1,
with one allocation of the edit refused, each in turn. With the 64 bytes of the ninth
chunk refused (512 children become 513) the edit answers `OK` and `markdown_core_document_dump`
of its document fails; with 448 paragraphs, where it is the ninth sum, likewise. With
447, 449, 511 or 513 paragraphs, and with any other allocation refused, the edit either
fails or leaves the document of its text.

Three disagreements between texts that no run is needed to see:

* `include/markdown_core.h:465` says "A failed allocation fails the session's
  parse, and every later edit answers ALLOCATION_FAILED". An edit that fails before
  its text is replaced (`elements/session.c:1027` to `:1045`) leaves the session as
  it was, and the next may answer `OK`, as
  `docs/plans/2026-09-29-incremental-parsing.md:1377` says.
* When the adapter has no storage for a `didChange` message or its edits
  (`lsp/adapter.c:224`, `:268`), the change is dropped and the document stays open.
  `docs/plans/2026-10-23-lsp-completion-engine.md:816` says "an edit that cannot
  allocate closes the document, since the server then cannot tell the client's
  text". `HeldWithStorage` states what does hold.
* The comment at `elements/heading.c:1519` describes a stem's unlinking otherwise
  than `stem_unlink` does it; the difference has no effect.

## 7. The plan

In order of what an error would cost. Items 1 to 8 exist.

1. Storage everything rests on: `GrowingArray` over `PlainArray`, `NodePool`.
2. The session's control through failures: `Session`.
3. The roster an edit compares labels by: `Roster` against `Labels`.
4. An edit's reading at the root: `Reread` against a parse of the whole text.
5. The language server: `LspServer` over `LspStore`, `LspAdapter` over `LspStore`.
6. Streaming: `Stream` over the line machine, with the held line, snapshots and
   candidates.
7. Inlines while a paragraph is open: `Settling` over `InlineRun`; the names of
   headings: `HeadingAnchors`.
8. Publishing in place, lending, and the reopen and splice at the root and below it:
   `Publishing`.
9. Comment blocks, block identifiers and the properties in `Stream`: the same three
   properties.
10. The key index and the Fenwick tree of the widths, each against a reference definition.

Theorems to come: from `RereadProof`, the freshness of an edit (`EditIsFresh`,
`ReachIsFresh`), which needs that the line machine reads a line alike wherever it stands,
and that no line before the rest point was read by looking past it.
