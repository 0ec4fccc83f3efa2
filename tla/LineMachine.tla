---------------------------- MODULE LineMachine ----------------------------
(***************************************************************************)
(* The line machine (core/blocks.c): a line is matched against the open    *)
(* blocks, opens the blocks it starts, and leaves its text to the block it *)
(* reaches.  On the line a session holds it stops before the first step    *)
(* that reads past the line's bytes, and the next reading goes on there.   *)
(***************************************************************************)
EXTENDS Candidates

MaxFootnoteDepth == 100 \* MAX_FOOTNOTE_DEPTH

-----------------------------------------------------------------------------
\* Matching the open blocks.
Reached(st, container, all, held, close) == [st |-> st, container |-> container, all |-> all, held |-> held, close |-> close]
Takes(st, line) == IF accepts_lines(st.n[st.current]) THEN add_line(st, st.current, line) ELSE st

\* A directive's closing line found above waits for what is open in it: a
\* block that takes the line undoes it.
Pending(closing, b, kid, how) ==
  IF b.kind = "directive" THEN (IF how = "closes" THEN kid ELSE 0) ELSE IF accepts_lines(b) THEN 0 ELSE closing
\* The last block matched, or none when the line is done with: taken by the
\* current block, or the closing line of `close`.
RECURSIVE check_open_blocks(_, _, _, _, _)
check_open_blocks(st, line, id, closing, hold) ==
  LET Done(after, all) == Reached(after, IF closing = 0 THEN id ELSE 0, all, FALSE, closing)
      Go(kid, got) ==
        CASE got.how = "no" -> Done(got.st, FALSE)
          [] got.how \in {"yes", "closes"} -> check_open_blocks(got.st, line, kid, Pending(closing, got.st.n[kid], kid, got.how), hold)
          [] got.how = "closed" -> Reached(got.st, 0, FALSE, FALSE, kid)
          [] got.how = "taken" -> Reached(Takes(got.st, line), 0, FALSE, FALSE, 0)
      Asked(kid, f, got) ==
        CASE got.how = "asks" -> Reached(got.st, id, FALSE, TRUE, 0)
          [] got.how = "no" -> Go(kid, got)
          [] got.how = "yes" -> Go(kid, Continue(got.st, line, kid, f, 0))
      Ask(kid, f, asking) ==
        IF hold /\ ~S_continue_decided(st.n[kid], line, f) THEN Reached(asking, id, FALSE, TRUE, 0)
        ELSE Asked(kid, f, IF f.blank THEN accepts_blank(asking, kid) ELSE Answer("yes", asking))
  IN IF id = st.current THEN Done(st, TRUE) ELSE Ask(LastKid(st, id), find_first_nonspace(line, st.c), [st EXCEPT !.step = st.asks])

-----------------------------------------------------------------------------
\* What a line starts.  `o` says where the machine stands: the parser's
\* state, the container, whether every open block matched, whether the line
\* may be lazy, and how many blocks it asked to open.
NoStart == [kind |-> "none"]
NotAList == [flavor |-> "none", bullet |-> "", variant |-> Variant("none", FALSE), delimiter |-> "none", closed |-> FALSE]
RECURSIVE inside(_, _, _)
inside(n, id, kinds) == id # 0 /\ (n[id].kind \in kinds \/ inside(n, n[id].parent, kinds))
ListContext(o, paragraph) ==
  [list |-> IF o.st.n[o.container].kind = "list" THEN o.st.n[o.container].facts ELSE NotAList,
   paragraph |-> paragraph, inside |-> inside(o.st.n, o.container, {"item", "specimen"})]

Try(kind, width) == IF width > 0 THEN [kind |-> kind, width |-> width] ELSE NoStart
scan_code(line, f, text) ==
  IF f.indent < CodeIndent THEN Try("code", Scan!scan_open_code_fence(line, f.first))
  ELSE IF text \/ f.blank THEN NoStart ELSE [kind |-> "indented"]
scan_callout(line, f) == IF At(line, f.first) = ">" THEN [kind |-> "callout"] ELSE NoStart
scan_heading(line, f, paragraph) ==
  LET Setext(level) == IF level > 0 THEN [kind |-> "setext", level |-> level] ELSE NoStart
      Atx(start) == IF start.kind = "heading" \/ ~paragraph THEN start ELSE Setext(Scan!scan_setext_heading_line(line, f.first))
  IN Atx(Try("heading", Scan!scan_atx_heading_start(line, f.first)))
\* A thematic break is not looked for before where the last one failed.
scan_thematic(o, line, f, paragraph) ==
  IF (paragraph /\ ~o.all) \/ (o.st.memo /\ o.st.kill > f.first) THEN NoStart
  ELSE IF scan_thematic_break(line, f.first).found THEN [kind |-> "break"] ELSE NoStart
KillOf(o, line, f, paragraph) ==
  LET Scanned(scan) == IF scan.found THEN o.st.kill ELSE scan.kill
      asked == At(line, f.first) \in {"*", "-", "_"} /\ f.indent < CodeIndent /\ (paragraph => o.all) /\ o.st.kill <= f.first
  IN IF asked THEN Scanned(scan_thematic_break(line, f.first)) ELSE o.st.kill
scan_list(o, line, f, paragraph) ==
  LET Marked(m) == IF m.width = 0 THEN NoStart ELSE [kind |-> "item", width |-> m.width, facts |-> m.facts]
  IN Marked(parse_list_marker(line, f, ListContext(o, paragraph)))
scan_specimen(line, f, paragraph) ==
  LET Marked(m) == IF paragraph \/ m.width = 0 THEN NoStart ELSE [kind |-> "specimen", width |-> m.width, facts |-> [start |-> m.start, label |-> m.label]]
  IN Marked(parse_specimen_marker(line, f.first))
scan_formula(line, f) ==
  IF f.indent >= CodeIndent \/ scan_formula_block_open(line, f.first) = "none" THEN NoStart
  ELSE [kind |-> "formula", facts |-> [delimiter |-> scan_formula_block_open(line, f.first)]]
scan_directive(line, f) ==
  LET Found(d) == IF d.length = 0 THEN NoStart ELSE [kind |-> "directive", facts |-> d] IN Found(scan_directive_block(line, f))

\* The owners in the dialect's order, each asked about the bytes its gate
\* names: the one that claims the line.
Gates == <<"code", "callout", "heading", "html", "break", "definition", "footnote", "specimen", "list", "formula", "directive">>
GateOf(owner) ==
  CASE owner = "code" -> {Tick, "~"} [] owner = "callout" -> {">"} [] owner = "heading" -> {"#", "=", "-"}
    [] owner = "html" -> {"<"} [] owner = "break" -> {"*", "_", "-"} [] owner = "definition" -> MarkerBytes [] owner = "footnote" -> {"["}
    [] owner = "specimen" -> {"("} [] owner = "list" -> {"*", "-", "+", "#", "("} \cup Alnum
    [] owner = "formula" -> {"$", "\\"} [] owner = "directive" -> {":"}
AskOwner(owner, o, line, f, paragraph) ==
  CASE owner = "code" -> scan_code(line, f, paragraph \/ o.lazy)
    [] owner = "callout" -> scan_callout(line, f)
    [] owner = "heading" -> scan_heading(line, f, paragraph)
    [] owner = "html" -> Try("html", html_start(line, f.first, paragraph \/ o.lazy))
    [] owner = "break" -> scan_thematic(o, line, f, paragraph)
    [] owner = "definition" -> scan_definition(o, line, f)
    [] owner = "footnote" -> Try("footnote", IF o.depth + 1 < MaxFootnoteDepth THEN Scan!scan_footnote_definition(line, f.first) ELSE 0)
    [] owner = "specimen" -> scan_specimen(line, f, paragraph)
    [] owner = "list" -> scan_list(o, line, f, paragraph)
    [] owner = "formula" -> scan_formula(line, f)
    [] owner = "directive" -> scan_directive(line, f)
RECURSIVE FirstClaim(_, _, _, _, _)
FirstClaim(owners, o, line, f, paragraph) ==
  LET Claim(start) == IF start.kind = "none" THEN FirstClaim(Tail(owners), o, line, f, paragraph) ELSE start
  IN IF owners = <<>> THEN NoStart ELSE Claim(AskOwner(Head(owners), o, line, f, paragraph))
scan_element_start(o, line, f, paragraph) ==
  FirstClaim(SelectSeq(Gates, LAMBDA owner : IF f.indent >= CodeIndent THEN owner = "code" ELSE At(line, f.first) \in GateOf(owner)),
             o, line, f, paragraph)

\* Only a callout says how far it reads before it opens.
S_start_decided(line, f) == f.indent <= 3 /\ At(line, f.first) = ">" /\ callout_start_reach(line, f) < Len(line) - 1

-----------------------------------------------------------------------------
\* Opening what the line starts: the blocks, each in the one before, where
\* the cursor stands after them, and whether the line goes on opening blocks.
Made(kind, at, facts) == [kind |-> kind, at |-> at, facts |-> facts]
Opens(blocks, c, more) == [blocks |-> blocks, c |-> c, more |-> more]
open_callout(o, line, f) ==
  LET Meta(c, meta) == Opens(<<Made("callout", f.first, meta)>>, IF meta.has THEN AdvanceTo(line, c, Len(line) - 1) ELSE c, ~meta.has)
      Marked(c) == Meta(c, callout_metadata(line, c))
  IN Marked(SpaceAfter(line, AdvanceTo(line, o.st.c, f.first + 1)))
open_list(o, line, f, start) ==
  LET b == o.st.n[o.container]
      Item(facts, prefix) ==
        LET item == Made("item", f.first, facts @@ [task |-> prefix.task])
        IN Opens(IF b.kind = "list" /\ list_facts_match(b.facts, facts) THEN <<item>> ELSE <<Made("list", f.first, facts), item>>, prefix.c, TRUE)
      Marked(marker) == Item(start.facts @@ [padding |-> marker.padding, offset |-> f.indent],
                             task_prefix(line, marker.c, find_first_nonspace(line, marker.c)))
  IN Marked(consume_item_marker(line, o.st.c, f, start.width))
\* A definition's body, indented to its marker's padding; and a definition
\* with its term, in the list before it or in one of its own.
open_body(o, line, f) ==
  LET Marked(marker) ==
        Opens(<<Made("body", f.first, [continuation |-> f.indent + marker.padding, line |-> 0, end |-> o.st.end])>>, marker.c, TRUE)
  IN Marked(consume_item_marker(line, o.st.c, f, 1))
TermOf(o, line, f) ==
  LET text == Rtrim(Slice(line, f.first, Len(line)))
  IN [start |-> o.st.start + f.first, end |-> o.st.start + f.first + Len(text), text |-> text]
open_definition(o, line, f, compact) ==
  LET made == Made("definition", f.first, [compact |-> compact, term |-> TermOf(o, line, f)])
      listed == o.st.n[o.container].kind \in {"deflist", "definition"}
  IN Opens(IF listed THEN <<made>> ELSE <<Made("deflist", f.first, NoFacts), made>>, AdvanceTo(line, o.st.c, Len(line) - 1), FALSE)
open_thematic(o, line, f) == Opens(<<Made("break", f.first, NoFacts)>>, AdvanceTo(line, o.st.c, Len(line) - 1), TRUE)
IndentedAt(c) == Opens(<<Made("code", c.offset, Indented)>>, c, TRUE)
\* A block at the first non-space byte, and how many bytes of it are taken.
FactsOf(o, line, f, start) ==
  CASE start.kind = "code" -> Fence(line, o.st.c, f, start.width)
    [] start.kind = "heading" -> [level |-> Past(line, f.first, {"#"}) - f.first, setext |-> FALSE]
    [] start.kind = "html" -> [type |-> start.width]
    [] start.kind = "footnote" -> [label |-> FootnoteLabel(line, f.first, start.width)]
    [] OTHER -> start.facts
TakenTo(o, line, f, start) ==
  CASE start.kind = "html" -> o.st.c.offset
    [] start.kind \in {"formula", "directive"} -> Len(line)
    [] OTHER -> f.first + start.width
Plain(o, line, f, start) ==
  LET Past0(c) == IF start.kind = "specimen" THEN Padded(line, c, Len(line)) ELSE c
  IN Opens(<<Made(start.kind, f.first, FactsOf(o, line, f, start))>>, Past0(AdvanceTo(line, o.st.c, TakenTo(o, line, f, start))), TRUE)
OpenPlan(o, line, f, start) ==
  CASE start.kind = "indented" -> IndentedAt(advance_offset(line, o.st.c, CodeIndent, TRUE))
    [] start.kind = "callout" -> open_callout(o, line, f)
    [] start.kind = "item" -> open_list(o, line, f, start)
    [] start.kind = "break" -> open_thematic(o, line, f)
    [] start.kind = "body" -> open_body(o, line, f)
    [] start.kind = "term" -> open_definition(o, line, f, start.compact)
    [] OTHER -> Plain(o, line, f, start)

\* A directive's opening line is its own; a specimen that follows another
\* counts on from it.
Entered(st) ==
  LET kids == st.n[st.n[st.current].parent].kids
      follows == Len(kids) > 1 /\ st.n[kids[Len(kids) - 1]].kind = "specimen"
  IN CASE st.n[st.current].kind = "directive" -> [st EXCEPT !.n[st.current].flags = @ \cup {"consume line"}]
       [] st.n[st.current].kind = "specimen" -> [st EXCEPT !.n[st.current].facts.start = IF follows THEN 0 ELSE @]
       [] OTHER -> st
RECURSIVE OpenEach(_, _, _)
OpenEach(st, container, blocks) ==
  LET made == Head(blocks)
      On(opened) == OpenEach(opened, opened.current, Tail(blocks))
  IN IF blocks = <<>> THEN st
     ELSE On(Entered(add_child(st, container, Block(made.kind, 0, st.start + made.at, made.facts))))
OpenBlocks(o, plan) ==
  LET Opened(st) == [st |-> st, container |-> st.current, more |-> plan.more]
  IN Opened(OpenEach([o.st EXCEPT !.c = plan.c], o.container, plan.blocks))
open_setext(o, line, level) ==
  LET Kept(got) ==
        [st |-> IF got.kept THEN [got.st EXCEPT !.n[o.container] = set_kind(@, "heading", [level |-> level, setext |-> TRUE]),
                                                !.c = AdvanceTo(line, @, Len(line) - 1)] ELSE got.st,
         container |-> o.container, more |-> TRUE]
  IN Kept(resolve_references(o.st, o.container))
Open(o, line, f, start) ==
  IF start.kind = "setext" THEN open_setext(o, line, start.level) ELSE OpenBlocks(o, OpenPlan(o, line, f, start))

\* A line no element claims may be a table's: the delimiter row that makes
\* the last line of the paragraph above it a header, or the next row.
MaxAutocompletedCells == 524288 \* MAX_AUTOCOMPLETED_CELLS
NothingOpens(o, st) == [st |-> st, container |-> o.container, more |-> FALSE]
TableAt(st, line) == [st |-> [st EXCEPT !.c = AdvanceTo(line, @, Len(line) - 1)], container |-> st.current, more |-> TRUE]
try_opening_table_header(o, line, f) ==
  LET rest == Slice(line, f.first, Len(line))
      Headed(st) == MakeRow(st, st.current, TextOf(st.n[st.current]), recognize_pipe_row(BytesOf(TextOf(st.n[st.current]))).cells)
      Rows(delimiters, header) ==
        IF ~delimiters.valid THEN NothingOpens(o, o.st)
        ELSE IF ~header.valid \/ Len(header.cells) # Len(delimiters.cells)
        THEN NothingOpens(o, [o.st EXCEPT !.n[o.container].flags = @ \cup {"table visited"}])
        ELSE TableAt(Headed(S_open_table(o.st, o.container, header.start,
               [columns |-> [i \in DOMAIN delimiters.cells |-> FlowOf(rest, delimiters.cells[i])], completed |-> 0])), line)
  IN IF "table visited" \in o.st.n[o.container].flags \/ Scan!scan_table_start(line, f.first) = 0 THEN NothingOpens(o, o.st)
     ELSE Rows(recognize_pipe_row(rest), recognize_pipe_row(BytesOf(TextOf(o.st.n[o.container]))))
try_opening_table_row(o, line, f) ==
  LET Read(row) ==
        IF ~row.valid THEN NothingOpens(o, o.st)
        ELSE TableAt(MakeRow(o.st, o.container, [i \in 1 .. Len(line) - f.first |-> <<At(line, f.first + i - 1), o.st.start + f.first + i - 1>>],
                             row.cells), line)
  IN IF f.blank \/ o.st.n[o.container].facts.completed > MaxAutocompletedCells THEN NothingOpens(o, o.st)
     ELSE Read(recognize_pipe_row(Slice(line, f.first, Len(line))))
try_opening_table_block(o, line, f) ==
  CASE f.indent <= 3 /\ o.st.n[o.container].kind = "paragraph" -> try_opening_table_header(o, line, f)
    [] f.indent <= 3 /\ o.st.n[o.container].kind = "table" -> try_opening_table_row(o, line, f)
    [] OTHER -> NothingOpens(o, o.st)

\* Nor a table's, the line may be a definition's term, when no paragraph
\* takes it.
TriedTable(o, line, f, start) == IF start.kind = "none" THEN try_opening_table_block(o, line, f) ELSE NothingOpens(o, o.st)
LastChance(o, line, f, start, paragraph, got) ==
  IF start.kind # "none" \/ got.more \/ paragraph \/ o.lazy THEN Answer("no", got.st) ELSE try_paragraph(got.st, o.container, line, f)
Opened(o, line, f, start, got, term) ==
  IF got.more \/ (start.kind = "none" /\ term.how = "no") THEN [got EXCEPT !.st = term.st]
  ELSE Open([o EXCEPT !.st = term.st], line, f, IF start.kind = "none" THEN [kind |-> "term", compact |-> term.compact] ELSE start)

\* One turn: what the line starts is opened, or a call `asks`.
RECURSIVE open_new_blocks(_, _, _)
TurnOn(now, got, line, hold) ==
  LET on == [now EXCEPT !.st = got.st, !.container = got.container]
  IN IF ~got.more \/ takes_text(got.st.n[got.container]) THEN on ELSE open_new_blocks([on EXCEPT !.lazy = FALSE], line, hold)
TurnTerm(now, line, f, hold, start, got, term) ==
  IF term.how = "asks" THEN [now EXCEPT !.st = term.st, !.depth = @ - 1, !.held = TRUE]
  ELSE TurnOn(now, Opened(now, line, f, start, got, term), line, hold)
TurnTable(now, line, f, hold, start, paragraph, got) ==
  TurnTerm(now, line, f, hold, start, got, LastChance(now, line, f, start, paragraph, got))
TurnStart(now, line, f, hold, start, paragraph) ==
  TurnTable(now, line, f, hold, start, paragraph, TriedTable(now, line, f, start))
Turn(o, line, f, hold, paragraph) ==
  TurnStart([o EXCEPT !.st.kill = KillOf(o, line, f, paragraph), !.depth = @ + 1], line, f, hold,
            scan_element_start(o, line, f, paragraph), paragraph)
TurnAt(o, line, f, hold) ==
  IF hold /\ ~S_start_decided(line, f) THEN [o EXCEPT !.held = TRUE] ELSE Turn(o, line, f, hold, o.st.n[o.container].kind = "paragraph")
open_new_blocks(o, line, hold) ==
  IF accepts_lines(o.st.n[o.container]) THEN o
  ELSE TurnAt([o EXCEPT !.st.step = o.st.asks], line, find_first_nonspace(line, o.st.c), hold)

-----------------------------------------------------------------------------
\* The text the line leaves.
starts_on_line(st, b, line) == line >= 1 /\ st.lines[line].start <= b.start /\ b.start <= st.lines[line].end
S_may_be_lazy(st, matched) ==
  LET b == st.n[st.current]
  IN /\ st.current # matched
     /\ \/ b.kind = "paragraph"
        \/ b.kind = "callout" /\ b.facts.has /\ b.kids = <<>> /\ starts_on_line(st, b, st.line - 1)

BlankLine(st, b) ==
  CASE b.kind \in {"callout", "heading", "break"} -> FALSE
    [] b.kind = "item" -> b.kids # <<>> \/ ~starts_on_line(st, b, st.line)
    [] b.kind \in {"list", "html"} -> TRUE
    [] b.kind = "code" -> ~b.facts.fenced
    [] OTHER -> ~accepts_lines(b)
RECURSIVE ClearBelow(_, _)
ClearBelow(n, id) == IF id = 0 THEN n ELSE ClearBelow([n EXCEPT ![id].flags = @ \ {"last line blank"}], n[id].parent)
MarkBlank(st, container, blank) ==
  LET before == IF container # st.current THEN LastKid(st, container) ELSE st.pending
      Own(n) == [n EXCEPT ![container] = Flag(@, "last line blank", blank /\ BlankLine(st, st.n[container]))]
      Cleared(n) == ClearBelow(Own(n), n[container].parent)
  IN [st EXCEPT !.n = Cleared(IF blank /\ before # 0 THEN [@ EXCEPT ![before].flags = @ \cup {"last line blank"}] ELSE @)]

\* The block that takes the text, the current one then.  A lazy line's is
\* the current block; a callout's title, and a block that takes no text,
\* open a paragraph.
Taken(st, container, f, lazy) ==
  LET at == IF lazy THEN st.current ELSE container
  IN IF ~f.blank /\ ~takes_text(st.n[at]) THEN add_child(st, at, Block("paragraph", 0, st.start + f.first, NoFacts))
     ELSE IF lazy THEN st ELSE close_below(st, at)
AddText(st, b, line, f) ==
  [st |-> IF f.blank /\ ~accepts_lines(b) THEN st
          ELSE add_line(IF accepts_lines(b) THEN st ELSE [st EXCEPT !.c = AdvanceTo(line, @, f.first)], st.current, line),
   close |-> IF b.kind = "html" /\ ends_html(line, f.first, b.facts.type) THEN st.current ELSE 0]
add_text_to_container(o, line) ==
  LET Into(st, f) == AddText(st, st.n[st.current], line, f)
      lazy == o.container = o.last /\ S_may_be_lazy(o.st, o.last)
      With(f) == Into(Taken(MarkBlank(o.st, o.container, f.blank), o.container, f, ~f.blank /\ lazy), f)
  IN With(find_first_nonspace(line, o.st.c))

-----------------------------------------------------------------------------
\* Where the machine stopped in the line a session holds.
StopAt(o, step) ==
  [container |-> o.container, depth |-> o.depth, c |-> o.st.c, step |-> step, all |-> o.all, opened |-> o.container # o.last,
   lazy |-> o.lazy, asks |-> o.st.step]
S_hold(o, step) == [o.st EXCEPT !.held = TRUE, !.stop = StopAt(o, step)]
CloseAt(st, id) == IF id = 0 THEN st ELSE block_close([st EXCEPT !.n[id].flags = @ \cup {"end condition"}], id)

\* The open blocks matched, the blocks the line starts, its text, its end.
BlocksMatched(got) ==
  got @@ [last |-> got.container, depth |-> 0, step |-> IF got.held THEN "match" ELSE "open",
          lazy |-> got.container # 0 /\ ~got.held /\ S_may_be_lazy(got.st, got.container)]
Opening(o, line, hold) == IF o.held \/ o.container = 0 \/ o.step = "text" THEN o ELSE open_new_blocks(o, line, hold)
LeftText(o, line, hold) ==
  IF o.container = 0 THEN o
  ELSE IF o.held THEN [st |-> S_hold(o, o.step), close |-> 0]
  ELSE IF hold THEN [st |-> S_hold([o EXCEPT !.st.step = o.st.asks], "text"), close |-> 0]
  ELSE add_text_to_container(o, line)
LineDone(o, hold) ==
  LET Finished(read) == [read EXCEPT !.reading = FALSE, !.last = IF (hold /\ read.held) \/ read.request # Nothing THEN @ ELSE read.end]
  IN Finished(CloseAt(o.st, o.close))
\* The line, from its start or from where a commit stopped in it.
S_line_machine(st, line, from, hold) ==
  LET stop == st.stop
      number == IF from THEN st.line ELSE st.line + 1
      visit == [line |-> number, size |-> Len(st.source)]
      asks == IF from THEN stop.asks ELSE 0
      ready == [st EXCEPT !.reading = TRUE, !.line = number, !.visit = visit, !.c = IF from THEN stop.c ELSE LineStart, !.asks = asks, !.step = asks,
                          !.kill = IF from /\ st.visit = visit THEN @ ELSE 0]
      Stopped == [st |-> ready, container |-> stop.container, last |-> IF stop.opened THEN 0 ELSE stop.container, all |-> stop.all,
                  lazy |-> stop.lazy, depth |-> stop.depth, held |-> FALSE, close |-> 0, step |-> stop.step]
  IN LineDone(LeftText(Opening(IF from /\ stop.step # "match" THEN Stopped
                              ELSE BlocksMatched(check_open_blocks(ready, line, IF from THEN stop.container ELSE Root, 0, hold)),
                              line, hold), line, hold), hold)
=============================================================================
