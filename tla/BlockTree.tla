------------------------------ MODULE BlockTree ------------------------------
(***************************************************************************)
(* The blocks of a document as the block parser builds them (core/         *)
(* blocks.c): the open blocks are the root and the last children down to   *)
(* the current block; a block closes after everything open in it, waits as *)
(* the pending child of the block below, and settles into it as that takes *)
(* its next child or closes.  A snapshot builds on blocks it lends, and    *)
(* the take-back gives them what they held.                                *)
(*                                                                         *)
(* `st.n` is the heap, a block's address its index; 0 is no block.  A      *)
(* block's flags are a set, its content pairs of a byte and its place in   *)
(* the source.                                                             *)
(***************************************************************************)
EXTENDS BlockLines

Link == INSTANCE Brackets

Root == 1
Block(kind, parent, start, facts) ==
  [kind |-> kind, parent |-> parent, kids |-> <<>>, flags |-> {"open"}, start |-> start, end |-> start,
   facts |-> facts, tight |-> FALSE, content |-> <<>>, cut |-> 0, back |-> 0, literal |-> <<>>]
NoFacts == [none |-> TRUE]

Holders == {"document", "callout", "item", "footnote", "specimen", "directive", "body"}
can_contain(kind, child) ==
  CASE kind = "list" -> child = "item" [] kind = "deflist" -> child = "definition" [] kind = "definition" -> child = "body"
    [] kind = "table" -> child = "row" [] kind = "row" -> child = "cell"
    [] OTHER -> kind \in Holders /\ child \notin {"item", "definition", "body", "row", "cell"}
accepts_lines(b) ==
  \/ b.kind \in {"code", "html", "formula"}
  \/ b.kind = "directive" /\ (b.facts.length = 2 \/ "consume line" \in b.flags)
Prose == {"paragraph", "heading"}
takes_text(b) == accepts_lines(b) \/ b.kind \in Prose

LastKid(st, id) == Last(st.n[id].kids)
Flag(b, flag, on) == [b EXCEPT !.flags = IF on THEN @ \cup {flag} ELSE @ \ {flag}]

-----------------------------------------------------------------------------
\* What a block takes from a child as it settles.
S_closed_ends_blank(flags) ==
  IF "folded" \in flags THEN flags \cap {"ends blank"} ELSE IF "last line blank" \in flags THEN {"ends blank"} ELSE {}

\* A fold that sees the blank line an item ends with, and no nested one.
FoldEnd(flags, child) ==
  (flags \ {"loose followed"}) \cup (IF "last line blank" \in child THEN {"loose followed"} ELSE {})
    \cup (IF "loose followed" \in flags \/ "spaced" \in child THEN {"loose"} ELSE {})
\* A list is loose when a blank line separates two of its items or two of
\* the blocks an item holds.
fold_child(flags, child) ==
  LET followed == "last line blank" \in child \/ {"folded", "ends blank"} \subseteq child
  IN (flags \ {"loose followed"}) \cup (IF followed THEN {"loose followed"} ELSE {})
       \cup (IF "loose followed" \in flags \/ "spaced" \in child THEN {"loose"} ELSE {})

S_fold(kind, flags, child) ==
  LET seen == (flags \ {"ends blank"}) \cup {"folded"} \cup S_closed_ends_blank(child)
                \cup (IF "ends blank" \in flags THEN {"spaced"} ELSE {})
      taken == IF kind \in {"list", "item"} /\ "transparent" \notin child THEN seen ELSE flags
  IN IF kind = "list" THEN fold_child(taken, child) ELSE taken

Folded(b, flags) == [b EXCEPT !.flags = flags, !.tight = IF b.kind = "list" THEN "loose" \notin flags ELSE @]
S_settle(st, id, parent) ==
  [st EXCEPT !.n[parent] = Folded(@, S_fold(@.kind, @.flags, st.n[id].flags))]
S_settle_pending(st, holder) ==
  IF st.pending = 0 THEN st ELSE [S_settle(st, st.pending, holder) EXCEPT !.pending = 0]

-----------------------------------------------------------------------------
\* Reference definitions at the front of a paragraph's text.
BytesOf(pairs) == [i \in DOMAIN pairs |-> pairs[i][1]]
TextOf(b) == SubSeq(b.content, b.cut + 1, Len(b.content) - b.back)

\* Past the blanks and the line ending at `i`, 0 when more is there.
TailAt(s, i) == LET p == Past(s, i, Blank) IN IF p >= Len(s) THEN p ELSE IF At(s, p) \in LineEnd THEN p + 1 ELSE 0
reference_definition(s) ==
  LET close == ToUnescaped(s, 1, {"[", "]"})
      url == SkipSpnl(s, close + 2)
      Ended(after, title, width) ==
        IF width > 0 /\ TailAt(s, title + width) # 0 THEN [length |-> TailAt(s, title + width), title |-> width] ELSE [length |-> TailAt(s, after), title |-> 0]
      Titled(after, title) == Ended(after, title, IF title = after THEN 0 ELSE Scan!scan_link_title(s, title))
      Sized(n) == IF n = -1 THEN [length |-> 0] ELSE [label |-> Trim(Slice(s, 1, close)), url |-> Slice(s, url, url + n)] @@ Titled(url + n, SkipSpnl(s, url + n))
  IN IF At(s, 0) # "[" \/ At(s, close) # "]" \/ Trim(Slice(s, 1, close)) = <<>> \/ At(s, close + 1) # ":" THEN [length |-> 0]
     ELSE Sized(Link!manual_scan_link_url(s, url))

\* A definition spans its text to the end of its last line's content, and
\* stands before the block it was read from.
ReferenceOf(b, text, found) ==
  LET end == IF text[found.length][1] \in LineEnd THEN found.length - 1 ELSE found.length
  IN [Block("reference", b.parent, text[1][2], [label |-> found.label, url |-> found.url, title |-> found.title])
      EXCEPT !.end = text[end][2] + 1, !.flags = {"transparent"}]
settle_before(st, made, parent) ==
  LET id == Len(st.n) + 1
      Insert(kids) == Append(SubSeq(kids, 1, Len(kids) - 1), id) \o <<Last(kids)>>
  IN S_settle([st EXCEPT !.n = Append([@ EXCEPT ![parent].kids = Insert(@)], made)], id, parent)

RECURSIVE S_read_references(_, _)
S_read_references(st, id) ==
  LET b == st.n[id]
      Read(text, found) ==
        IF found.length = 0 THEN st
        ELSE S_read_references([settle_before(st, ReferenceOf(b, text, found), b.parent) EXCEPT !.n[id].cut = @ + found.length], id)
  IN Read(TextOf(b), reference_definition(BytesOf(TextOf(b))))

\* The block still starts where its definitions did.
KeepsStart(st, id) ==
  LET Cut(read) == [kept |-> ~BlankToEnd(BytesOf(TextOf(read.n[id])), 0), st |-> read] IN Cut(S_read_references(st, id))
\* The block then starts with the first byte left to it, and `kept` says
\* whether anything is.
resolve_references(st, id) ==
  LET Rest(read, text) ==
        [kept |-> ~BlankToEnd(BytesOf(text), 0),
         st |-> IF read.n[id].cut = 0 \/ text = <<>> THEN read ELSE [read EXCEPT !.n[id].start = text[1][2]]]
      Cut(read) == Rest(read, TextOf(read.n[id]))
  IN Cut(S_read_references(st, id))

-----------------------------------------------------------------------------
\* A code block's literal starts past its fence line and ends with its last
\* line that is not blank when it is indented.
CodeLiteral(s, fenced) == IF fenced THEN Slice(s, To(s, 0, LineEnd) + 1, Len(s)) ELSE Slice(s, 0, To(s, Len(Rtrim(s)), LineEnd) + 1)
close_html(b) == BytesOf(b.content)
LiteralOf(b) ==
  CASE b.kind = "code" -> CodeLiteral(BytesOf(b.content), b.facts.fenced)
    [] b.kind = "html" -> close_html(b)
    [] b.kind = "formula" -> Trim(BytesOf(b.content))
    [] OTHER -> <<>>
\* A definition list, a definition and a body end where their last child
\* does, and a body without one ends with its marker's line.
DefinitionKinds == {"deflist", "definition", "body"}
DefinitionEnd(n, b) ==
  IF b.kind \notin DefinitionKinds THEN b.end ELSE IF b.kids # <<>> THEN n[Last(b.kids)].end ELSE IF b.kind = "body" THEN b.facts.end ELSE b.end
\* A paragraph yields the definitions at its front, and is kept when anything
\* is left.
close_paragraph(st, id) == resolve_references(st, id)
S_close(st, id) ==
  IF st.n[id].kind = "paragraph" THEN close_paragraph(st, id)
  ELSE [kept |-> TRUE, st |-> [st EXCEPT !.n[id].literal = LiteralOf(st.n[id]), !.n[id].end = DefinitionEnd(st.n, st.n[id])]]

\* A block lent: its state is kept, and its address goes on as a view.
S_lend_to(st, id) ==
  [id |-> id, block |-> st.n[id], kids |-> Len(st.n[id].kids), last |-> IF st.n[id].kids = <<>> THEN 0 ELSE LastKid(st, id)]
S_lend(st, id) == [st EXCEPT !.lends = Append(@, S_lend_to(st, id))]
S_room(st, id) ==
  IF id = 0 THEN st
  ELSE [st EXCEPT !.rooms = Append(@, [id |-> id, kids |-> Len(st.n[id].kids), end |-> st.n[id].end, flags |-> st.n[id].flags,
                                       last |-> IF st.n[id].kids = <<>> THEN 0 ELSE LastKid(st, id)])]
S_lend_below(st, id) ==
  LET below == st.n[id].parent IN S_room(S_lend([st EXCEPT !.boundary = below], id), below)

\* The current block closes.
S_close_current(st) ==
  LET closing == st.current
      parent == st.n[closing].parent
      lent == IF closing = st.boundary THEN S_lend_below(st, closing) ELSE st
      shut == [S_settle_pending(lent, closing) EXCEPT !.n[closing].flags = @ \ {"open"}]
      Left(got) ==
        [got.st EXCEPT !.current = parent, !.pending = IF got.kept THEN closing ELSE 0,
                       !.n[parent].kids = IF got.kept THEN @ ELSE SubSeq(@, 1, Len(@) - 1)]
  IN Left(S_close(shut, closing))

\* A block closed on the line it starts on, or by its end condition, ends on
\* that line; any other ended on the line before.
EndOf(st, b) ==
  IF st.reading /\ (b.start >= st.start \/ "end condition" \in b.flags) THEN st.end ELSE st.last
RECURSIVE block_close(_, _)
block_close(st, id) ==
  LET closing == st.current
      Next(after) == IF closing = id THEN after ELSE block_close(after, id)
  IN Next(S_close_current([st EXCEPT !.n[closing].end = EndOf(st, st.n[closing])]))
close_below(st, container) == IF st.current = container THEN st ELSE block_close(st, LastKid(st, container))

RECURSIVE parent_for(_, _, _)
parent_for(n, parent, kind) ==
  IF can_contain(n[parent].kind, kind) THEN parent ELSE parent_for(n, n[parent].parent, kind)

\* A new block opens as the last child of the nearest block that can hold
\* it, everything open in that closed.
OpenIn(st, parent, block) ==
  LET id == Len(st.n) + 1
  IN [st EXCEPT !.n = Append([@ EXCEPT ![parent].kids = Append(@, id)], [block EXCEPT !.parent = parent]), !.current = id]
add_child(st, container, block) ==
  LET In(parent) == OpenIn(S_settle_pending(close_below(st, parent), parent), parent, block)
  IN In(parent_for(st.n, container, block.kind))

\* A paragraph an underline follows becomes a heading.
set_kind(b, kind, facts) ==
  [b EXCEPT !.kind = kind, !.facts = facts]

\* The rows and cells of a table are made whole: they are never open.  A
\* cell's escaped pipes are contracted, each at the place of its backslash;
\* the cells a row is short of stand on its last byte.
Contracted(pairs) ==
  FoldLeft(LAMBDA got, p : IF p[1] = "|" /\ got # <<>> /\ Last(got)[1] = "\\" THEN [got EXCEPT ![Len(got)][1] = "|"] ELSE Append(got, p),
           <<>>, pairs)
set_cell_content(pairs, row, cell) ==
  [Block("cell", row, pairs[cell.start + 1][2], [internal |-> cell.internal, completed |-> FALSE])
   EXCEPT !.end = pairs[cell.end + 1][2] + 1, !.flags = {}, !.content = Contracted(SubSeq(pairs, cell.from + 1, cell.to))]
CompletedCell(row, end) == [Block("cell", row, end - 1, [internal |-> 0, completed |-> TRUE]) EXCEPT !.end = end, !.flags = {}]
MakeRow(st, table, pairs, cells) ==
  LET row == Len(st.n) + 1
      facts == st.n[table].facts
      columns == Len(facts.columns)
      kept == SubSeq(cells, 1, Min({columns, Len(cells)}))
      end == pairs[Len(pairs) - 1][2] + 1
      made == [Block("row", table, pairs[1][2], [completed |-> facts.completed])
               EXCEPT !.end = end, !.flags = {}, !.kids = [i \in 1 .. columns |-> row + i]]
  IN [st EXCEPT !.n = [@ EXCEPT ![table].kids = Append(@, row), ![table].facts.completed = @ + columns - Len(kept)]
                        \o <<made>> \o [i \in DOMAIN kept |-> set_cell_content(pairs, row, kept[i])]
                        \o [i \in 1 .. columns - Len(kept) |-> CompletedCell(row, end)]]

\* A paragraph whose last line is a table's header keeps the text before it
\* and closes where that ends.
S_close_lead(st, id, lead) ==
  LET text == TextOf(st.n[id])
      bytes == SubSeq(BytesOf(text), 1, lead)
      first == Past(bytes, 0, White)
      solid == {i \in first + 1 .. lead : bytes[i] \notin LineEnd}
  IN S_close_current([st EXCEPT !.n[id].cut = @ + first, !.n[id].back = @ + Len(text) - lead,
                                !.n[id].end = IF solid = {} THEN @ ELSE text[Max(solid)][2] + 1])
\* The table the last line heads: the paragraph itself when the header is all
\* its text, else a block after what is left of it.
S_header_table(text, parent, header, facts) ==
  LET rest == SubSeq(text, header + 1, Len(text)) IN [Block("table", parent, rest[1][2], facts) EXCEPT !.content = rest]
S_open_table(st, paragraph, header, facts) ==
  LET parent == st.n[paragraph].parent
      table == S_header_table(TextOf(st.n[paragraph]), parent, header, facts)
      Joined(closed) == OpenIn(S_settle_pending(close_below(closed, parent), parent), parent, table)
  IN IF header = 0 THEN [st EXCEPT !.n[paragraph] = set_kind(@, "table", facts)] ELSE Joined(S_close_lead(st, paragraph, header))

\* The line from the cursor on, the rest of a partly taken tab as spaces.
add_line(st, id, line) ==
  LET tab == IF st.c.partial THEN [i \in 1 .. ToTab(st.c.column) |-> <<" ", st.start + st.c.offset>>] ELSE <<>>
      from == IF st.c.partial THEN st.c.offset + 1 ELSE st.c.offset
      rest == [i \in 1 .. Len(line) - from |-> <<At(line, from + i - 1), st.start + from + i - 1>>]
  IN [st EXCEPT !.n[id].content = @ \o tab \o rest]

-----------------------------------------------------------------------------
\* The take-back: the lent blocks, the last lent first, then the rooms.  A
\* block and its view share the storage of their children and content, in
\* which a view wrote past what the block holds, and may have replaced the
\* last child.
Held(kids, count, last) == IF count = 0 THEN <<>> ELSE Append(SubSeq(kids, 1, count - 1), last)
TakeBackLend(n, lend) ==
  LET view == n[lend.id]
  IN [n EXCEPT ![lend.id] = [lend.block EXCEPT !.kids = Held(view.kids, lend.kids, lend.last),
                                               !.content = SubSeq(view.content, 1, Len(lend.block.content))]]
\* The flags a room had are not given back.
RoomKeepsFlags(n, room) == [n EXCEPT ![room.id].kids = Held(@, room.kids, room.last), ![room.id].end = room.end]
TakeBackRoom(n, room) ==
  [n EXCEPT ![room.id].kids = Held(@, room.kids, room.last), ![room.id].flags = room.flags, ![room.id].end = room.end]
Backwards(s) == [i \in DOMAIN s |-> s[Len(s) + 1 - i]]
S_take_back(st) ==
  LET lent == FoldLeft(TakeBackLend, st.n, Backwards(st.lends))
      back == FoldLeft(TakeBackRoom, lent, Backwards(st.rooms))
  IN IF st.lends = <<>> THEN st ELSE [st EXCEPT !.n = SubSeq(back, 1, st.made), !.lends = <<>>, !.rooms = <<>>, !.boundary = 0]

\* The stop, the blocks open above it and the pending block are lent, and
\* the lending reaches the block below the stop.
RECURSIVE LendDown(_, _, _)
LendDown(st, id, stop) ==
  LET lent == S_lend(st, id) IN IF id = stop THEN lent ELSE LendDown(lent, st.n[id].parent, stop)
S_lend_tail(st, stop) ==
  LET boundary == st.n[stop].parent
      reached == S_room([st EXCEPT !.boundary = boundary, !.made = Len(st.n)], boundary)
  IN LendDown(IF st.pending = 0 THEN reached ELSE S_lend(reached, st.pending), st.current, stop)

\* The text ends: what is open above `id` closes and settles into it.
Ended(st, id) == S_settle_pending(close_below(st, id), id)
\* The open blocks from `id` down end where the text does without closing:
\* each takes its end and what its close makes of it, and folds into the
\* block below what it would; no flag of theirs is written.
RECURSIVE EndOpen(_, _, _, _)
EndOpen(n, id, flags, end) ==
  LET below == n[id].parent
      ended == [n EXCEPT ![id].end = DefinitionEnd(n, [n[id] EXCEPT !.end = end])]
      Fold(folded) == EndOpen([ended EXCEPT ![below].tight = Folded(n[below], folded).tight], below, folded, end)
  IN IF below = 0 THEN ended ELSE Fold(S_fold(n[below].kind, n[below].flags, flags))
S_close_tail(st) ==
  LET Down(ended) == IF st.boundary = 0 THEN [ended EXCEPT !.n[Root].flags = @ \ {"open"}, !.n[Root].end = ended.last]
                     ELSE [ended EXCEPT !.n = EndOpen(@, st.boundary, ended.n[st.boundary].flags, ended.last)]
  IN Down(Ended(st, IF st.boundary = 0 THEN Root ELSE st.boundary))
=============================================================================
