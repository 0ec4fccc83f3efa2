-------------------------------- MODULE Reread --------------------------------
(***************************************************************************)
(* An edit of a flushed session (elements/session.c, and THE REACH, THE    *)
(* REOPEN and THE SPLICE of core/blocks.c): the parse is put back at the   *)
(* start of a line where a child of the root starts, reads the new text    *)
(* from there, takes the old children back where it may, and the children  *)
(* it kept are read again where they name a label the edit altered.        *)
(*                                                                         *)
(* The text is of lines, each Width bytes with its ending, and a line is   *)
(* one of the kinds below.  They are those whose readings reach past their *)
(* own line, or write a block before it, or look up what another line      *)
(* declares: every way a line at the root depends on another.  A block     *)
(* quote holds one paragraph, so that no rest point lies below the root    *)
(* (session_rest_in finds none in its only child).                         *)
(***************************************************************************)
EXTENDS Integers, Sequences, FiniteSets, SequencesExt

CONSTANTS Alphabets,  \* sets of kinds of lines: a text is over one of them
          MaxLines,   \* a bound on the text
          MaxCut,     \* a bound on the lines an edit takes out
          MaxPut,     \* a bound on the lines it puts in
          MaxPasses   \* SESSION_PASSES

LineKinds == {"blank", "text", "use", "def", "fence", "comment", "quote", "name"}

ASSUME RereadAssumption ==
  /\ UNION Alphabets \subseteq LineKinds
  /\ MaxLines \in Nat /\ MaxCut \in Nat /\ MaxPut \in Nat /\ MaxPasses \in Nat \ {0}

VARIABLES alphabet, \* the kinds of lines of this session
          text,     \* the text's lines
          doc,      \* the root's children, each by what it is, its lead and its span
          reach,    \* the reach the flushed parse noted: pairs of offsets
          reader,   \* where the parse's reading stands
          edit,     \* markdown_core_edit, and what the session is at
          places,   \* where the roots lie that a refresh has yet to read, in order
          passes    \* which of them each end a reading

vars == <<alphabet, text, doc, reach, reader, edit, places, passes>>

Width == 4
LineStart(line) == Width * line
LineEnd(line) == Width * line + Width - 1

-------------------------------------------------------------------------------
(* Reading a line.  A child the reading holds has its place in the text;   *)
(* the last is open or not.                                                *)

What(kind, line) == [kind |-> kind, lines |-> <<line>>, blank |-> FALSE, named |-> FALSE, linked |-> FALSE]
Begun == [line |-> 0, children |-> << >>, open |-> FALSE, pending |-> FALSE, reach |-> {}]

OpenKind(r) == IF r.open THEN Last(r.children).is.kind ELSE "root"

\* markdown_core_parser_note_reach
Note(r, start, end) == [r EXCEPT !.reach = @ \cup {<<start, end>>}]

\* markdown_core_block_resolve_reference_link_definitions: the children a paragraph
\* yields, the definitions its lines begin with and what is left of it.
Resolved(p) ==
  LET n == Len(p.is.lines)
      defs == CHOOSE d \in 0..n : (d = n \/ p.is.lines[d + 1] # "def") /\ \A i \in 1..d : p.is.lines[i] = "def"
      line == p.start \div Width
      ref(i) == [is |-> What("ref", "def"), start |-> LineStart(line + i - 1), end |-> LineEnd(line + i - 1)]
      rest == [p EXCEPT !.is.lines = SubSeq(@, defs + 1, n), !.start = @ + LineStart(defs)]
  IN [refs |-> [i \in 1..defs |-> ref(i)], left |-> defs < n, rest |-> rest]

\* S_close_current, of a child of the root, as the line at `at' is read.
S_close_current(r, at) ==
  LET p == Last(r.children)
      noted == [Note(r, p.start, at + 1) EXCEPT !.open = FALSE, !.pending = TRUE]
      yields == Resolved(p)
  IN IF p.is.kind # "para" \/ yields.refs = << >> THEN noted
     ELSE LET cut == IF yields.left THEN Note(noted, p.start, yields.rest.start + 1) ELSE noted
          IN [cut EXCEPT !.children = Front(@) \o yields.refs \o (IF yields.left THEN <<yields.rest>> ELSE << >>),
                         !.pending = yields.left]

Closed(r, at) == IF r.open THEN S_close_current(r, at) ELSE r

\* markdown_core_parser_add_child, of the root: what is open closes first.
Opened(r, kind, line) ==
  LET at == LineStart(r.line)
      child == [is |-> What(kind, line), start |-> at, end |-> LineEnd(r.line)]
  IN [Closed(r, at) EXCEPT !.children = Append(@, child), !.open = TRUE, !.pending = FALSE]

\* markdown_core_block_add_line, to the block that is open.
Added(r, line) ==
  LET longer == [Last(r.children) EXCEPT !.is.lines = Append(@, line), !.end = LineEnd(r.line)]
  IN [r EXCEPT !.children[Len(r.children)] = longer]

\* Mutant of Looked: a reading two lines past its own is not noted.
LookedShort(r, from, last) == IF last > r.line + 2 THEN Note(r, from, LineStart(last + 1)) ELSE r

\* markdown_core_parser_lookahead_end, after a reading up to the line `last': one
\* past the line after its own is noted.
Looked(r, from, last) == IF last > r.line + 1 THEN Note(r, from, LineStart(last + 1)) ELSE r

\* The line of the text t, from the line `from' on, that is one of `kinds', or its last.
Ahead(t, from, kinds) ==
  LET at == {n \in from..(Len(t) - 1) : t[n + 1] \in kinds}
  IN IF at = {} THEN Len(t) - 1 ELSE CHOOSE n \in at : \A m \in at : n <= m

Closes(t, r) == \E n \in (r.line + 2)..Len(t) : t[n] = "comment"

\* markdown_core_block_attach_identifier_line, at a line that would open a paragraph
\* after the block quote `owner': what S_followed_by_boundary reads, which is noted
\* from the owner's start, and whether it is a boundary.
Boundary(t, r) == r.line + 1 = Len(t) \/ t[r.line + 2] = "blank"
Named(t, r) ==
  LET owner == Last(r.children)
      last == IF r.line + 1 = Len(t) THEN r.line ELSE Ahead(t, r.line + 1, LineKinds \ {"blank"})
      noted == Note(Looked(r, LineStart(r.line), last), owner.start, LineStart(last + 1))
      child == [owner EXCEPT !.is.named = TRUE, !.end = LineEnd(r.line)]
  IN IF Boundary(t, r) THEN [noted EXCEPT !.children[Len(r.children)] = child] ELSE Opened(noted, "para", "name")

Names(r, line) ==
  /\ line = "name" /\ r.children # << >>
  /\ LET is == Last(r.children).is IN is.kind = "quote" /\ ~is.named /\ is.blank

\* A line that opens no block: text of the block that takes it, or of a paragraph.
TextRead(t, r, line) ==
  IF r.open THEN Added(r, line) ELSE IF Names(r, line) THEN Named(t, r) ELSE Opened(r, "para", line)

\* comment.c, open_block: a fence line is a comment's only when a later one closes it.
CommentRead(t, r) ==
  LET looked == Looked(r, LineStart(r.line), Ahead(t, r.line + 1, {"comment"}))
  IN IF Closes(t, r) THEN Opened(looked, "comment", "comment") ELSE TextRead(t, looked, "comment")

\* add_text_to_container, of a blank line: the block before it ends with it.
BlankRead(r) ==
  LET set == IF r.open \/ r.pending THEN [r EXCEPT !.children[Len(r.children)].is.blank = TRUE] ELSE r
  IN Closed(set, LineStart(r.line))

\* S_line_machine: what the reading of the text t makes of its next line.
S_line_machine(t, r) ==
  LET line == t[r.line + 1]
      read ==
        CASE OpenKind(r) = "code" -> IF line = "fence" THEN Closed(Added(r, line), LineStart(r.line)) ELSE Added(r, line)
          [] OpenKind(r) = "comment" ->
               IF line = "comment" THEN Closed(Added(r, line), LineStart(r.line)) ELSE Added(r, line)
          [] OTHER ->
               CASE line = "blank" -> BlankRead(r)
                 [] line = "fence" -> Opened(r, "code", line)
                 [] line = "quote" -> IF OpenKind(r) = "quote" THEN Added(r, line) ELSE Opened(r, "quote", line)
                 [] line = "comment" -> CommentRead(t, r)
                 [] OTHER -> TextRead(t, r, line)
  IN [read EXCEPT !.line = r.line + 1]

\* S_close_document: what is open closes as the last line is read.
S_close_document(t, r) == Closed(r, LineStart(Len(t) - 1))

-------------------------------------------------------------------------------
(* What a flush publishes: each child's lead, from where the one before it *)
(* ends, and its span; a link of a root it completed stands when its label *)
(* is declared.                                                            *)

Uses(is) == is.kind \in {"para", "quote"} /\ \E i \in DOMAIN is.lines : is.lines[i] \in {"use", "def"}
Completed(is, declared) == [is EXCEPT !.linked = Uses(is) /\ declared]

Extents(children) ==
  [i \in DOMAIN children |->
    [is   |-> children[i].is,
     lead |-> children[i].start - (IF i = 1 THEN 0 ELSE children[i - 1].end),
     span |-> children[i].end - children[i].start]]

HasRef(d) == \E i \in DOMAIN d : d[i].is.kind = "ref"

\* The text read from its start and flushed.
Fresh(t) ==
  LET read[n \in 0..Len(t)] == IF n = 0 THEN Begun ELSE S_line_machine(t, read[n - 1])
      done == S_close_document(t, read[Len(t)])
      published == Extents(done.children)
  IN [reach |-> done.reach,
      doc   |-> [i \in DOMAIN published |-> [published[i] EXCEPT !.is = Completed(@, HasRef(published))]]]

-------------------------------------------------------------------------------
(* The rest point.                                                         *)

\* widths_start and widths_end: where the child i ends, and where it starts.
Ends(d) == LET end[i \in 0..Len(d)] == IF i = 0 THEN 0 ELSE end[i - 1] + d[i].lead + d[i].span IN end
Start(d, i) == Ends(d)[i - 1] + d[i].lead

\* widths_child: how many children are before the one before the first that ends
\* past `offset'.
widths_child(d, offset) ==
  LET end == Ends(d)
      ended == Cardinality({i \in DOMAIN d : end[i] <= offset})
  IN IF ended = 0 THEN 0 ELSE ended - 1

\* markdown_core_parser_spanned, and where the first reading that spans `point' starts.
Spans(noted, point) == {e[1] : e \in {f \in noted : f[1] < point /\ f[2] > point}}
First(starts) == CHOOSE s \in starts : \A s2 \in starts : s <= s2

\* Mutant of session_rest_root: no reading across the point moves it back.
session_rest_near(d, noted, offset) == widths_child(d, offset)

\* session_rest_root: how many children stay before the rest point of an edit that
\* begins on the line at `offset'.
session_rest_root(d, noted, offset) ==
  LET rest[at \in 0..Len(d)] ==
        IF at = 0 THEN 0
        ELSE LET start == Start(d, at + 1)
                 starts == Spans(noted, start)
             IN IF starts # {} THEN rest[widths_child(d, First(starts))]
                ELSE IF Ends(d)[at] > start THEN rest[at - 1] ELSE at
  IN rest[widths_child(d, offset)]

RestLine(d, rest) == IF rest = 0 THEN 0 ELSE Start(d, rest + 1) \div Width

-------------------------------------------------------------------------------
(* The reading of an edit.                                                 *)

Idle == [phase |-> "idle", rest |-> 0, from |-> 0, to |-> 0, delta |-> 0, next |-> 0, count |-> 0,
         resumed |-> 0, back |-> {}, kept |-> {}, whole |-> FALSE]

Init ==
  /\ alphabet \in Alphabets
  /\ text \in UNION {[1..n -> alphabet] : n \in 0..MaxLines}
  /\ doc = Fresh(text).doc /\ reach = Fresh(text).reach
  /\ reader = Begun /\ edit = Idle /\ places = << >> /\ passes = << >>

\* The child of the old tail the reading tries next, and where its line starts in
\* the new text.
Old(e) == Start(doc, e.rest + e.next + 1)
Point(e) == Old(e) + e.delta

\* S_edit_next: the next that starts past the edit, and not at the text's start.
S_edit_next(e) ==
  LET from == {n \in e.next..(e.count - 1) :
                 LET start == Start(doc, e.rest + n + 1) IN start >= e.to /\ start + e.delta > 0}
  IN [e EXCEPT !.next = IF from = {} THEN e.count ELSE First(from)]

\* markdown_core_parser_reopen: the parse put back before the child `rest', its old
\* tail and the reach of it kept aside.
Reopened(phase, rest, to, delta, whole) ==
  LET start == LineStart(RestLine(doc, rest))
      end == Ends(doc)
      stay == [i \in 1..rest |-> [is |-> doc[i].is, start |-> Start(doc, i), end |-> end[i]]]
      front == {e \in reach : e[1] < start}
  IN /\ reader' = [line |-> RestLine(doc, rest), children |-> stay, open |-> FALSE, pending |-> FALSE, reach |-> front]
     /\ edit' = S_edit_next([phase |-> phase, rest |-> rest, from |-> start, to |-> to, delta |-> delta, next |-> 0,
                             count |-> IF whole THEN 0 ELSE Len(doc) - rest, resumed |-> 0,
                             back |-> IF whole THEN {} ELSE reach \ front, kept |-> front, whole |-> whole])

\* Whether the edit reads the whole text (THE COMPACTION): it is less than half of the
\* most there was since the last that did, which is what there is, or up to twice it.
Compacts(new) == {whole \in BOOLEAN : /\ whole => Len(new) < Len(text)
                                     /\ 2 * Len(new) < Len(text) => whole}

\* markdown_core_session_edit: the lines from i up to j become `put', from the start
\* of line i, or from the end of the line before, whose ending the edit then takes.
Edit(i, j, put, early) ==
  LET new == SubSeq(text, 1, i) \o put \o SubSeq(text, j + 1, Len(text))
      edited == IF early THEN i - 1 ELSE i
      delta == LineStart(Len(put)) - LineStart(j - i)
      to == LineStart(j) - (IF early THEN 1 ELSE 0)
  IN /\ edit.phase = "idle"
     /\ j - i <= MaxCut /\ Len(new) <= MaxLines /\ (early => i > 0)
     /\ text' = new
     /\ \E whole \in Compacts(new) :
          Reopened("edit", IF whole THEN 0 ELSE session_rest_root(doc, reach, LineStart(edited)), to, delta, whole)
     /\ UNCHANGED <<alphabet, doc, reach, places, passes>>

Reading == edit.phase \in {"edit", "refresh"} /\ edit.resumed = 0

\* Where the line loop stops: the next old child's line, or the text's end.
Limit == IF edit.next < edit.count THEN Point(edit) ELSE LineStart(Len(text))

\* S_parse_source, a line of it.
ReadLine ==
  /\ Reading /\ LineStart(reader.line) < Limit /\ reader.line < Len(text)
  /\ reader' = S_line_machine(text, reader)
  /\ UNCHANGED <<alphabet, text, doc, reach, edit, places, passes>>

\* Mutant of S_resumes: what may still be named is no matter.
S_resumesAny == ~reader.open /\ Spans(edit.back, Old(edit)) = {}

\* S_resumes: the reading stands in the root, after no block a later line may write,
\* and no reading of the old text, from the rest point on, read across the line.
S_resumes ==
  /\ ~reader.open
  /\ reader.children # << >> => Last(reader.children).is.kind # "quote"
  /\ Spans(edit.back, Old(edit)) = {}

AtPoint == Reading /\ edit.next < edit.count /\ LineStart(reader.line) >= Limit /\ reader.line < Len(text)

\* S_edit_pass
Pass ==
  /\ AtPoint /\ ~(LineStart(reader.line) = Point(edit) /\ S_resumes)
  /\ edit' = S_edit_next([edit EXCEPT !.next = @ + 1])
  /\ UNCHANGED <<alphabet, text, doc, reach, reader, places, passes>>

\* S_reach_cut: the reach from `old' on, moved with the text.
Cut(back, old, delta) == {<<e[1] + delta, e[2] + delta>> : e \in {f \in back : f[1] >= old}}

\* S_splice
Splice ==
  /\ AtPoint /\ LineStart(reader.line) = Point(edit) /\ S_resumes
  /\ reader' = [reader EXCEPT !.reach = @ \cup Cut(edit.back, Old(edit), edit.delta), !.pending = FALSE]
  /\ edit' = [edit EXCEPT !.resumed = Point(edit)]
  /\ UNCHANGED <<alphabet, text, doc, reach, places, passes>>

\* The old children a splice took back: the first is moved from the end of the old
\* child before it to the end of the one the reading gave.
TakenBack(joined) ==
  LET before == Ends(doc)[edit.rest + edit.next]
      lead == before + edit.delta - joined
      tail == SubSeq(doc, edit.rest + edit.next + 1, Len(doc))
  IN [i \in DOMAIN tail |-> IF i = 1 THEN [tail[i] EXCEPT !.lead = @ + lead] ELSE tail[i]]

\* S_finish_parse: what the parse publishes when its reading ended, and its reach.
Finished ==
  LET done == IF edit.resumed > 0 THEN reader ELSE S_close_document(text, reader)
      given == Extents(done.children)
      joined == IF given = << >> THEN 0 ELSE Last(done.children).end
      tail == IF edit.resumed > 0 THEN TakenBack(joined) ELSE << >>
      whole == given \o tail
      completed(i) == edit.rest < i /\ i <= Len(given)
  IN [reach |-> done.reach, read |-> SubSeq(given, edit.rest + 1, Len(given)), stay |-> SubSeq(given, 1, edit.rest) \o tail,
      doc |-> [i \in DOMAIN whole |->
                IF completed(i) THEN [whole[i] EXCEPT !.is = Completed(@, HasRef(whole))] ELSE whole[i]]]

\* markdown_core_parser_altered_labels: whether the edit made the label declared, or
\* left it undeclared.
Altered(finished) ==
  LET gone == SubSeq(doc, edit.rest + 1, edit.rest + (IF edit.resumed > 0 THEN edit.next ELSE Len(doc) - edit.rest))
  IN (HasRef(finished.read) # HasRef(gone)) /\ ~HasRef(finished.stay)

\* markdown_core_parser_uses_of: past where each root starts that looks the label up,
\* in the children that stay.  A block quote's root starts past its prefix.
UsesOf(d, from, resumed) ==
  LET start(i) == Start(d, i) + (IF d[i].is.kind = "quote" THEN 2 ELSE 0)
      spans(s) == s < from \/ (resumed > 0 /\ s >= resumed)
  IN SetToSortSeq({start(i) + 1 : i \in {n \in DOMAIN d : Uses(d[n].is) /\ spans(start(n))}}, <)

\* The widest gaps between the places part the readings, the earlier of two as wide
\* first: whether each place is the last of its reading.
Passes(at) ==
  LET wide(n) == at[n + 1] - at[n]
      wider(m, n) == wide(m) > wide(n) \/ (wide(m) = wide(n) /\ m < n)
      cuts == {n \in 1..(Len(at) - 1) : Cardinality({m \in 1..(Len(at) - 1) : wider(m, n)}) < MaxPasses - 1}
  IN [n \in 1..Len(at) |-> n \in cuts \/ n = Len(at)]

\* The flush that ends an edit's reading, after which the labels it altered are asked
\* for, or a refresh's, which leaves the places its reading did not pass.
Flush ==
  /\ Reading => reader.line = Len(text)
  /\ edit.phase \in {"edit", "refresh"}
  /\ doc' = Finished.doc /\ reach' = Finished.reach
  /\ IF edit.phase = "edit"
     THEN LET stays == ~edit.whole /\ (edit.rest > 0 \/ edit.resumed > 0)
              at == IF stays /\ Altered(Finished) THEN UsesOf(doc', edit.from, edit.resumed) ELSE << >>
          IN places' = at /\ passes' = Passes(at)
     ELSE LET end == IF edit.resumed > 0 THEN edit.resumed ELSE LineStart(Len(text))
              left == Cardinality({n \in DOMAIN places : places[n] >= end})
          IN /\ places' = SubSeq(places, Len(places) - left + 1, Len(places))
             /\ passes' = SubSeq(passes, Len(places) - left + 1, Len(places))
  /\ edit' = [Idle EXCEPT !.phase = IF places' = << >> THEN "idle" ELSE "asked"]
  /\ reader' = Begun
  /\ UNCHANGED <<alphabet, text>>

\* session_refresh, one reading of it: the places up to the next the reading ends at
\* are read as an edit of nothing, which takes no old child back before the last.
Refresh ==
  LET last == First({n \in DOMAIN places : passes[n]})
      inside == places[1] + 1
      past == places[last] + 1
  IN /\ edit.phase = "asked"
     /\ Reopened("refresh", session_rest_root(doc, reach, LineStart(inside \div Width)), past, 0, FALSE)
     /\ places' = SubSeq(places, last + 1, Len(places))
     /\ passes' = SubSeq(passes, last + 1, Len(places))
     /\ UNCHANGED <<alphabet, text, doc, reach>>

Puts == UNION {[1..n -> alphabet] : n \in 0..MaxPut}

Next ==
  \/ /\ edit.phase = "idle"
     /\ \E i \in 0..Len(text) : \E j \in i..Len(text), put \in Puts, early \in BOOLEAN : Edit(i, j, put, early)
  \/ ReadLine \/ Pass \/ Splice \/ Flush \/ Refresh

Spec == Init /\ [][Next]_vars

-------------------------------------------------------------------------------
(* What makes an edit correct.                                             *)

\* Once an edit ended, with every reading it made again, the document is the one a
\* parse of the whole text makes: the children's kinds, places and content, what
\* a later line wrote of them and what their lookups found.
EditIsFresh == edit.phase = "idle" => doc = Fresh(text).doc

\* The reach an edit leaves, of the readings it made and of those it took back, is
\* that of a parse of the whole text: the next edit finds its rest point by it.
ReachIsFresh == edit.phase \in {"idle", "asked"} => reach = Fresh(text).reach

\* The assertion of the reopen: no reading kept before the rest point read past it.
RestUnspanned == edit.phase \in {"edit", "refresh"} => \A e \in edit.kept : e[2] <= edit.from
===============================================================================
