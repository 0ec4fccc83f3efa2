----------------------------- MODULE InlineRun ------------------------------
(***************************************************************************)
(* One inline run over a block's content (core/inlines.c with              *)
(* elements/text.c and line_break.c) and the completion of its nodes       *)
(* (core/blocks.c, elements/autolink.c): each step reads one token, from   *)
(* the elements that own its first byte in the dialect's order or as text, *)
(* and the finished run pairs its delimiters.  A run that settles lists    *)
(* the token starts before which nothing is open.  The dialect has every   *)
(* inline element but the citation.                                        *)
(***************************************************************************)
EXTENDS Opaque

\* The bytes some element terminates text at.
special_chars == {"<", ":", "w", Tick, "%", "!", "*", "_", "^", "$", "+", "=", "[", "]", "~", "\\", "&", "#", "\n"}

-----------------------------------------------------------------------------
\* A run of a rule's own byte that cannot delimit belongs to the text.
RECURSIVE find_special_char(_, _)
find_special_char(r, n0) ==
  LET Topic(n, t) == IF t.end # 0 /\ n > r.pos THEN [end |-> n, run |-> t.run] ELSE find_special_char(t.run, n + 1)
      Scanned(n, run, q) == IF delimiter_needs_stack(r, run) THEN [end |-> n, run |-> q] ELSE find_special_char(q, run.end)
      Delimits(n, run) == Scanned(n, run, IF run.ended THEN saw_end(r) ELSE r)
      Special(n, c, rules) ==
        IF n >= Len(r.in) THEN [end |-> Len(r.in), run |-> saw_end(r)]
        ELSE IF c = "#" THEN Topic(n, topic_end(r, n))
        ELSE IF rules # {} THEN Delimits(n, scan_delimiter(r, n, CHOOSE u \in rules : TRUE))
        ELSE IF n > r.pos THEN [end |-> n, run |-> r] ELSE find_special_char(r, n + 1)
      Found(n) == Special(n, At(r.in, n), delimiter_rule_for_byte(At(r.in, n)))
  IN Found(To(r.in, n0, special_chars))

\* An image's label remembers its last pipe.
embedded_record_text(r, end) ==
  LET n == Len(r.brackets)
      pipes == {i \in r.pos .. end - 1 : At(r.in, i) = "|"}
  IN IF n = 0 \/ pipes = {} THEN r
     ELSE IF r.brackets[n].kind # "image" THEN r ELSE [r EXCEPT !.brackets[n].image_pipe = Max(pipes)]

\* A slice of text: one boundary past its last whitespace, and no spaces
\* before a line ending.
text_parse(r0, end) ==
  LET white == {i \in r0.pos .. end - 1 : At(r0.in, i) \in White}
      Read(r, lit) == Leaf(r, "Text", r.pos, end, IF At(r.in, end) \in LineEnd THEN Rtrim(lit) ELSE lit)
      bounded == IF white = {} THEN r0 ELSE push_boundary(r0, Max(white) + 1)
  IN Read(SawEndIf(embedded_record_text(bounded, end), end), Slice(r0.in, r0.pos, end))

\* A backslash: before a space that no line ending follows, a token whose
\* owner decides what it reads as; before punctuation, that byte; before a
\* line ending, a hard break.
handle_backslash(r0) ==
  LET at == r0.pos
      Spaced(r, stop) ==
        Str(r, at, IF (IF stop = Len(r.in) THEN ~r.field ELSE At(r.in, stop) \in LineEnd) THEN at + 1 ELSE at + 2)
      Escape(r, next) ==
        IF next \in Punct THEN Leaf(r, "Text", at, at + 2, <<next>>)
        ELSE IF next \in LineEnd THEN push_boundary(Leaf(r, "LineBreak", at, at + 2, <<>>), at + 2)
        ELSE Str(r, at, at + 1)
      Space(stop) == Spaced(SawEndIf(r0, stop), stop)
  IN IF At(r0.in, at + 1) = " " THEN Space(Past(r0.in, at + 1, Blank)) ELSE Escape(SawEndIf(r0, at + 1), At(r0.in, at + 1))

\* A character reference: the one named entity of the models and the decimal
\* ones of one digit; what runs to the end may still become one.
EntityOf(s, at) ==
  IF Slice(s, at, at + 4) = <<"a", "m", "p", ";">> THEN [n |-> 4, lit |-> <<"&">>]
  ELSE IF At(s, at) = "#" /\ At(s, at + 1) \in Digits /\ At(s, at + 2) = ";" THEN [n |-> 3, lit |-> <<"ref">>]
  ELSE [n |-> 0, lit |-> <<>>]

handle_entity(r) ==
  LET Read(entity) ==
        IF entity.n # 0 THEN Leaf(r, "Text", r.pos, r.pos + 1 + entity.n, entity.lit)
        ELSE Str(SawEndIf(r, Past(r.in, r.pos + 1, Alnum \cup {"#"})), r.pos, r.pos + 1)
  IN Read(EntityOf(r.in, r.pos + 1))

\* A line ending takes the spaces of the next line along; two spaces before
\* it make the break a hard one.
handle_newline(r0) ==
  LET at == r0.pos
      past == Past(r0.in, at + 1, Blank)
      hard == at > 1 /\ At(r0.in, at - 1) = " " /\ At(r0.in, at - 2) = " "
      r == SawEndIf(push_boundary(r0, at + 1), past)
  IN AppendNode([r EXCEPT !.pos = past], make_literal(IF hard THEN "LineBreak" ELSE "SoftBreak", at, at, <<>>))

-----------------------------------------------------------------------------
\* Two elements own `~`: a second one makes it the strikethrough's.
match_tilde(r0) ==
  LET r == SawEndIf(r0, r0.pos + 1)
  IN match_delimiter(r, IF At(r.in, r.pos + 1) = "~" THEN "strikethrough" ELSE "subscript")

Took(r, m) == m.pos # r.pos \/ m.nodes # r.nodes

\* The elements that own the byte, asked in the dialect's order.
try_elements(r) ==
  LET c == At(r.in, r.pos)
      OrBrace(m) == IF Took(r, m) THEN m ELSE handle_pointy_brace(m)
      OrColon(m) == IF Took(r, m) THEN m ELSE match_colon_directive(m)
      OrSuperscript(m) == IF Took(r, m) THEN m ELSE match_delimiter(m, "superscript")
      OrBackslash(m) == IF Took(r, m) THEN m ELSE handle_backslash(m)
      OrBracket(m) == IF Took(r, m) THEN m ELSE IF c = "!" THEN match_embedded(m) ELSE match_bracket(m)
      OrMore(m) == IF c = "<" THEN OrBrace(m) ELSE IF c = ":" THEN OrColon(m) ELSE m
  IN IF c = Tick THEN handle_backticks(r)
     ELSE IF c \in {"*", "_", "=", "+"} THEN match_delimiter(r, CHOOSE u \in delimiter_rule_for_byte(c) : TRUE)
     ELSE IF c = "\n" THEN handle_newline(r)
     ELSE IF c \in {"<", ":", "w"} THEN OrMore(match_autolink(r))
     ELSE IF c = "%" THEN match_comment(r)
     ELSE IF c \in {"!", "["} THEN OrBracket(match_cross_link(r))
     ELSE IF c = "]" THEN match_bracket(r)
     ELSE IF c = "^" THEN OrSuperscript(match_note(r))
     ELSE IF c = "~" THEN match_tilde(r)
     ELSE IF c = "$" THEN match_formula(r)
     ELSE IF c = "\\" THEN OrBackslash(match_formula(r))
     ELSE IF c = "&" THEN handle_entity(r)
     ELSE IF c = "#" THEN match_topic(r)
     ELSE r

RECURSIVE Shift(_, _)
Shift(nodes, by) ==
  [i \in DOMAIN nodes |-> [nodes[i] EXCEPT !.start = @ + by, !.end = @ + by, !.kids = Shift(@, by)]]

push_boundary_if(r, white) == IF white THEN push_boundary(r, r.pos) ELSE r

\* One token read, with the fields it owns: a directive's label is a run of
\* its own, read before the token after it.
RECURSIVE ReadAll(_), parse_inline(_)
parse_inline(r) ==
  LET Text(found) == text_parse(found.run, found.end)
      Read(tried) == IF Took(r, tried) THEN tried ELSE Text(find_special_char(tried, r.pos))
      Solid(q, solid) == IF solid = {} THEN q ELSE [q EXCEPT !.nonblank_end = Max(solid) + 1]
      Done(q) == Solid(q, {i \in r.pos .. q.pos - 1 : At(r.in, i) \notin Blank})
      Owned(q, label, by) ==
        push_boundary_if([q EXCEPT !.nodes[Len(q.nodes)].kids = Shift(label.nodes, by), !.lookups = label.lookups], label.delims # <<>>)
      WithLabel(q, at) ==
        Owned(q, ReadAll([state_from_buf(Slice(r.in, at[1], at[2]), r.defs, 0, FALSE)
                            EXCEPT !.lookups = q.lookups, !.field = TRUE]), at[1])
      Fields(q, last) ==
        IF last.kind # "Directive" \/ last.lit = <<>> \/ last.start < r.pos THEN q ELSE WithLabel(q, last.lit)
      Finish(q) == IF q.nodes = <<>> THEN q ELSE Fields(q, q.nodes[Len(q.nodes)])
  IN Finish(Done(Read(try_elements(r))))

holds_none_open(r) == r.pos >= r.opaque_end /\ r.brackets = <<>>

\* A token start with no end read before it at which nothing is open, with
\* the number of lookups made before it.
settle_start(r) == [r EXCEPT !.starts = Append(@, [start |-> r.pos, misses |-> Len(r.lookups)])]

\* Where a settling run's token starts; any other lists no start.
S_parse_settling(r) ==
  LET Token(q) == IF q.undecided = Never /\ holds_none_open(q) THEN settle_start(q) ELSE q
  IN Token([r EXCEPT !.token = r.pos])

\* The run read to its end and its delimiters paired.
ReadAll(r) == IF r.pos >= Len(r.in) THEN S_process_delimiters(r) ELSE ReadAll(parse_inline(S_parse_settling(r)))

parse_inlines(in, defs) == ReadAll(state_from_buf(in, defs, 0, FALSE))
parse_inlines_settle(in, defs, from) == ReadAll(state_from_buf(in, defs, from, TRUE))

-----------------------------------------------------------------------------
\* The completion of the nodes a run leaves.  An escaped space is the token
\* of two bytes, which reads as one that does not break inside a word.
complete_node(node, word) ==
  IF node.kind = "Text" /\ node.lit = <<"\\", " ">> /\ word THEN [node EXCEPT !.lit = <<"nbsp">>] ELSE node

\* Where each byte of a Text's literal comes from: a copy byte for byte, and
\* a decoded one all from the whole.
ContentMap(in, node) ==
  [i \in DOMAIN node.lit |-> IF Slice(in, node.start, node.start + Len(node.lit)) = node.lit
                             THEN <<node.start + i - 1, node.start + i>> ELSE <<node.start, node.end>>]

\* The Texts from `node` on become one, which ends where the last of them
\* that has a byte ends.
S_consolidate_text(in, nodes, i, word) ==
  LET Merge(parts, full, n) ==
        [next |-> n + 1,
         map |-> FlattenSeq([k \in DOMAIN parts |-> ContentMap(in, parts[k])]),
         text |-> [parts[1] EXCEPT !.id = 0, !.lit = FlattenSeq([k \in DOMAIN parts |-> parts[k].lit]),
                                   !.end = IF full = {} THEN @ ELSE parts[Max(full)].end]]
      Parts(parts, n) == Merge(parts, {k \in 2 .. Len(parts) : parts[k].lit # <<>>}, n)
      Through(n) == Parts([k \in 1 .. n - i + 1 |-> complete_node(nodes[i + k - 1], word)], n)
      last(j) == (\A k \in i .. j : nodes[k].kind = "Text") /\ (j = Len(nodes) \/ nodes[j + 1].kind # "Text")
  IN Through(CHOOSE j \in i .. Len(nodes) : last(j))

\* An address scheme ending at `colon`, with no letter or digit before it.
Protocols == {<<"m", "a", "i", "l", "t", "o">>, <<"x", "m", "p", "p">>}
validate_protocol(s, base, colon) ==
  {p \in Protocols : /\ colon - Len(p) >= base /\ Slice(s, colon - Len(p), colon) = p
                     /\ colon - Len(p) = base \/ At(s, colon - Len(p) - 1) \notin Alnum}

RECURSIVE Rewind(_, _, _, _)
Rewind(s, base, i, xmpp) ==
  LET Scheme(p) ==
        IF p = {} THEN [from |-> i, xmpp |-> xmpp] ELSE Rewind(s, base, i - 1, xmpp \/ \E q \in p : Len(q) = 4)
  IN IF i <= base THEN [from |-> base, xmpp |-> xmpp]
     ELSE IF At(s, i - 1) \in Alnum \cup {".", "+", "-", "_"} THEN Rewind(s, base, i - 1, xmpp)
     ELSE Scheme(IF At(s, i - 1) = ":" THEN validate_protocol(s, base, i - 1) ELSE {})

RECURSIVE Domain(_, _, _, _)
Domain(s, i, np, xmpp) ==
  LET c == At(s, i)
  IN IF c \in Alnum \cup {"-", "_"} \/ (c = "/" /\ xmpp) THEN Domain(s, i + 1, np, xmpp)
     ELSE IF c = "." /\ At(s, i + 1) \in Alnum THEN Domain(s, i + 1, np + 1, xmpp)
     ELSE [end |-> i, np |-> np]

\* The addresses of the literal `s` from `base` on, each its first byte and
\* its end: a second `@` starts over with what the first one's domain counted.
RECURSIVE Addresses(_, _, _, _, _)
Addresses(s, base, at, np0, xmpp0) ==
  LET Again(b) == Addresses(s, b, To(s, b, {"@"}), 0, FALSE)
      Ends(from, end) == IF end = at THEN Again(at + 1) ELSE <<<<from, end>>>> \o Again(end)
      Reach(back, domain) ==
        IF At(s, domain.end) = "@" THEN Addresses(s, at + 1, domain.end, domain.np, back.xmpp)
        ELSE IF domain.end - at < 2 \/ domain.np = 0 \/ At(s, domain.end - 1) \notin Letters \cup {"."} THEN Again(domain.end)
        ELSE Ends(back.from, autolink_delim(s, at, domain.end))
      Back(back) == IF back.from = at THEN Again(at + 1) ELSE Reach(back, Domain(s, at + 1, np0, back.xmpp))
  IN IF at >= Len(s) THEN <<>> ELSE Back(Rewind(s, base, at, xmpp0))

\* A Text outside a link around the addresses it holds.
\* Mutant: the place of a part after the first starts with the whole.
FragmentFromStart(text, map, a, b) == [text EXCEPT !.lit = Slice(text.lit, a, b), !.end = map[b][2]]
Fragment(text, map, a, b) == [text EXCEPT !.lit = Slice(text.lit, a, b), !.start = map[a + 1][1], !.end = map[b][2]]
Piece(text, map, a, b) == IF a = b THEN <<>> ELSE <<Fragment(text, map, a, b)>>
LinkAround(part) == [Container("Link", part.start, part.end, <<part>>) EXCEPT !.id = 0]
Around(text, map, found) ==
  IF found = <<>> THEN <<text>>
  ELSE FlattenSeq([i \in DOMAIN found |->
                     Piece(text, map, IF i = 1 THEN 0 ELSE found[i - 1][2], found[i][1])
                     \o <<LinkAround(Fragment(text, map, found[i][1], found[i][2]))>>])
       \o Piece(text, map, Last(found)[2], Len(text.lit))
postprocess_text(text, map) == Around(text, map, Addresses(text.lit, 0, To(text.lit, 0, {"@"}), 0, FALSE))

\* The completion walk over siblings: `link` is the walk's word that a Link
\* sets as it is entered and clears as it is left.
RECURSIVE Complete(_, _, _, _, _)
Complete(in, nodes, i, word, link) ==
  LET Then(done, rest) == [nodes |-> done \o rest.nodes, link |-> rest.link]
      Texts(text, map) == IF text.lit = <<>> THEN <<>> ELSE IF link THEN <<text>> ELSE postprocess_text(text, map)
      One(one) == Then(Texts(one.text, one.map), Complete(in, nodes, one.next, word, link))
      Left(node, below) == IF node.kind = "Link" THEN FALSE ELSE IF node.kind = "Directive" THEN link ELSE below.link
      Below(node, below) ==
        Then(<<[node EXCEPT !.kids = below.nodes, !.id = 0]>>, Complete(in, nodes, i + 1, word, Left(node, below)))
      Node(node) ==
        IF node.kind = "Text" THEN One(S_consolidate_text(in, nodes, i, word))
        ELSE Below(node, Complete(in, node.kids, 1, word \/ node.kind \in {"Superscript", "Subscript"},
                                  (link \/ node.kind = "Link") /\ node.kind # "Directive"))
  IN IF i > Len(nodes) THEN [nodes |-> <<>>, link |-> link] ELSE Node(nodes[i])

completed(in, nodes) == Complete(in, nodes, 1, FALSE, FALSE).nodes
=============================================================================
