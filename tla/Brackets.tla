------------------------------ MODULE Brackets ------------------------------
(***************************************************************************)
(* The bracket algorithm every bracketed inline shares (elements/link.c,   *)
(* span.c, embedded.c, footnote.c): openers stand on a stack as Text, and  *)
(* a `]` gives the innermost one's content to the first construct that     *)
(* claims it: an inline note, a link or image with an explicit tail, a     *)
(* span, a shortcut reference, a footnote call, or none.  A definition is  *)
(* a label in `defs`, with its kind; labels compare trimmed.               *)
(***************************************************************************)
EXTENDS Delimiters

Scan == INSTANCE Scanners

MaxLinkLabelLength == 1000 \* MAX_LINK_LABEL_LENGTH, past every modelled content

-----------------------------------------------------------------------------
\* The attribute container's recogniser (elements/attributes.c): a walk forward
\* from a brace, member by member, to the brace that closes it.  The code's
\* walk keeps a memo of what it found from every boundary and every
\* assignment, shared by all the containers one input is asked about: the walk
\* is asked with a memo and answers with the memo it leaves.
Invalid == -1
Unasked == 0

Quotes == {"\"", "'"}
MemberNameEnd == White \cup {"}", "{", "="} \cup Quotes
ValueEnd == White \cup {"}"}

member_boundary(s, p) == p >= Len(s) \/ At(s, p) \in ValueEnd
scan_name(s, at) == To(s, at, MemberNameEnd)

\* The closer of the quote at `open`, the end when a blank line or the end
\* comes first; `out` when it was the end.
RECURSIVE QuoteFrom(_, _, _)
QuoteFrom(s, at, quote) ==
  IF at >= Len(s) THEN [at |-> Len(s), out |-> TRUE]
  ELSE IF At(s, at) = quote THEN [at |-> at, out |-> FALSE]
  ELSE IF Escaped(s, at) THEN QuoteFrom(s, at + 2, quote)
  ELSE IF At(s, at) \notin LineEnd THEN QuoteFrom(s, at + 1, quote)
  ELSE LET next == Past(s, at + 1, Blank)
       IN IF At(s, next) \in LineEnd THEN [at |-> Len(s), out |-> FALSE] ELSE QuoteFrom(s, next, quote)

quote_close(s, open) == QuoteFrom(s, open + 1, At(s, open))

\* The end of the unquoted value at `at`, and the assignment signs stepped
\* over whose value is the same suffix.
RECURSIVE unquoted_end(_, _, _)
unquoted_end(s, at, passed) ==
  IF at >= Len(s) \/ At(s, at) \in ValueEnd THEN [at |-> at, passed |-> passed]
  ELSE IF Escaped(s, at) THEN unquoted_end(s, at + 2, passed)
  ELSE unquoted_end(s, at + 1,
         IF At(s, at) = "=" /\ at + 1 < Len(s) /\ At(s, at + 1) \notin Quotes THEN passed \cup {at} ELSE passed)

\* The separator from a boundary: spaces and tabs with at most one line
\* ending, Invalid before a blank line.
Separated(s, b) ==
  LET After(a) == IF a > Past(s, b, Blank) /\ At(s, a) \in LineEnd THEN Invalid ELSE a IN After(SkipSpnl(s, b))

\* The walk's step from the value after the assignment sign at `e`: where the
\* next boundary is, the signs it passed and whether the end cut it short.
BareValue(s, e, out) == [out |-> out] @@ unquoted_end(s, e + 1, {})
QuotedValue(s, e, close) ==
  IF close.at + 1 < Len(s) THEN [at |-> close.at + 1, passed |-> {}, out |-> close.out]
  ELSE BareValue(s, e, close.out \/ close.at + 1 = Len(s))
ValueFrom(s, e) ==
  IF At(s, e + 1) \in Quotes THEN QuotedValue(s, e, quote_close(s, e + 1)) ELSE BareValue(s, e, FALSE)

\* The answer of the walk from boundary `b0`, with the positions on its
\* chain; `known` is the memo, which ends a walk that reaches it.
RECURSIVE Walk(_, _, _, _, _), Member(_, _, _, _, _), Valued(_, _, _, _, _, _), Assigned(_, _, _, _, _, _)
WalkFound(answer, chain, out) == [answer |-> answer, chain |-> chain, out |-> out]

Walk(s, known, b0, chain, out) ==
  IF b0 >= Len(s) THEN WalkFound(Invalid, chain, out) ELSE Member(s, known, Separated(s, b0), chain, out)

\* The member at boundary `b`: an unnumbered mark, an anchor or a class, or a
\* name.
Member(s, known, b, chain, out) ==
  LET c == At(s, b)
  IN IF b = Invalid \/ b >= Len(s) THEN WalkFound(Invalid, chain, out)
     ELSE IF c # "=" /\ known[b] # Unasked THEN WalkFound(known[b], chain, out)
     ELSE IF c = "}" THEN WalkFound(b + 1, chain \cup {b}, out)
     ELSE IF c \in {"=", "{"} \cup Quotes THEN WalkFound(Invalid, chain \cup {b}, out)
     ELSE IF c = "-" /\ member_boundary(s, b + 1) THEN Walk(s, known, b + 1, chain \cup {b}, out)
     ELSE IF c \notin {"#", "."} THEN Assigned(s, known, scan_name(s, b + 1), b, chain, out)
     ELSE IF b + 1 < Len(s) /\ At(s, b + 1) \notin MemberNameEnd THEN Walk(s, known, scan_name(s, b + 1), chain \cup {b}, out)
     ELSE WalkFound(Invalid, chain \cup {b}, out)

\* The name that ends at `e`, alone or with a value.
Assigned(s, known, e, b, chain, out) ==
  IF e >= Len(s) \/ At(s, e) # "="
  THEN IF member_boundary(s, e) THEN Walk(s, known, e, chain \cup {b}, out) ELSE WalkFound(Invalid, chain \cup {b}, out)
  ELSE IF known[e] # Unasked THEN WalkFound(known[e], chain \cup {b}, out)
  ELSE Valued(s, known, ValueFrom(s, e), e, chain \cup {b}, out)

Valued(s, known, value, e, chain, out) ==
  Walk(s, known, value.at, chain \cup {e} \cup {p \in value.passed : known[p] = Unasked}, out \/ value.out)

NoMemo(s) == [p \in 0 .. Len(s) |-> Unasked]

\* The container at `start` with the memo `known`: its end, 0 when it does
\* not close, and the memo with the walk's answer written along its chain.
Answered(s, known, w) ==
  [end |-> IF w.answer = Invalid THEN 0 ELSE w.answer,
   known |-> [p \in 0 .. Len(s) |-> IF p \in w.chain THEN w.answer ELSE known[p]],
   out |-> w.out]
attributes_end(s, known, start) ==
  IF At(s, start) # "{" THEN [end |-> 0, known |-> known, out |-> FALSE]
  ELSE Answered(s, known, Walk(s, known, start + 1, {}, FALSE))

-----------------------------------------------------------------------------
\* The attribute container at `start` of the run's input, read with the
\* run's memo: its end, 0 when there is none, and the run after asking.
AskedAttributes(r, got) ==
  LET out == r.ran_out \/ got.out
      asked == [r EXCEPT !.known = got.known, !.ran_out = out]
  IN [end |-> got.end, run |-> IF got.end = 0 \/ out THEN saw_end(asked) ELSE asked]

state_attributes(r, start) ==
  IF start >= Len(r.in) THEN [end |-> 0, run |-> saw_end(r)]
  ELSE IF At(r.in, start) # "{" THEN [end |-> 0, run |-> r]
  ELSE AskedAttributes(r, attributes_end(r.in, r.known, start))

\* A container right after a construct is the construct's.
Attach(got) == IF got.end = 0 THEN got.run ELSE [got.run EXCEPT !.pos = got.end]
attach_inline_attributes(r) == Attach(state_attributes(r, r.pos))

-----------------------------------------------------------------------------
reference_label_length(s, from) == ToUnescaped(s, from, {"[", "]"}) - from

\* The label written at the run's position: the offset past its `]` and its
\* bytes, or nothing, and the run after looking.
link_label(r) ==
  LET end == r.pos + 1 + reference_label_length(r.in, r.pos + 1)
      looked == IF At(r.in, r.pos) = "[" THEN SawEndIf(r, end) ELSE SawEndIf(r, r.pos)
  IN IF At(r.in, r.pos) = "[" /\ At(r.in, end) = "]" /\ end - r.pos - 1 <= MaxLinkLabelLength
     THEN [found |-> TRUE, end |-> end + 1, label |-> Trim(Slice(r.in, r.pos + 1, end)), run |-> looked]
     ELSE [found |-> FALSE, end |-> r.pos, label |-> <<>>, run |-> looked]

\* The length of the destination at `i`, -1 when there is none; the end of
\* the input ends no destination.
RECURSIVE BareUrl(_, _, _)
BareUrl(s, i, depth) ==
  IF i >= Len(s) THEN -1
  ELSE IF Escaped(s, i) THEN BareUrl(s, i + 2, depth)
  ELSE IF At(s, i) = "(" THEN (IF depth = 32 THEN -1 ELSE BareUrl(s, i + 1, depth + 1))
  ELSE IF At(s, i) = ")" THEN (IF depth = 0 THEN i ELSE BareUrl(s, i + 1, depth - 1))
  ELSE IF At(s, i) \in White THEN i ELSE BareUrl(s, i + 1, depth)

manual_scan_link_url_2(s, from) ==
  LET end == BareUrl(s, from, 0)
  IN IF At(s, from) \in White \/ end = -1 THEN -1 ELSE end - from

manual_scan_link_url(s, from) ==
  LET stop == ToUnescaped(s, from + 1, {">", "<", "\n"})
  IN IF At(s, from) # "<" THEN manual_scan_link_url_2(s, from)
     ELSE IF At(s, stop) # ">" \/ stop + 1 >= Len(s) THEN -1 ELSE stop + 1 - from

-----------------------------------------------------------------------------
\* A lookup, recorded with what it found.
find_definition(r, kind, label) ==
  LET found == <<kind, Trim(label)>> \in r.defs
  IN [found |-> found, run |-> [r EXCEPT !.lookups = Append(@, [kind |-> kind, label |-> Trim(label), found |-> found])]]

\* The destination and title after a `(`: the offset past the `)`, 0 when it
\* is none, and whether the end cut it short.
ClosedAt(s, starttitle, endtitle, endall) ==
  [end |-> IF At(s, endall) = ")" THEN endall + 1 ELSE 0,
   cut |-> endall >= Len(s) \/ (endtitle = starttitle /\ At(s, starttitle) \in {"\"", "'", "("})]
TitleTo(s, starttitle, endtitle) ==
  ClosedAt(s, starttitle, endtitle, IF endtitle = starttitle THEN starttitle ELSE SkipSpnl(s, endtitle))
TitleFrom(s, endurl, starttitle) ==
  TitleTo(s, starttitle, IF starttitle = endurl THEN starttitle ELSE starttitle + Scan!scan_link_title(s, starttitle))
UrlOf(s, starturl, n) ==
  IF n = -1 THEN [end |-> 0, cut |-> TRUE] ELSE TitleFrom(s, starturl + n, SkipSpnl(s, starturl + n))
UrlFrom(s, starturl) == UrlOf(s, starturl, manual_scan_link_url(s, starturl))

\* The label after the bracket, or the bracket's own content, looked up.
Looked(tail, end, look) ==
  [match |-> IF ~look.found THEN "unmatched" ELSE IF tail.found THEN "explicit" ELSE "shortcut",
   tailed |-> tail.found, run |-> [look.run EXCEPT !.pos = end]]
Labelled(r, op, allowed, tail) ==
  LET own == (~tail.found \/ tail.label = <<>>) /\ ~op.bracket_after
      end == IF tail.found THEN tail.end ELSE r.pos
  IN IF allowed /\ (tail.found \/ own)
     THEN Looked(tail, end, find_definition(tail.run, "reference", IF own THEN Slice(r.in, op.position, r.pos - 1) ELSE tail.label))
     ELSE [match |-> "unmatched", tailed |-> tail.found, run |-> [tail.run EXCEPT !.pos = end]]

\* The link or image the `]` before `r.pos` may close: explicit with a
\* destination or a label of its own, a shortcut, or none.
Recognized(r0, op, allowed, url) ==
  LET Reference(r) == Labelled(r, op, allowed, link_label(r))
      Read(r) == IF url.end # 0 THEN [match |-> "explicit", tailed |-> TRUE, run |-> [r EXCEPT !.pos = url.end]] ELSE Reference(r)
  IN Read(IF url.cut THEN saw_end(r0) ELSE r0)
Admitted(r, op, allowed) ==
  Recognized(r, op, allowed, IF allowed /\ At(r.in, r.pos) = "(" THEN UrlFrom(r.in, SkipSpnl(r.in, r.pos + 1))
                             ELSE [end |-> 0, cut |-> allowed /\ r.pos >= Len(r.in)])
link_recognize(r, op) == Admitted(r, op, op.kind = "image" \/ ~r.no_link_openers)

pop_bracket(r) == [r EXCEPT !.brackets = SubSeq(@, 1, Len(@) - 1)]

\* The content of the opener, what follows its Text, becomes `node`'s, which
\* stands where the Text stood; an image's opener may keep its `!`.
Claim(r, op, node, keep) ==
  LET i == NodeAt(r, op.node)
      left == IF keep THEN <<[r.nodes[i] EXCEPT !.lit = SubSeq(@, 1, 1), !.end = r.nodes[i].start + 1]>> ELSE <<>>
  IN [r EXCEPT !.nodes = SubSeq(@, 1, i - 1) \o left \o <<node>>]

Content(r, op) == SubSeq(r.nodes, NodeAt(r, op.node) + 1, Len(r.nodes))

Container(kind, start, end, kids) ==
  [kind |-> kind, id |-> start, start |-> start, end |-> end, lit |-> <<>>, kids |-> kids]

\* A suffix of digits, alone or after the label's last pipe, is an image's
\* dimensions: it leaves the last Text, which it belongs to.
parse_dimensions(s, from, to) ==
  /\ from < to /\ At(s, from) \in Digits \ {"0"} /\ At(s, from - 1) \notin White
  /\ LET x == Past(s, from, Digits) IN
       x >= to \/ (At(s, x) = "x" /\ At(s, x + 1) \in Digits \ {"0"} /\ x + 1 < to /\ Past(s, x + 1, Digits) >= to)

apply_image_dimensions(r, op, kids, end) ==
  LET suffix == IF op.image_pipe >= 0 THEN op.image_pipe ELSE op.position
      from == suffix + (IF op.image_pipe >= 0 THEN 1 ELSE 0)
      n == Len(kids)
      rest == Len(kids[n].lit) - (end - suffix)
  IN IF ~parse_dimensions(r.in, from, end) THEN kids
     ELSE IF rest = 0 THEN SubSeq(kids, 1, n - 1)
     ELSE [kids EXCEPT ![n].lit = SubSeq(@, 1, rest), ![n].end = suffix]

\* Once its content's delimiters have paired, the opener's bracket is `kind`.
Close(paired, op, kind, start, end, keep) ==
  pop_bracket(Claim(paired, op, Container(kind, start, end, Content(paired, op)), keep))

ImageCut(r, op, kids, end) ==
  [r EXCEPT !.nodes = SubSeq(@, 1, Len(@) - Len(kids)) \o apply_image_dimensions(r, op, kids, end)]

CommitLink(r, op, start, initial) ==
  IF op.kind = "image"
  THEN Close(process_delimiters(ImageCut(r, op, Content(r, op), initial - 1), op.position), op, "Embedded", start, r.pos, FALSE)
  ELSE [Close(process_delimiters(r, op.position), op, "Link", start, r.pos, FALSE) EXCEPT !.no_link_openers = TRUE]

link_commit(r, op, tailed, initial) ==
  CommitLink(IF tailed THEN attach_inline_attributes(r) ELSE r, op, r.nodes[NodeAt(r, op.node)].start, initial)

\* A container right after the `]` makes the bracket a span; an image's `!`
\* stays as text before it.
span_close(r, op, end) ==
  Close(process_delimiters([r EXCEPT !.pos = end], op.position), op, "Span", op.position - 1, end, op.kind = "image")

NoteOf(restored, op) ==
  IF restored.nonblank_end <= op.position
  THEN AppendNode(pop_bracket(restored), make_str(restored, restored.pos - 1, restored.pos - 1))
  ELSE Close(process_delimiters(restored, op.position), op, "Note", op.position - 2, restored.pos, FALSE)
close_inline_footnote(r, op) == NoteOf([r EXCEPT !.no_link_openers = op.outer], op)

\* `[^label]` calls a footnote the document defines: the first node of its
\* content is a Text the caret begins.
CallsFootnote(r, op) ==
  LET kids == Content(r, op)
  IN /\ kids # <<>> /\ kids[1].kind = "Text"
     /\ At(r.in, op.position) = "^"
     /\ Len(kids[1].lit) > 1 \/ Len(kids) > 1
     /\ r.pos - op.position >= 2

FootnoteCall(paired, op) ==
  pop_bracket(Claim(paired, op, Container("Call", op.position - 1, paired.pos, <<>>), op.kind = "image"))
footnote_call(r, op) == FootnoteCall(process_delimiters(r, op.position), op)

\* No construct claims the bracket: the `]` is text.
NoMatch(r, initial) == AppendNode(pop_bracket([r EXCEPT !.pos = initial]), make_str(r, initial - 1, initial - 1))

CallOr(r, op, initial, call) == IF call.found THEN footnote_call(call.run, op) ELSE NoMatch(call.run, initial)

Spanned(op, link, span, initial) ==
  IF link.match = "explicit" THEN link_commit(link.run, op, link.tailed, initial)
  ELSE IF span.end # 0 THEN span_close(span.run, op, span.end)
  ELSE IF link.match = "shortcut" THEN link_commit(span.run, op, link.tailed, initial)
  ELSE IF ~CallsFootnote([span.run EXCEPT !.pos = initial], op) THEN NoMatch(span.run, initial)
  ELSE CallOr(span.run, op, initial, find_definition(span.run, "footnote", Slice(span.run.in, op.position + 1, initial - 1)))

Claimed(op, link, initial) == Spanned(op, link, state_attributes([link.run EXCEPT !.pos = initial], initial), initial)

handle_close_bracket(r0) ==
  LET r == [r0 EXCEPT !.pos = @ + 1]
      op == Last(r0.brackets)
  IN IF r0.brackets = <<>> THEN AppendNode(r, make_str(r0, r0.pos, r0.pos))
     ELSE IF op.kind = "footnote" THEN close_inline_footnote(r, op)
     ELSE Claimed(op, link_recognize(r, op), r.pos)

push_bracket(r, kind, node) ==
  LET n == Len(r.brackets)
      under == IF n = 0 THEN r.brackets ELSE [r.brackets EXCEPT ![n].bracket_after = TRUE]
  IN [r EXCEPT !.brackets = Append(under, [kind |-> kind, node |-> node, position |-> r.pos, image_pipe |-> -1,
                                            outer |-> r.no_link_openers, bracket_after |-> FALSE]),
               !.no_link_openers = IF kind = "image" THEN @ ELSE FALSE]

\* An opener of `width` bytes at the run's position, its Text on the stack.
OpenBracket(r, kind, width) ==
  LET at == [r EXCEPT !.pos = @ + width]
  IN push_bracket(AppendNode(at, make_str(r, r.pos, r.pos + width - 1)), kind, r.pos)

match_bracket(r) == IF At(r.in, r.pos) = "]" THEN handle_close_bracket(r) ELSE OpenBracket(r, "link", 1)

\* `![` opens an image unless a caret makes it a call after a `!`.
match_embedded(r) ==
  LET looked == IF At(r.in, r.pos + 1) = "[" THEN SawEndIf(r, r.pos + 2) ELSE SawEndIf(r, r.pos + 1)
  IN IF At(r.in, r.pos + 1) = "[" /\ At(r.in, r.pos + 2) # "^" THEN OpenBracket(looked, "image", 2)
     ELSE AppendNode([looked EXCEPT !.pos = @ + 1], make_str(r, r.pos, r.pos))

\* `^[` opens an inline note; any other caret is left to the superscript.
match_note(r) == IF At(r.in, r.pos + 1) = "[" THEN OpenBracket(r, "footnote", 2) ELSE SawEndIf(r, r.pos + 1)
=============================================================================
