------------------------------- MODULE Opaque -------------------------------
(***************************************************************************)
(* The inline tokens whose bodies no other inline reads: code spans, HTML, *)
(* comments, autolinks, formulas, cross links, topics and text directives  *)
(* (elements/code.c, html.c, comment.c, autolink.c, formula.c,             *)
(* cross_link.c, topic.c, directive.c).  A matcher answers the run after   *)
(* it: one whose position it left alone matched nothing.  What a search    *)
(* that failed leaves in the run's record, so that a later one need not    *)
(* search again, is kept as the code keeps it.                             *)
(***************************************************************************)
EXTENDS Brackets

Leaf(r, kind, from, to, lit) == AppendNode([r EXCEPT !.pos = to], make_literal(kind, from, to - 1, lit))
Str(r, from, to) == AppendNode([r EXCEPT !.pos = to], make_str(r, from, to - 1))

-----------------------------------------------------------------------------
\* The closer of a code span of `n` backquotes after `from`: the run's index
\* of the last run of each length, and that a scan reached the end, answer a
\* length whose last run lies behind.
TickRuns(s, from) ==
  {<<i, Past(s, i, {Tick}) - i>> : i \in {j \in from .. Len(s) - 1 : At(s, j) = Tick /\ (j = from \/ At(s, j - 1) # Tick)}}

ClosingTicks(r, from, n, runs) ==
  LET closers == {run[1] : run \in {x \in runs : x[2] = n}}
      passed == {run \in runs : closers = {} \/ run[1] <= Min(closers)}
      LastOf(m) == Max({run[1] : run \in {x \in passed : x[2] = m}})
      noted == [r EXCEPT !.ticks = [m \in DOMAIN r.ticks \cup {run[2] : run \in passed} |->
                                      IF \E run \in passed : run[2] = m THEN LastOf(m) ELSE r.ticks[m]]]
      Found(end) == [end |-> end, run |-> SawEndIf(noted, end)]
  IN IF closers = {} THEN [end |-> 0, run |-> saw_end([noted EXCEPT !.scanned = TRUE])] ELSE Found(Min(closers) + n)

\* Mutant: a scan that reached the end answers every length.
NoneOfAnyLength(r, from, n) == r.scanned
KnownNone(r, from, n) == r.scanned /\ (IF n \in DOMAIN r.ticks THEN r.ticks[n] ELSE 0) <= from

scan_to_closing_backticks(r, from, n) ==
  IF KnownNone(r, from, n) THEN [end |-> 0, run |-> r]
  ELSE ClosingTicks(r, from, n, TickRuns(r.in, from))

\* Line endings are spaces, and one space goes from each end of what is not
\* all spaces.
S_normalize_code(lit) ==
  LET flat == [i \in DOMAIN lit |-> IF lit[i] \in LineEnd THEN " " ELSE lit[i]]
  IN IF (\E i \in DOMAIN lit : lit[i] # " ") /\ flat[1] = " " /\ Last(flat) = " "
     THEN SubSeq(flat, 2, Len(flat) - 1) ELSE flat

CodeSpan(r, start, n, got) ==
  IF got.end = 0 THEN Str(got.run, r.pos, start)
  ELSE attach_inline_attributes(Leaf(got.run, "Code", r.pos, got.end, S_normalize_code(Slice(r.in, start, got.end - n))))

handle_backticks(r) ==
  LET From(start) == CodeSpan(r, start, start - r.pos, scan_to_closing_backticks(SawEndIf(r, start), start, start - r.pos))
  IN From(Past(r.in, r.pos, {Tick}))

-----------------------------------------------------------------------------
\* The width of a closer at `at`, 0 for none, and of the unit there.
scan_closer(s, at) == IF At(s, at) = "%" /\ At(s, at + 1) = "%" THEN 2 ELSE 0
FormulaCloses(rule, s, at) ==
  IF rule \in {"paren", "square"}
  THEN IF Slice(s, at, at + 3) = <<"\\", "\\", IF rule = "paren" THEN ")" ELSE "]">> THEN 3 ELSE 0
  ELSE IF At(s, at) # "$" THEN 0
  ELSE IF rule = "dollars" THEN (IF At(s, at + 1) = "$" THEN 2 ELSE 0)
  ELSE IF At(s, at + 1) # "$" /\ at > 0 /\ At(s, at - 1) \notin White /\ At(s, at + 1) \notin Digits THEN 1 ELSE 0

scan_formula_closer(rule, s, at) ==
  IF rule \in {"dollar", "dollars"} /\ At(s, at) = "$" /\ At(s, at + 1) = "$" THEN 2
  ELSE IF Escaped(s, at) THEN 2 ELSE 1

Closes(rule, s, at) == IF rule = "comment" THEN scan_closer(s, at) ELSE FormulaCloses(rule, s, at)
Width(rule, s, at) == IF rule = "comment" THEN 1 ELSE scan_formula_closer(rule, s, at)

\* The first closer of an opaque body at or past `from`, -1 for none: a
\* failed search answers every later one, and a scanner reads the byte after
\* a closer.
RECURSIVE ClosesAt(_, _, _)
ClosesAt(rule, s, at) ==
  IF at >= Len(s) THEN -1 ELSE IF Closes(rule, s, at) # 0 THEN at ELSE ClosesAt(rule, s, at + Width(rule, s, at))

OpaqueFailed(r, rule, from) ==
  [r EXCEPT !.opaque_failed = [c \in DOMAIN r.opaque_failed \cup {rule} |-> IF c = rule THEN from ELSE r.opaque_failed[c]]]

find_opaque_close(r, rule, from) ==
  LET Found(at) == IF at = -1 THEN [at |-> -1, run |-> saw_end(OpaqueFailed(r, rule, from))]
                   ELSE [at |-> at, run |-> SawEndIf(r, at + Closes(rule, r.in, at))]
  IN IF rule \in DOMAIN r.opaque_failed /\ from >= r.opaque_failed[rule] THEN [at |-> -1, run |-> saw_end(r)]
     ELSE Found(ClosesAt(rule, r.in, from))

\* `%%` to the next `%%`.
match_comment(r) ==
  LET Closed(got) == IF got.at < 0 THEN got.run
                     ELSE Leaf(got.run, "Comment", r.pos, got.at + 2, Slice(r.in, r.pos + 2, got.at))
  IN IF At(r.in, r.pos + 1) # "%" THEN SawEndIf(r, r.pos + 1) ELSE Closed(find_opaque_close(r, "comment", r.pos + 2))

-----------------------------------------------------------------------------
\* The HTML after the `<` before `at`: its length, 0 for none, and what a
\* construct that does not close keeps from being looked for again.
comment_scan_html(r, at) ==
  LET s == r.in
      Long(n) == IF n > 0 THEN [n |-> n + 1, run |-> r] ELSE [n |-> 0, run |-> [r EXCEPT !.flags = @ \cup {"comment"}]]
  IN IF At(s, at + 3) = ">" THEN [n |-> 4, run |-> r]
     ELSE IF At(s, at + 3) = "-" /\ At(s, at + 4) = ">" THEN [n |-> 5, run |-> r]
     ELSE Long(Scan!scan_html_comment(s, at + 1))

Closed(r, at, n, flag) ==
  IF n = 0 THEN [n |-> 0, run |-> r]
  ELSE IF at + n > Len(r.in) THEN [n |-> 0, run |-> [r EXCEPT !.flags = @ \cup {flag}]] ELSE [n |-> n, run |-> r]

\* What `scan` finds after `lead` bytes, unless an earlier one ran to the end.
Unless(r, at, flag, scan, lead) ==
  IF flag \in r.flags \/ scan = 0 THEN [n |-> 0, run |-> r] ELSE Closed(r, at, scan + lead, flag)

IsComment(r, at) ==
  At(r.in, at) = "!" /\ "comment" \notin r.flags /\ At(r.in, at + 1) = "-" /\ At(r.in, at + 2) = "-"

HtmlAt(r, at) ==
  LET c == At(r.in, at)
      bang == c = "!" /\ "comment" \notin r.flags
  IN IF IsComment(r, at) THEN comment_scan_html(r, at)
     ELSE IF bang /\ At(r.in, at + 1) = "[" THEN Unless(r, at, "cdata", Scan!scan_html_cdata(r.in, at + 2), 5)
     ELSE IF bang THEN Unless(r, at, "declaration", Scan!scan_html_declaration(r.in, at + 1), 2)
     ELSE IF c # "?" THEN [n |-> Scan!scan_html_tag(r.in, at), run |-> r]
     ELSE IF "pi" \in r.flags THEN [n |-> 0, run |-> r] ELSE Closed(r, at, Scan!scan_html_pi(r.in, at + 1) + 3, "pi")

scan_inline_html(r, at) ==
  LET Scanned(got) == [n |-> got.n,
                       run |-> IF got.n = 0 /\ At(r.in, at) \in Letters \cup {"/", "!", "?"} THEN saw_end(got.run) ELSE got.run]
  IN IF at + 2 > Len(r.in) THEN [n |-> 0, run |-> saw_end(r)] ELSE Scanned(HtmlAt(r, at))

handle_pointy_brace(r) ==
  LET Node(got, end) ==
        IF got.n = 0 THEN Str(got.run, r.pos, r.pos + 1)
        ELSE IF IsComment(r, r.pos + 1) THEN Leaf(got.run, "Comment", r.pos, end, Slice(r.in, r.pos + 4, end - 3))
        ELSE Leaf(got.run, "Html", r.pos, end, Slice(r.in, r.pos, end))
      Got(got) == Node(got, r.pos + 1 + got.n)
  IN Got(scan_inline_html(r, r.pos + 1))

-----------------------------------------------------------------------------
\* An autolink in angle brackets: a Link of the Text they enclose.
LinkOf(r, from, to, textFrom, textTo) ==
  AppendNode([r EXCEPT !.pos = to],
             [Container("Link", from, to, <<make_str(r, textFrom, textTo - 1)>>) EXCEPT !.id = from])

match_angle(r) ==
  LET from == r.pos + 1
      Linked(n) == IF n # 0 THEN attach_inline_attributes(LinkOf(r, r.pos, from + n, from, from + n - 1))
                   ELSE IF At(r.in, from) \in Scan!LocalPart \cup {""} THEN saw_end(r) ELSE r
      Uri(n) == Linked(IF n # 0 THEN n ELSE Scan!scan_autolink_email(r.in, from))
  IN Uri(Scan!scan_autolink_uri(r.in, from))

hostchar(c) == c \notin White \cup Punct \cup {""}

\* The domain at `start`: an underscore in its last two segments rejects it,
\* and every later start before that underscore.
RECURSIVE DomainEnd(_, _)
DomainEnd(s, i) ==
  IF i >= Len(s) - 1 THEN i
  ELSE LET j == IF At(s, i) = "\\" /\ i < Len(s) - 2 THEN i + 1 ELSE i
       IN IF At(s, j) \in {"_", ".", "-"} \/ hostchar(At(s, j)) THEN DomainEnd(s, j + 1) ELSE j

DomainTo(r, start, end, allow_short) ==
  LET dots == {i \in start + 1 .. end - 1 : At(r.in, i) = "."}
      late == IF Cardinality(dots) < 2 THEN start ELSE Max(dots \ {Max(dots)})
      scores == {i \in start + 1 .. end - 1 : At(r.in, i) = "_"}
      r1 == IF end >= Len(r.in) - 1 THEN saw_end(r) ELSE r
  IN IF \E i \in scores : i > late THEN [n |-> 0, run |-> [r1 EXCEPT !.rejected_until = Max(scores)]]
     ELSE [n |-> IF allow_short \/ dots # {} THEN end - start ELSE 0, run |-> r1]
check_domain(r, start, allow_short) ==
  IF start < r.rejected_until THEN [n |-> 0, run |-> r] ELSE DomainTo(r, start, DomainEnd(r.in, start + 1), allow_short)

\* The extent of a bare address from `at`, which an open bracket's closer
\* ends, and that extent less the punctuation that ends a sentence.
RECURSIVE autolink_extent(_, _)
autolink_extent(r, at) ==
  LET c == At(r.in, at)
  IN IF c \in White \cup {"<", ""} \/ (c = "]" /\ r.brackets # <<>>) THEN at
     ELSE autolink_extent(r, at + (IF Escaped(r.in, at) /\ At(r.in, at + 1) # "<" THEN 2 ELSE 1))

Sentence == {"?", "!", ".", ",", ":", "*", "_", "~", "'", "\""}
RECURSIVE Shorten(_, _, _)
Shorten(s, from, end) ==
  LET c == At(s, end - 1)
      Count(p) == Cardinality({i \in from .. end - 1 : At(s, i) = p})
      name == Max({from} \cup {i \in from .. end - 2 : At(s, i) \notin Letters})
  IN IF end <= from THEN end
     ELSE IF c = ")" /\ Count(")") > Count("(") THEN Shorten(s, from, end - 1)
     ELSE IF c \in Sentence THEN Shorten(s, from, end - 1)
     ELSE IF c = ";" THEN Shorten(s, from, IF name < end - 2 /\ At(s, name) = "&" THEN name ELSE end - 1)
     ELSE end

autolink_delim(s, from, end) ==
  LET angle == {i \in from .. end - 1 : At(s, i) = "<"} IN Shorten(s, from, IF angle = {} THEN end ELSE Min(angle))

\* Inside a link's or an image's bracket no bare address is one; a note's
\* bracket starts a context of its own.
InBracket(brackets) == brackets # <<>> /\ Last(brackets).kind # "footnote"
context_start(r) == IF r.brackets # <<>> /\ Last(r.brackets).kind = "footnote" THEN Last(r.brackets).position ELSE 0

\* The last `n` bytes of the Texts the run ends with are given back; a Text
\* left with none ends where it starts.
RECURSIVE node_unput(_, _, _)
node_unput(nodes, k, n) ==
  IF n = 0 \/ k = 0 \/ nodes[k].kind # "Text" THEN nodes
  ELSE LET cut == Min({n, Len(nodes[k].lit)})
           left == Len(nodes[k].lit) - cut
       IN node_unput([nodes EXCEPT ![k].lit = SubSeq(@, 1, left),
                                   ![k].end = IF left = 0 THEN nodes[k].start ELSE nodes[k].start + left],
                     k - 1, n - cut)

\* The address from `from` on whose domain begins at `at`, from the end of
\* the domain to the end of the extent less what ends a sentence: a Link, the
\* letters of its scheme given back by the text before it.
Unput(r, n) == [r EXCEPT !.nodes = node_unput(@, Len(@), n)]
Address(r, from, at, end) == IF end = at THEN r ELSE LinkOf(Unput(r, at - from), from, end, from, end)
Extended(r, from, at, far) == Address(SawEndIf(r, far), from, at, autolink_delim(r.in, at, far))
Hosted(domain, from, at, host) ==
  IF domain.n = 0 THEN domain.run ELSE Extended(domain.run, from, at, autolink_extent(domain.run, host + domain.n))

www_match(r) ==
  LET s == r.in
      at == r.pos
      www == <<"w", "w", "w", ".">>
  IN IF at > context_start(r) /\ At(s, at - 1) \notin {"*", "_", "~", "("} \cup White THEN r
     ELSE IF Slice(s, at, at + 4) = www THEN Hosted(check_domain(r, at, FALSE), at, at, at)
     ELSE IF Len(s) - at < 4 /\ Slice(s, at, Len(s)) = SubSeq(www, 1, Len(s) - at) THEN saw_end(r) ELSE r

SafeSchemes == {<<"h", "t", "t", "p">>, <<"h", "t", "t", "p", "s">>, <<"f", "t", "p">>}
SchemeStart(s, at) ==
  LET before == {i \in 0 .. at - 1 : At(s, i) \notin Letters} IN IF before = {} THEN 0 ELSE Max(before) + 1
url_match(r) ==
  LET s == r.in
      at == r.pos
      cut == Len(s) - at < 4
      Scheme(from) == IF Slice(s, from, at) \notin SafeSchemes \/ ~hostchar(At(s, at + 3)) THEN r
                      ELSE Hosted(check_domain(r, at + 3, TRUE), from, at, at + 3)
  IN IF ~cut /\ At(s, at + 1) = "/" /\ At(s, at + 2) = "/" THEN Scheme(SchemeStart(s, at))
     ELSE IF cut /\ At(s, at + 1) \in {"/", ""} /\ At(s, at + 2) \in {"/", ""} THEN saw_end(r) ELSE r

\* A colon before an address is the autolink's: one byte of text, which the
\* scan of the finished text reads with the rest.
DomainByte(s, i) == At(s, i) \in Alnum \cup {"-", "_"} \/ (At(s, i) = "." /\ At(s, i + 1) \in Alnum)
DomainAfter(r, at, end) ==
  LET dotted == \E i \in at + 1 .. end - 1 : At(r.in, i) = "."
      r1 == IF end + 1 >= Len(r.in) THEN saw_end(r) ELSE r
  IN IF end - at < 2 \/ ~dotted \/ At(r.in, end - 1) \notin Letters \cup {"."} THEN r1 ELSE Str(r1, r.pos, r.pos + 1)
address_match(r) ==
  LET Local(at) == IF at = r.pos + 1 \/ At(r.in, at) # "@" THEN SawEndIf(r, at)
                   ELSE DomainAfter(r, at, Min({i \in at + 1 .. Len(r.in) : ~DomainByte(r.in, i)}))
  IN Local(Past(r.in, r.pos + 1, Alnum \cup {".", "+", "-", "_"}))

match_autolink(r) ==
  LET Colon(url) == IF url.pos # r.pos THEN url ELSE address_match(url)
      c == At(r.in, r.pos)
  IN IF c = "<" THEN match_angle(r)
     ELSE IF c = ":" THEN Colon(IF InBracket(r.brackets) THEN r ELSE url_match(r))
     ELSE IF InBracket(r.brackets) THEN r ELSE www_match(r)

-----------------------------------------------------------------------------
\* Formulas: a delimiter opens while none of its form is open and closes
\* while one is.
has_unmatched_opener(r, rule) ==
  Cardinality(Openers(r, rule)) > Cardinality({i \in 1 .. Len(r.delims) : r.delims[i].rule = rule /\ r.delims[i].can_close})

FormulaText(r, rule, n, can_open, can_close) ==
  IF can_open \/ can_close
  THEN push_delimiter(Str(r, r.pos, r.pos + n),
                      [start |-> r.pos, end |-> r.pos + n, rule |-> rule, can_open |-> can_open, can_close |-> can_close])
  ELSE Str(r, r.pos, r.pos + n)

match_formula_delimiter(r, rule, n, can_open, can_close) ==
  LET Opened(got, body) ==
        IF got.at >= 0 /\ formula_body_admitted(rule, body)
        THEN Leaf(got.run, "Formula", r.pos, got.at + n, body) ELSE FormulaText(got.run, rule, n, TRUE, can_close)
      Got(got) == Opened(got, Slice(r.in, r.pos + n, got.at))
  IN IF can_open THEN Got(find_opaque_close(r, rule, r.pos + n)) ELSE FormulaText(r, rule, n, FALSE, can_close)

\* Of which form the delimiter at the run's position is, its width, and
\* whether it opens when none is open and closes when one is.
FormulaForm(s, at) ==
  LET form(rule, n, opens, closes) == [rule |-> rule, n |-> n, opens |-> opens, closes |-> closes]
      Latex(c) == Slice(s, at, at + 3) = <<"\\", "\\", c>>
  IN IF Scan!scan_formula_dollar_display_open(s, at) # 0 THEN form("dollars", 2, TRUE, TRUE)
     ELSE IF At(s, at) = "$"
     THEN form("dollar", 1, At(s, at + 1) \notin White \cup {""}, at > 0 /\ At(s, at - 1) \notin White /\ At(s, at + 1) \notin Digits)
     ELSE IF Scan!scan_formula_latex_backslash_display_open(s, at) # 0 THEN form("square", 3, TRUE, FALSE)
     ELSE IF Scan!scan_formula_latex_backslash_inline_open(s, at) # 0 THEN form("paren", 3, TRUE, FALSE)
     ELSE IF Latex("]") THEN form("square", 3, FALSE, TRUE)
     ELSE IF Latex(")") THEN form("paren", 3, FALSE, TRUE) ELSE form("none", 0, FALSE, FALSE)

\* A LaTeX closer with none open is left to the elements after this one.
FormulaAt(r, form, open) ==
  IF form.n = 3 /\ form.closes /\ ~open THEN r
  ELSE match_formula_delimiter(r, form.rule, form.n, form.opens /\ ~open, form.closes /\ open)

match_formula(r0) ==
  LET r == IF r0.pos + 3 > Len(r0.in) THEN saw_end(r0) ELSE r0
      Formed(form) == IF form.rule = "none" THEN r
                      ELSE FormulaAt([r EXCEPT !.asked = @ \cup {form.rule}], form, has_unmatched_opener(r, form.rule))
  IN Formed(FormulaForm(r0.in, r0.pos))

-----------------------------------------------------------------------------
\* A cross link's body: to the first `]]`, with no bracket or line ending
\* before it, a target that is not empty and no anchor part that is.
CrossTarget(s, from, to) ==
  LET seps == {i \in from .. to - 1 : At(s, i) = "|" \/ (At(s, i) = "\\" /\ At(s, i + 1) = "|" /\ i + 1 < to)}
  IN IF seps = {} THEN to ELSE Min(seps)

CrossBody(r, body, stop, target) ==
  LET s == r.in
      twice == \E i \in body .. target - 2 : At(s, i) = "#" /\ At(s, i + 1) = "#"
  IN IF At(s, stop) \in {"[", "\n"} \/ twice THEN r
     ELSE IF stop = Len(s) \/ stop + 1 = Len(s) THEN saw_end(r)
     ELSE IF At(s, stop + 1) # "]" \/ target = body \/ At(s, target - 1) = "#" THEN r
     ELSE Leaf(r, IF At(s, r.pos) = "!" THEN "CrossEmbedded" ELSE "CrossLink", r.pos, stop + 2, Slice(s, body, stop))

match_cross_link(r) ==
  LET Until(body, stop) == CrossBody(r, body, stop, CrossTarget(r.in, body, stop))
      From(body) == IF body > Len(r.in) THEN saw_end(r)
                    ELSE IF At(r.in, body - 2) # "[" \/ At(r.in, body - 1) # "[" THEN r
                    ELSE Until(body, To(r.in, body, {"[", "]", "\n"}))
  IN From(r.pos + (IF At(r.in, r.pos) = "!" THEN 3 ELSE 2))

-----------------------------------------------------------------------------
\* A topic: `#` and a name of segment characters joined by single slashes.
SegmentByte == Alnum \cup {"_", "-"}
topic_opener(s, at) == at = 0 \/ At(s, at - 1) = "-" \/ At(s, at - 1) \notin SegmentByte \cup {"&"}

RECURSIVE NameEnd(_, _, _)
NameEnd(s, from, i) ==
  IF At(s, i) \in SegmentByte THEN NameEnd(s, from, i + 1)
  ELSE IF i > from /\ At(s, i) = "/" /\ At(s, i + 1) \in SegmentByte THEN NameEnd(s, from, i + 1) ELSE i

\* The end of the topic at `at`, 0 when there is none, and the run after.
TopicTo(r, at, end) ==
  LET word == \E i \in at + 1 .. end - 1 : At(r.in, i) \in SegmentByte \ Digits
      near == end + (IF At(r.in, end) = "/" THEN 5 ELSE 4) > Len(r.in)
  IN [end |-> IF word /\ At(r.in, end) # "#" /\ Slice(r.in, end, end + 3) # <<":", "/", "/">> THEN end ELSE 0,
      run |-> IF near THEN saw_end(r) ELSE r]
topic_end(r, at) ==
  IF topic_opener(r.in, at) THEN TopicTo(r, at, NameEnd(r.in, at + 1, at + 1)) ELSE [end |-> 0, run |-> r]

match_topic(r) ==
  LET Named(got) == IF got.end = 0 THEN got.run ELSE Leaf(got.run, "Topic", r.pos, got.end, Slice(r.in, r.pos + 1, got.end))
  IN Named(topic_end(r, r.pos))

-----------------------------------------------------------------------------
\* The end of the label at `open`, past its `]`, 0 when it does not close:
\* brackets nest and an escape takes the byte after it.
RECURSIVE scan_label(_, _, _)
scan_label(s, i, depth) ==
  IF i >= Len(s) \/ depth > 33 THEN 0
  ELSE IF At(s, i) = "\\" THEN scan_label(s, i + 2, depth)
  ELSE IF At(s, i) = "[" THEN scan_label(s, i + 1, depth + 1)
  ELSE IF At(s, i) # "]" THEN scan_label(s, i + 1, depth)
  ELSE IF depth = 1 THEN i + 1 ELSE scan_label(s, i + 1, depth - 1)

\* A text directive: a colon no other adjoins, a name, and a label, an
\* attribute container or both.  Its label is a field read once it stands.
DirectiveNode(r, close, name, past, attributes) ==
  LET end == IF attributes.end # 0 THEN attributes.end ELSE past
  IN IF close = 0 /\ attributes.end = 0 THEN attributes.run
     ELSE AppendNode([attributes.run EXCEPT !.pos = end],
                     [Container("Directive", r.pos, end, <<>>) EXCEPT !.lit = IF close # 0 THEN <<name + 1, close - 1>> ELSE <<>>])
DirectivePast(r, close, name, past) ==
  LET s == r.in
      r1 == IF name >= Len(s) \/ (At(s, name) = "[" /\ close = 0) \/ past >= Len(s) THEN saw_end(r) ELSE r
  IN DirectiveNode(r, close, name, past, IF At(s, past) = "{" THEN state_attributes(r1, past) ELSE [end |-> 0, run |-> r1])
DirectiveName(r, name) ==
  LET Label(close) == DirectivePast(r, close, name, IF close # 0 THEN close ELSE name)
  IN Label(IF At(r.in, name) = "[" THEN scan_label(r.in, name + 1, 1) ELSE 0)

match_colon_directive(r) ==
  IF r.pos > 0 /\ At(r.in, r.pos - 1) = ":" THEN r
  ELSE IF r.pos + 1 >= Len(r.in) THEN saw_end(r)
  ELSE IF At(r.in, r.pos + 1) \in White \cup {":", "[", "{"} THEN r
  ELSE DirectiveName(r, To(r.in, r.pos + 1, White \cup {"[", "{", ":"}))
=============================================================================
