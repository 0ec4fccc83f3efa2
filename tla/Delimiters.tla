----------------------------- MODULE Delimiters -----------------------------
(***************************************************************************)
(* The delimiter engine of the inline parse (core/inlines.c): the run's    *)
(* state, how a run of delimiter bytes is classified from its neighbours,  *)
(* the one stack markers and content boundaries share, and the pairing     *)
(* that turns two markers and what lies between them into a node.          *)
(*                                                                         *)
(* A node is a record: its kind, its extent in the content, the literal a  *)
(* Text holds and its children.  Every marker's Text is a top-level node   *)
(* of the run until it pairs, so a marker names its node by the offset the *)
(* run of bytes began at.  The counts the code keeps of the stack's        *)
(* openers and closers are the counts the stack has.                       *)
(***************************************************************************)
EXTENDS Bytes

Never == 1000 \* INT32_MAX: no token has read the end

\* The rules of the dialect: emphasis.c, mark.c, insertion.c,
\* strikethrough.c, superscript.c and subscript.c.
Spec3(b, one, two) ==
  [byte |-> b, min |-> 1, max |-> 2, limit |-> 0, three |-> TRUE, punct |-> b = "_",
   word |-> FALSE, exact |-> FALSE, single |-> one, double |-> two]
Pair(b, kind, exact) ==
  [byte |-> b, min |-> 2, max |-> 2, limit |-> 0, three |-> FALSE, punct |-> FALSE,
   word |-> FALSE, exact |-> exact, single |-> "none", double |-> kind]
Word(b, kind) ==
  [byte |-> b, min |-> 1, max |-> 1, limit |-> 1, three |-> FALSE, punct |-> FALSE,
   word |-> TRUE, exact |-> FALSE, single |-> kind, double |-> "none"]

\* A formula's delimiters pair whole, through the element's own insertion.
Formula == [Pair("", "none", FALSE) EXCEPT !.min = 0, !.max = 0]

delimiter_spec ==
  [asterisk |-> Spec3("*", "Emphasis", "Strong"), underscore |-> Spec3("_", "Emphasis", "Strong"),
   mark |-> Pair("=", "Mark", FALSE), insertion |-> Pair("+", "Insertion", FALSE),
   strikethrough |-> Pair("~", "Strikethrough", TRUE),
   superscript |-> Word("^", "Superscript"), subscript |-> Word("~", "Subscript"),
   dollar |-> Formula, dollars |-> Formula, paren |-> Formula, square |-> Formula]

Rules == DOMAIN delimiter_spec

\* The rule whose runs the text scanner classifies on its own; `~` is no
\* rule's own byte, as two elements dispatch on it.
delimiter_rule_for_byte(c) == {u \in Rules \ {"strikethrough", "subscript"} : delimiter_spec[u].byte = c /\ c # ""}

Transparent == {"~"} \* flanking_transparent: flanking looks through it

-----------------------------------------------------------------------------
\* A run over `in` from `from`; one that lists settle starts holds nothing
\* undecided yet, and any other holds everything so.
state_from_buf(in, defs, from, settling) ==
  [in |-> in, defs |-> defs, field |-> FALSE, pos |-> from, nodes |-> <<>>, delims |-> <<>>,
   brackets |-> <<>>, no_link_openers |-> TRUE, nonblank_end |-> 0, opaque_end |-> 0,
   token |-> 0, undecided |-> IF settling THEN Never ELSE 0, starts |-> <<>>, lookups |-> <<>>,
   ticks |-> [n \in {} |-> 0], scanned |-> FALSE, known |-> [p \in 0 .. Len(in) |-> 0], ran_out |-> FALSE,
   asked |-> {}, flags |-> {}, opaque_failed |-> [c \in {} |-> 0], rejected_until |-> 0]

\* No reading from `start` on settles; an end read is one of the token's.
undecide(r, start) == [r EXCEPT !.undecided = IF start < @ THEN start ELSE @]
saw_end(r) == undecide(r, r.token)
SawEndIf(r, at) == IF at >= Len(r.in) THEN saw_end(r) ELSE r

make_literal(kind, from, to, lit) ==
  [kind |-> kind, id |-> from, start |-> from, end |-> to + 1, lit |-> lit, kids |-> <<>>]
make_str(r, from, to) == make_literal("Text", from, to, Slice(r.in, from, to + 1))

-----------------------------------------------------------------------------
\* The character before `start`, through flanking-transparent bytes; the
\* start of the input reads as a line ending.
RECURSIVE BeforeChar(_, _)
BeforeChar(s, i) ==
  IF i = 0 THEN "\n" ELSE IF At(s, i - 1) \in Transparent THEN BeforeChar(s, i - 1) ELSE At(s, i - 1)

\* The run start .. end - 1 of rule `u` between its neighbours: whether it
\* may open and close, and whether classifying it read the end of the input.
Flanked(r, u, spec, start, end, before, past, after) ==
  LET narrow == end - start < spec.min \/ (spec.exact /\ end - start # spec.min)
      left == after \notin White /\ (after \notin Punct \/ before \in White \cup Punct)
      right == before \notin White /\ (before \notin Punct \/ after \in White \cup Punct)
  IN [start |-> start, end |-> end, rule |-> u,
      can_open |-> spec.word \/ (~narrow /\ left /\ (spec.punct => ~right \/ before \in Punct)),
      can_close |-> spec.word \/ (~narrow /\ right /\ (spec.punct => ~left \/ after \in Punct)),
      ended |-> end = Len(r.in) \/ (~spec.word /\ ~narrow /\ past = Len(r.in))]

RunTo(r, u, spec, start, end) ==
  LET After(past) == Flanked(r, u, spec, start, end, BeforeChar(r.in, start), past,
                             IF past < Len(r.in) THEN At(r.in, past) ELSE "\n")
  IN After(Past(r.in, end, Transparent))

scan_delimiter(r, start, u) ==
  LET Limited(spec, end) == RunTo(r, u, spec, start, IF spec.limit > 0 /\ end - start > spec.limit THEN start + spec.limit ELSE end)
  IN Limited(delimiter_spec[u], Past(r.in, start, {At(r.in, start)}))

Openers(r, u) == {i \in 1 .. Len(r.delims) : r.delims[i].rule = u /\ r.delims[i].can_open}

\* A close-only run needs an earlier opener of its rule to be worth a place.
delimiter_needs_stack(r, run) == run.can_open \/ (run.can_close /\ Openers(r, run.rule) # {})

-----------------------------------------------------------------------------
push_delimiter(r, run) ==
  [r EXCEPT !.delims = Append(@, [kind |-> "marker", position |-> run.end, length |-> run.end - run.start,
                                  rule |-> run.rule, can_open |-> run.can_open,
                                  can_close |-> run.can_close, node |-> run.start])]

\* One boundary stands for every whitespace byte since the last marker.
push_boundary(r, position) ==
  LET n == Len(r.delims)
      b == [kind |-> "boundary", position |-> position, length |-> 0, rule |-> "none",
            can_open |-> FALSE, can_close |-> FALSE, node |-> 0]
  IN IF n > 0 /\ r.delims[n].kind = "boundary" THEN [r EXCEPT !.delims[n] = b]
     ELSE [r EXCEPT !.delims = Append(@, b)]

AppendNode(r, node) == [r EXCEPT !.nodes = Append(@, node)]

handle_delim(r, run) ==
  push_delimiter(AppendNode([r EXCEPT !.pos = run.end], make_str(r, run.start, run.end - 1)), run)

\* The element's own match at a delimiter byte: an ineligible run of an
\* exact rule is a Text of its own, any other is left to the text scanner.
Matched(r, run, exact) ==
  IF delimiter_needs_stack(r, run) THEN handle_delim(r, run)
  ELSE IF exact THEN AppendNode([r EXCEPT !.pos = run.end], make_str(r, run.start, run.end - 1)) ELSE r
match_delimiter(r, u) ==
  LET Ended(run) == Matched(IF run.ended THEN saw_end(r) ELSE r, run, delimiter_spec[u].exact)
  IN Ended(scan_delimiter(r, r.pos, u))

-----------------------------------------------------------------------------
NodeAt(r, id) == CHOOSE i \in 1 .. Len(r.nodes) : r.nodes[i].kind = "Text" /\ r.nodes[i].id = id
StartOf(r, entry) == r.nodes[NodeAt(r, entry.node)].start

\* The stack without the entries lo .. hi but for the last boundary among
\* them, which still constrains an enclosing word body; an opener that goes
\* unpaired of a rule whose counts a scanner asked leaves nothing past it
\* settled.
reduce_delimiter_range(r, lo, hi) ==
  LET kept == {i \in lo .. hi : r.delims[i].kind = "boundary"}
      keep == IF kept = {} THEN <<>> ELSE <<r.delims[Max(kept)]>>
      counted == {StartOf(r, r.delims[i]) : i \in {j \in lo .. hi : r.delims[j].can_open /\ r.delims[j].rule \in r.asked}}
  IN [r EXCEPT !.delims = SubSeq(@, 1, lo - 1) \o keep \o SubSeq(@, hi + 1, Len(@)),
               !.undecided = Min({@} \cup counted)]

remove_delimiter(r, i) == [r EXCEPT !.delims = RemoveAt(@, i)]

\* Whether `o` may pair with the closer `c`: the rule of three keeps an
\* interior run from matching one whose length it does not divide.
Pairs(o, c) ==
  /\ o.can_open /\ o.rule = c.rule
  /\ \/ ~delimiter_spec[c.rule].three
     \/ ~(c.can_open \/ o.can_close)
     \/ c.length % 3 = 0
     \/ (o.length + c.length) % 3 # 0

\* The opener oi and the closer ci pair, using `used` bytes of each, those
\* next to the content: what lies between their Texts, nodes a and b, is the
\* new node's, a Text that keeps bytes keeps its place, and a run too short
\* for its rule leaves the stack.
Insert(r, oi, ci, spec, a, b, used) ==
  LET ot == r.nodes[a]
      ct == r.nodes[b]
      on == Len(ot.lit) - used
      cn == Len(ct.lit) - used
      node == [kind |-> IF used = 2 THEN spec.double ELSE spec.single, id |-> ot.start + on,
               start |-> ot.start + on, end |-> ct.end - cn, lit |-> <<>>,
               kids |-> SubSeq(r.nodes, a + 1, b - 1)]
      left == IF on = 0 THEN <<>> ELSE <<[ot EXCEPT !.lit = SubSeq(@, 1, on), !.end = ot.start + on]>>
      right == IF cn = 0 THEN <<>> ELSE <<[ct EXCEPT !.lit = SubSeq(@, 1, cn), !.start = ct.end - cn]>>
      Kept(i, n) == IF n < spec.min THEN <<>> ELSE <<r.delims[i]>>
  IN [run |-> [r EXCEPT !.nodes = SubSeq(@, 1, a - 1) \o left \o <<node>> \o right \o SubSeq(@, b + 1, Len(@)),
                        !.delims = SubSeq(@, 1, oi - 1) \o Kept(oi, on) \o SubSeq(@, oi + 1, ci - 1)
                                     \o Kept(ci, cn) \o SubSeq(@, ci + 1, Len(@))],
      closer |-> IF on < spec.min THEN ci - 1 ELSE ci]

S_insert_delimited_inline(r, oi, ci) ==
  LET Used(spec, a, b) ==
        Insert(r, oi, ci, spec, a, b,
               IF Len(r.nodes[a].lit) < spec.max \/ Len(r.nodes[b].lit) < spec.max THEN spec.min ELSE spec.max)
  IN Used(delimiter_spec[r.delims[ci].rule], NodeAt(r, r.delims[oi].node), NodeAt(r, r.delims[ci].node))

\* A formula of one dollar whose body a backquote begins needs one at its end.
formula_body_admitted(rule, body) == rule # "dollar" \/ body = <<>> \/ body[1] # Tick \/ (Len(body) >= 2 /\ Last(body) = Tick)

\* Two delimiters of a formula pair: all from the one to the other is the
\* formula, or none of it is and nothing past the opener settles.
insert_formula(r, oi, ci) ==
  LET o == r.delims[oi]
      c == r.delims[ci]
      a == NodeAt(r, o.node)
      body == Slice(r.in, o.position, c.position - c.length)
      node == make_literal("Formula", o.position - o.length, c.position - 1, body)
      off == [r EXCEPT !.delims = RemoveAt(RemoveAt(@, ci), oi)]
  IN [run |-> IF formula_body_admitted(o.rule, body)
              THEN [off EXCEPT !.nodes = SubSeq(@, 1, a - 1) \o <<node>> \o SubSeq(@, NodeAt(r, c.node) + 1, Len(@))]
              ELSE undecide(off, r.nodes[a].start),
      closer |-> ci - 1]

\* Forward over the closers from entry `ci`: `bottoms` is where a failed
\* search for a rule and a length modulo three left the next one to stop,
\* `word` the last boundary, which no word body crosses.
RECURSIVE PairFrom(_, _, _, _), CloseAt(_, _, _, _, _), Resume(_, _, _)
Resume(made, bottoms, word) == PairFrom(made.run, made.closer, bottoms, word)

Joined(r, oi, ci) ==
  IF delimiter_spec[r.delims[ci].rule].min = 0 THEN insert_formula(r, oi, ci) ELSE S_insert_delimited_inline(r, oi, ci)

\* Entry `ci` closes the nearest of the openers `found`; with none, it stays
\* when it may open.
CloseAt(r, ci, found, bottoms, word) ==
  LET c == r.delims[ci]
      failed == [bottoms EXCEPT ![<<c.length % 3, c.rule>>] = c.position]
      After(reduced) == Joined(reduced, Max(found), ci - (Len(r.delims) - Len(reduced.delims)))
      Unpaired(kept) == PairFrom(IF kept THEN r ELSE remove_delimiter(r, ci), IF kept THEN ci + 1 ELSE ci, failed, word)
  IN IF found = {} THEN Unpaired(c.can_open)
     ELSE Resume(After(reduce_delimiter_range(r, Max(found) + 1, ci - 1)), bottoms, word)

FoundFrom(r, ci, c, bottom) == {i \in 1 .. ci - 1 : r.delims[i].position >= bottom /\ Pairs(r.delims[i], c)}

PairFrom(r, ci, bottoms, word0) ==
  LET c == r.delims[ci]
      word == IF c.kind = "boundary" THEN c.position ELSE word0
      slot == bottoms[<<c.length % 3, c.rule>>]
  IN IF ci > Len(r.delims) THEN r
     ELSE IF ~c.can_close THEN PairFrom(r, ci + 1, bottoms, word)
     ELSE CloseAt(r, ci, FoundFrom(r, ci, c, IF delimiter_spec[c.rule].word /\ word > slot THEN word ELSE slot), bottoms, word)

\* The first entry at or past `bottom`, and the stack paired from it on.
First(r, bottom) ==
  LET below == {i \in 1 .. Len(r.delims) : r.delims[i].position < bottom}
  IN IF below = {} THEN 1 ELSE Max(below) + 1

process_delimiters(r, bottom) ==
  LET lo == First(r, bottom)
      Reduced(paired) == reduce_delimiter_range(paired, lo, Len(paired.delims))
  IN Reduced(PairFrom(r, lo, [slot \in (0 .. 2) \X Rules |-> bottom], bottom))

\* The run's last pairing: an opener none pairs with is undecided from where
\* it starts, as a closer the input goes on with may take it.
S_process_delimiters(r) ==
  LET open(x) == {StartOf(x, x.delims[i]) : i \in {j \in 1 .. Len(x.delims) : x.delims[j].can_open}}
      Undecided(x) == reduce_delimiter_range([x EXCEPT !.undecided = Min(open(x) \cup {@})], 1, Len(x.delims))
  IN Undecided(PairFrom(r, 1, [slot \in (0 .. 2) \X Rules |-> 0], 0))
=============================================================================
