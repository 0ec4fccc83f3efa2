----------------------------- MODULE Candidates -----------------------------
(***************************************************************************)
(* The lines of the text, how a line goes on in the open blocks, and the   *)
(* block-start lookahead (core/blocks.c): a block whose grammar depends on *)
(* later lines reads them as the block parser will, the prefixes of the    *)
(* containers it would join matched by the same matchers, and leaves       *)
(* nothing behind but the lines it scanned and whether it read the end.    *)
(*                                                                         *)
(* A reading of the text's end where more text may follow decides nothing: *)
(* `p.seen` records it.  The facts a lookahead keeps of a line, so that a  *)
(* later one matches no prefix twice, change no answer and are left out.   *)
(***************************************************************************)
EXTENDS BlockTree

\* A line ends at CR, LF or CR LF.
Terminators == {"\r", "\n"}
PastEnd(source, end) ==
  LET cr == IF At(source, end) = "\r" THEN end + 1 ELSE end IN IF At(source, cr) = "\n" THEN cr + 1 ELSE cr
S_scan_line(source, start, from) ==
  LET end == To(source, from, Terminators) IN [line |-> [start |-> start, end |-> end], scanned |-> PastEnd(source, end)]
WithLine(p, scan, at) == [p EXCEPT !.lines = SubSeq(@, 1, at - 1) \o <<scan.line>>, !.scanned = scan.scanned]
S_extend_source_lines(p, index) ==
  IF index > Len(p.lines) /\ p.scanned < Len(p.source) THEN WithLine(p, S_scan_line(p.source, p.scanned, p.scanned), index) ELSE p
\* Where line `index` starts, scanned or not.
StartOf(p, index) == IF index <= Len(p.lines) THEN p.lines[index].start ELSE p.scanned
LineOf(p, index) == Append(Slice(p.source, p.lines[index].start, p.lines[index].end), "\n")

\* Whether the end of the text read so far is the end of the text.
candidate_final(p) == p.snapshot \/ p.ends
see_end(p) == [p EXCEPT !.seen = @ \/ ~candidate_final(p)]
\* A line past the last, or the last before it is complete, is a reading of
\* the end.
EndAsked(p, index) == IF index > Len(p.lines) \/ StartOf(p, index) >= p.complete THEN see_end(p) ELSE p
extend_source_lines(p, index) == EndAsked(S_extend_source_lines(p, index), index)
source_line(p, index) == IF index <= Len(p.lines) THEN p ELSE extend_source_lines(p, index)

-----------------------------------------------------------------------------
\* Matching the open blocks.
NeverDecided == {"heading", "code", "html", "formula", "directive", "table"}
S_continue_decided(b, line, f) ==
  /\ b.kind \notin NeverDecided
  /\ (IF b.kind = "callout" THEN callout_continue_reach(line, f) ELSE f.first) < Len(line) - 1

Answer(how, st) == [how |-> how, st |-> st]
Moved(st, got) == IF got.ok THEN Answer("yes", [st EXCEPT !.c = got.c]) ELSE Answer("no", st)
Says(st, ok) == Answer(IF ok THEN "yes" ELSE "no", st)
continue_list(st, id, f) ==
  Answer(IF f.blank /\ f.indent = 0 /\ "list blank" \in st.n[id].flags THEN "taken" ELSE "yes",
         [st EXCEPT !.n[id] = Flag(@, "list blank", f.blank)])
CodeSays(st, got) == [Moved(st, got) EXCEPT !.how = IF got.closed THEN "closed" ELSE @]
formula_block_matches(st, line, id, f) ==
  IF "closed" \in st.n[id].flags THEN Answer("no", st)
  ELSE IF scan_formula_block_close(line, f.first, st.n[id].facts.delimiter)
  THEN Answer("yes", [st EXCEPT !.n[id].flags = @ \cup {"closed"}, !.c = AdvanceTo(line, @, Len(line))])
  ELSE Answer("yes", st)
directive_block_matches(st, line, id, f) ==
  LET length == st.n[id].facts.length
  IN Answer(IF length = 2 THEN "no" ELSE IF directive_closer_line(line, f, length) THEN "closes" ELSE "yes",
            [st EXCEPT !.n[id].flags = @ \ {"consume line"}])
\* The first five kinds of HTML block take blank lines.
continue_html(st, b, f) == Says(st, b.facts.type <= 5 \/ ~f.blank)
table_matches(st, line, f) == Says(st, recognize_pipe_row(Slice(line, f.first, Len(line))).valid)

\* Whether the line goes on in the open block `id`.  An item a lookahead's
\* block would join, `joining`, takes a blank line as it will then.
Continue(st, line, id, f, joining) ==
  LET b == st.n[id]
  IN CASE b.kind = "callout" -> Moved(st, callout_prefix(line, st.c, f))
       [] b.kind = "list" -> continue_list(st, id, f)
       [] b.kind = "item" -> Moved(st, continue_indented(line, st.c, f, b.facts.offset + b.facts.padding, b.kids # <<>> \/ id = joining))
       [] b.kind \in {"footnote", "specimen"} -> Moved(st, continue_indented(line, st.c, f, 4, TRUE))
       [] b.kind = "body" -> Moved(st, continue_indented(line, st.c, f, b.facts.continuation, TRUE))
       [] b.kind = "paragraph" -> Says(st, ~f.blank)
       [] b.kind = "table" -> table_matches(st, line, f)
       [] b.kind = "html" -> continue_html(st, b, f)
       [] b.kind = "code" -> CodeSays(st, continue_code(line, st.c, f, b.facts))
       [] b.kind = "formula" -> formula_block_matches(st, line, id, f)
       [] b.kind = "directive" -> directive_block_matches(st, line, id, f)
       [] OTHER -> Says(st, b.kind # "heading")

-----------------------------------------------------------------------------
\* The lookahead: where it reads, the containers below the root it matches,
\* the block it would join, the blank lines it stepped over; `limit` is where
\* a reading that can wait stops, and with `waits` that reading takes a line
\* the text has not finished only as far as its bytes decide.
NoLimit == -1
RECURSIVE PathTo(_, _)
PathTo(n, id) == IF id = Root THEN <<>> ELSE Append(PathTo(n, n[id].parent), id)
S_lookahead_start(p, holder, line, limit, waits) ==
  [p |-> p, path |-> PathTo(p.n, holder), joining |-> holder, line |-> line + 1, cursor |-> StartOf(p, line + 1), limit |-> limit,
   waits |-> waits, blanks |-> 0]
lookahead_begin(p, container, child, line) == S_lookahead_start(p, parent_for(p.n, container, child), line, NoLimit, FALSE)

\* The line matched by the containers of the path: carried, taken whole by a
\* list, ended by the first that does not go on or by a directive's closing
\* line, or left to wait.
RECURSIVE PathMatch(_, _, _, _, _, _)
PathDone(how, p) == [how |-> how, p |-> p]
PathOn(p, line, path, joining, unfinished, closing, got) ==
  CASE got.how \in {"no", "closed"} -> PathDone("ended", p)
    [] got.how = "taken" -> PathDone("taken", got.st)
    [] OTHER -> PathMatch(got.st, line, Tail(path), joining, unfinished,
                          IF p.n[Head(path)].kind = "directive" THEN got.how = "closes" ELSE closing)
PathAsk(p, line, path, joining, unfinished, closing, f) ==
  IF unfinished /\ ~S_continue_decided(p.n[Head(path)], line, f) THEN PathDone("waits", p)
  ELSE PathOn(p, line, path, joining, unfinished, closing, Continue(p, line, Head(path), f, joining))
PathMatch(p, line, path, joining, unfinished, closing) ==
  IF path = <<>> THEN PathDone(IF closing THEN "ended" ELSE "carried", p)
  ELSE PathAsk(p, line, path, joining, unfinished, closing, find_first_nonspace(line, p.c))

\* The next line that is not blank, or how the reading ended without one.
RECURSIVE lookahead_next(_)
LookDone(l, how, p) == [how |-> how, p |-> p, blanks |-> l.blanks]
StepOver(l, p) == lookahead_next([l EXCEPT !.p = p, !.line = @ + 1, !.cursor = StartOf(p, l.line + 1), !.blanks = @ + 1])
Carried(l, p, line, unfinished, f) ==
  IF ~f.blank
  THEN LookDone(l, "line", p) @@ [text |-> line, first |-> f.first, indent |-> f.indent, line |-> l.line, incomplete |-> l.cursor >= p.complete]
  ELSE IF unfinished THEN LookDone(l, "waited", p) ELSE StepOver(l, p)
LineMatched(l, line, unfinished, got) ==
  CASE got.how = "ended" -> LookDone(l, "ended", got.p)
    [] got.how = "waits" -> LookDone(l, "waited", got.p)
    [] got.how = "taken" -> StepOver(l, got.p)
    [] got.how = "carried" -> Carried(l, got.p, line, unfinished, find_first_nonspace(line, got.p.c))
LookAt(l, p, line, unfinished) ==
  LineMatched(l, line, unfinished, PathMatch([p EXCEPT !.c = LineStart], line, l.path, l.joining, unfinished, FALSE))
LookIn(l, p) == LookAt(l, p, LineOf(p, l.line), l.waits /\ l.cursor >= p.complete)
lookahead_next(l) ==
  IF l.limit = NoLimit /\ l.cursor >= Len(l.p.source) THEN LookDone(l, "ended", see_end(l.p))
  ELSE IF l.limit # NoLimit /\ l.cursor >= l.limit THEN LookDone(l, "exhausted", l.p)
  ELSE LookIn(l, IF l.limit = NoLimit THEN source_line(l.p, l.line) ELSE S_extend_source_lines(l.p, l.line))
\* What a lookahead leaves in the parse.
lookahead_end(p, got) == [p EXCEPT !.lines = got.p.lines, !.scanned = got.p.scanned, !.seen = got.p.seen]

(***************************************************************************)
(* The candidates (core/blocks.c, THE CANDIDATES).  A call whose reading   *)
(* reads the end of a text that may go on asks to be a candidate, and      *)
(* declines; the commit holds the line at the call, marks its state there  *)
(* and reads on.  Each later line is fed to the candidates first, and an   *)
(* accept puts the commit back at the mark, where the calls before the one *)
(* accepted meet the reading anew and that one claims.                     *)
(*                                                                         *)
(* A mark keeps where the reading stood and the open blocks and the        *)
(* pending one, lent; its path is the blocks below its calls' containers.  *)
(***************************************************************************)
Nothing == [kind |-> "nothing"]

\* A call asks to be a candidate: what it is, the container it was asked in,
\* the kind it would open, its number among the line's asks.
request_candidate(p, what, container, child, continuation) ==
  [p EXCEPT !.request = [what |-> what, container |-> container, child |-> child, continuation |-> continuation, ask |-> p.asks - 1]]

\* The calls a reading that goes on from where the line is held meets: every
\* call of a mark put back, else the ones made at the stop or after it.
S_made_at(call, p) == call.line = p.line /\ call.ask >= p.stop.asks
S_meet_from_stop(p) ==
  LET calls == Last(p.marks).calls
      early == {k \in DOMAIN calls : ~S_made_at(calls[k], p)}
      first == IF p.anew THEN 1 ELSE Max({0} \cup early) + 1
      met == p.marks # <<>> /\ (p.anew \/ first <= Len(calls))
  IN [p EXCEPT !.meet = [mark |-> IF met THEN Len(p.marks) ELSE Len(p.marks) + 1, call |-> IF met THEN first ELSE 1],
               !.anew = IF p.marks = <<>> THEN @ ELSE @ /\ p.snapshot]

\* The call the reading meets next, asked in `container` anew.  A mark whose
\* calls are all decided goes once the last is met.
Waiting(mark) == {k \in DOMAIN mark.calls : ~mark.calls[k].decided}
meets_call(p, container) ==
  LET m == p.meet.mark
      k == p.meet.call
      met == [p EXCEPT !.meet.call = @ + 1]
      anew == [met EXCEPT !.marks[m].calls[k].container = container, !.marks[m].calls[k].stop.container = container]
  IN IF p.snapshot THEN met
     ELSE IF k = Len(p.marks[m].calls) /\ Waiting(p.marks[m]) = {} THEN [anew EXCEPT !.marks = SubSeq(@, 1, Len(@) - 1)] ELSE anew
candidate_meets(p, container) ==
  LET asked == [p EXCEPT !.asks = @ + 1]
      m == p.meet.mark
      k == p.meet.call
      met == /\ m <= Len(p.marks) /\ k <= Len(p.marks[m].calls) /\ <<m, k>> # p.claimant
             /\ p.marks[m].calls[k].line = p.line /\ p.marks[m].calls[k].ask = p.asks
  IN [met |-> met, p |-> IF met THEN meets_call(asked, container) ELSE asked]

-----------------------------------------------------------------------------
\* The mark of a line's first call.
S_mark_lend(p) ==
  LET open == <<Root>> \o PathTo(p.n, p.current) \o (IF p.pending = 0 THEN <<>> ELSE <<p.pending>>)
  IN [i \in DOMAIN open |-> S_lend_to(p, open[i])]
\* Where a reading stands, and a mark of it.
ReadingAt(p) ==
  [current |-> p.current, pending |-> p.pending, c |-> p.c, start |-> p.start, end |-> p.end, last |-> p.last, line |-> p.line,
   kill |-> p.kill, asks |-> p.asks, step |-> p.step]
S_mark(p) == [at |-> ReadingAt(p), line_count |-> Len(p.lines), scanned |-> p.scanned]
S_restore(p, mark) ==
  LET at == mark.at
  IN [p EXCEPT !.current = at.current, !.pending = at.pending, !.c = at.c, !.start = at.start, !.end = at.end, !.last = at.last,
               !.line = at.line, !.kill = at.kill, !.asks = at.asks, !.step = at.step]
S_mark_make(p) == [state |-> S_mark(p), made |-> Len(p.n), lends |-> S_mark_lend(p), calls |-> <<>>]

\* The candidate asked for, made where the commit holds the line: a call
\* asked in the last call's container, or below it, joins its mark.
CallOf(p) ==
  [what |-> p.request.what, container |-> p.request.container, child |-> p.request.child, continuation |-> p.request.continuation,
   ask |-> p.request.ask, stop |-> p.stop, line |-> p.line, ended |-> FALSE, decided |-> FALSE, size |-> 0]
S_path_reach(p, container) == container \in {Root} \cup ToSet(PathTo(p.n, p.request.container))
Joins(p) == p.marks # <<>> /\ Last(Last(p.marks).calls).line = p.line /\ S_path_reach(p, Last(Last(p.marks).calls).container)
S_candidate_make(p) ==
  LET marks == IF Joins(p) THEN p.marks ELSE Append(p.marks, S_mark_make(p))
  IN [p EXCEPT !.marks = [marks EXCEPT ![Len(marks)].calls = Append(@, CallOf(p))], !.request = Nothing]

-----------------------------------------------------------------------------
\* The commit back at mark `m`: its state, the blocks it and the marks after
\* it lent, and the line held at its first call.
TakeBackMark(n, mark) == SubSeq(FoldLeft(TakeBackLend, n, mark.lends), 1, mark.made)
S_candidate_put_back(p, m) ==
  LET first == p.marks[m].calls[1]
      back == FoldLeft(TakeBackMark, p.n, Backwards(SubSeq(p.marks, m, Len(p.marks))))
  IN S_restore([p EXCEPT !.n = back, !.stop = first.stop, !.held = TRUE, !.fed = first.line, !.marks = SubSeq(@, 1, m)], p.marks[m].state)
\* The mark lent again while a call waits; with no call it goes.
S_mark_anew(p, m) ==
  IF Waiting(p.marks[m]) # {} THEN [p EXCEPT !.marks[m].lends = S_mark_lend(p)]
  ELSE IF p.marks[m].calls = <<>> THEN [p EXCEPT !.marks = SubSeq(@, 1, m - 1)] ELSE [p EXCEPT !.marks[m].lends = <<>>]

\* An accept: the call accepted and those after it go.
S_candidate_undo(p, m, k) ==
  S_mark_anew([S_candidate_put_back(p, m) EXCEPT !.marks[m].calls = SubSeq(@, 1, k - 1), !.anew = k > 1], m)
\* A snapshot's accept: every call waits on, and this one claims.
S_candidate_see(p, m, k) == S_mark_anew([S_candidate_put_back(p, m) EXCEPT !.claimant = <<m, k>>, !.anew = TRUE], m)
\* A reject: what the commit read stays, and the mark goes with its last
\* call that waits.
S_candidate_drop(p, m, k) ==
  LET decided == [p EXCEPT !.marks[m].calls[k].decided = TRUE]
      at == p.meet.mark
  IN IF Waiting(decided.marks[m]) # {} THEN decided
     ELSE [p EXCEPT !.marks = SubSeq(@, 1, m - 1) \o SubSeq(@, m + 1, Len(@)),
                    !.meet.mark = IF at > m THEN at - 1 ELSE IF at = m THEN Len(p.marks) ELSE at]

-------------------------------------------------------------------------------
(***************************************************************************)
(* Definition lists (elements/definition_list.c), and the feed that brings *)
(* the candidates of core/blocks.c the lines that decide them.  A line is  *)
(* a term when a definition marker follows it, after one blank line at     *)
(* most; a body takes a blank line when the next line that is not blank is *)
(* indented to it.  Both readings go past their own line, so both are      *)
(* candidates where the text they need has not come yet.                   *)
(***************************************************************************)

MarkerBytes == {":", "~"}
definition_marker(line, at, indent) ==
  indent < CodeIndent /\ at + 1 < Len(line) /\ At(line, at) \in MarkerBytes /\ At(line, at + 1) \in White

\* Whether a marker can start one of the two lines after the term's, by
\* their raw bytes: past the bytes container prefixes are made of, as many
\* quote markers as containers at most.
PrefixBytes == Blank \cup {">"}
AtEnd(p, cursor) == IF cursor >= Len(p.source) THEN see_end(p) ELSE p
RECURSIVE NextLinesAdmit(_, _, _, _)
NextLinesAdmit(p, cursor, depth, lines) ==
  LET Says2(ok, q) == [ok |-> ok, p |-> q]
      Byte(at) == IF At(p.source, at) \notin MarkerBytes THEN Says2(FALSE, p)
                  ELSE Says2(At(p.source, at + 1) \in White \cup Terminators \cup {""}, AtEnd(p, at + 1))
      From(at) ==
        IF Cardinality({i \in cursor .. at - 1 : At(p.source, i) = ">"}) > depth THEN Says2(FALSE, p)
        ELSE IF At(p.source, at) \notin Terminators \cup {""} THEN Byte(at)
        ELSE NextLinesAdmit(AtEnd(p, IF At(p.source, at) = "\r" THEN at + 1 ELSE at), PastEnd(p.source, at), depth, lines - 1)
  IN IF lines = 0 THEN Says2(FALSE, p)
     ELSE IF cursor >= Len(p.source) THEN Says2(FALSE, see_end(p)) ELSE From(Past(p.source, cursor, PrefixBytes))
definition_next_lines_admit(p, parent) == NextLinesAdmit(p, StartOf(p, p.line + 1), Len(PathTo(p.n, parent)), 2)

definition_term_admits(p, parent, line, f) ==
  IF f.blank \/ f.indent >= CodeIndent \/ definition_marker(line, f.first, f.indent) THEN [ok |-> FALSE, p |-> p]
  ELSE definition_next_lines_admit(p, parent)
TermRead(p, got) ==
  [ok |-> got.how = "line" /\ got.blanks <= 1 /\ definition_marker(got.text, got.first, got.indent), compact |-> got.blanks = 0,
   p |-> lookahead_end(p, got)]
definition_term_reads(p, parent, line, f) ==
  IF reference_definition(Slice(line, f.first, Len(line))).length # 0 THEN [ok |-> FALSE, p |-> p]
  ELSE TermRead(p, lookahead_next(lookahead_begin(p, parent, "deflist", p.line)))
Admitted(got, parent, line, f) == IF got.ok THEN definition_term_reads(got.p, parent, line, f) ELSE got
TermReads(p, parent, line, f) == Admitted(definition_term_admits(p, parent, line, f), parent, line, f)
BodyRead(p, got, continuation) ==
  [ok |-> got.how = "line" /\ got.indent >= continuation, line |-> got.line, p |-> lookahead_end(p, got)]
definition_body_continues(p, parent, continuation) ==
  BodyRead(p, lookahead_next(lookahead_begin(p, parent, "paragraph", p.line)) @@ [line |-> 0, indent |-> 0], continuation)

-----------------------------------------------------------------------------
\* A body's answer on a blank line: it takes the line, or not, or `asks`.
BodySays(body, b, got) ==
  IF got.p.seen THEN Answer("asks", request_candidate(got.p, "blank", b.parent, "paragraph", b.facts.continuation))
  ELSE IF got.ok THEN Answer("yes", [got.p EXCEPT !.n[body].facts.line = got.line]) ELSE Answer("no", got.p)
BodyMet(body, b, got) ==
  IF got.met THEN Answer("no", got.p)
  ELSE BodySays(body, b, definition_body_continues([got.p EXCEPT !.seen = FALSE], b.parent, b.facts.continuation))
accepts_blank(p, body) ==
  LET b == p.n[body]
  IN IF b.kind # "body" \/ b.facts.line > p.line THEN Answer("yes", p) ELSE BodyMet(body, b, candidate_meets(p, b.parent))

\* The paragraph opener's call: the line is a term, or not, or it `asks`.
TermSays(container, got) ==
  IF got.p.seen THEN Answer("asks", request_candidate(got.p, "term", container, "deflist", 0))
  ELSE IF got.ok THEN Answer("yes", got.p) @@ [compact |-> got.compact] ELSE Answer("no", got.p)
TermMet(container, line, f, got) ==
  IF got.met THEN Answer("no", got.p) ELSE TermSays(container, TermReads([got.p EXCEPT !.seen = FALSE], container, line, f))
try_paragraph(p, container, line, f) == TermMet(container, line, f, candidate_meets(p, container))

scan_definition(o, line, f) ==
  IF o.st.n[o.container].kind = "definition" /\ definition_marker(line, f.first, f.indent) THEN [kind |-> "body"] ELSE [kind |-> "none"]

-----------------------------------------------------------------------------
\* A call's candidate fed the lines after it up to `limit`: whether they end
\* its construct.  A line its holder does not carry does; a term's line the
\* text has not finished does not yet.
feed_candidate(call, got, waits) ==
  \/ got.how = "ended"
  \/ call.what = "term" /\ got.blanks > 1
  \/ got.how = "line" /\ ~(call.what = "term" /\ waits /\ got.incomplete)
FeedRead(p, call, got, waits) == [ends |-> feed_candidate(call, got, waits), p |-> lookahead_end(p, got)]
S_candidate_feed(p, call, limit, waits) ==
  FeedRead(p, call, lookahead_next(S_lookahead_start(p, parent_for(p.n, call.container, call.child), call.line, limit, waits)), waits)

\* The call read again where it was made; a reading of the end waits.
CallRead(p, call, line) ==
  IF call.what = "term" THEN TermReads(p, call.container, line, find_first_nonspace(line, p.c))
  ELSE definition_body_continues(p, call.container, call.continuation)
decide_candidate(p, call, got) ==
  [how |-> IF got.p.seen THEN "waits" ELSE IF got.ok THEN "accepts" ELSE "rejects",
   p |-> [p EXCEPT !.lines = got.p.lines, !.scanned = got.p.scanned, !.seen = got.p.seen,
                   !.visit = [line |-> call.line, size |-> Len(p.source)]]]
DecideCall(p, call) ==
  decide_candidate(p, call, CallRead([p EXCEPT !.seen = FALSE, !.line = call.line, !.c = call.stop.c], call, LineOf(p, call.line)))
S_candidate_decide(p, m, k) == DecideCall(p, p.marks[m].calls[k])

\* Every call that waits, outermost first, fed the lines through `through`,
\* which ends at `limit`; `again` when an accept put the commit back.
RECURSIVE FeedFrom(_, _, _, _, _)
CallDecided(got, m, k, through, limit) ==
  CASE got.how = "accepts" -> [again |-> TRUE, p |-> S_candidate_undo(got.p, m, k)]
    [] got.how = "rejects" -> FeedFrom(S_candidate_drop(got.p, m, k), m, IF Waiting(got.p.marks[m]) = {k} THEN 1 ELSE k + 1, through, limit)
    [] got.how = "waits" -> FeedFrom([got.p EXCEPT !.marks[m].calls[k].size = Len(got.p.source)], m, k + 1, through, limit)
CallFed(fed, m, k, through, limit) ==
  IF fed.ends THEN CallDecided(S_candidate_decide([fed.p EXCEPT !.marks[m].calls[k].ended = TRUE], m, k), m, k, through, limit)
  ELSE FeedFrom(fed.p, m, k + 1, through, limit)
FeedFrom(p, m, k, through, limit) ==
  LET call == p.marks[m].calls[k]
  IN IF m > Len(p.marks) THEN [again |-> FALSE, p |-> [p EXCEPT !.fed = through]]
     ELSE IF k > Len(p.marks[m].calls) THEN FeedFrom(p, m + 1, 1, through, limit)
     ELSE IF call.decided \/ (IF call.ended THEN call.size = Len(p.source) ELSE call.line >= through)
     THEN FeedFrom(p, m, k + 1, through, limit)
     ELSE CallFed(IF call.ended THEN [ends |-> TRUE, p |-> p] ELSE S_candidate_feed(p, call, limit, ~p.ends), m, k, through, limit)
S_feed(p, through, limit) ==
  IF p.marks = <<>> \/ p.snapshot \/ through <= p.fed THEN [again |-> FALSE, p |-> p] ELSE FeedFrom(p, 1, 1, through, limit)

\* The last commit's text ends: the calls that wait are decided, outermost
\* first.
RECURSIVE S_candidates_end(_)
EndDecided(got, k) ==
  IF got.how = "accepts" THEN [again |-> TRUE, p |-> S_candidate_undo(got.p, 1, k)] ELSE S_candidates_end(S_candidate_drop(got.p, 1, k))
EndFirst(p, k) == EndDecided(S_candidate_decide(p, 1, k), k)
S_candidates_end(p) == IF p.marks = <<>> THEN [again |-> FALSE, p |-> p] ELSE EndFirst(p, Min(Waiting(p.marks[1])))

\* A snapshot looks for the first call its text's end accepts.
RECURSIVE SeeFrom(_, _, _)
SeeDecided(got, m, k) == IF got.how = "accepts" THEN [found |-> TRUE, p |-> got.p, m |-> m, k |-> k] ELSE SeeFrom(got.p, m, k + 1)
SeeFed(fed, m, k) == IF fed.ends THEN SeeDecided(S_candidate_decide(fed.p, m, k), m, k) ELSE SeeFrom(fed.p, m, k + 1)
SeeFrom(p, m, k) ==
  LET call == p.marks[m].calls[k]
  IN IF m > Len(p.marks) THEN [found |-> FALSE, p |-> p]
     ELSE IF k > Len(p.marks[m].calls) THEN SeeFrom(p, m + 1, 1)
     ELSE IF call.decided THEN SeeFrom(p, m, k + 1)
     ELSE SeeFed(IF call.ended THEN [ends |-> TRUE, p |-> p] ELSE S_candidate_feed(p, call, Len(p.source), FALSE), m, k)
S_candidates_see_end(p) == SeeFrom(p, 1, 1)
=============================================================================
