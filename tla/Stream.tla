------------------------------- MODULE Stream -------------------------------
(***************************************************************************)
(* A document's text read as it arrives (core/blocks.c: the driver, the    *)
(* commit and the snapshot).  A commit reads the lines the text has        *)
(* finished and holds the next; a snapshot reads the rest on blocks it     *)
(* lends, shows the document and puts the parse back; the last commit      *)
(* reads everything and the parse finishes.                                *)
(*                                                                         *)
(* The dialect leaves out the document's properties, comments, block       *)
(* identifiers, attributes and the labels of directives.                   *)
(***************************************************************************)
EXTENDS LineMachine

CONSTANT Families
VARIABLES family, text, st, shown, whole, over, grown
vars == <<family, text, st, shown, whole, over, grown>>

EmptyParse(memo) ==
  [n |-> <<Block("document", 0, 0, NoFacts)>>, current |-> Root, pending |-> 0, c |-> LineStart, start |-> 0, end |-> 0, last |-> 0,
   reading |-> FALSE, boundary |-> 0, lends |-> <<>>, rooms |-> <<>>, made |-> 1, line |-> 0, kill |-> 0, lines |-> <<>>,
   scanned |-> 0, complete |-> 0, source |-> <<>>, held |-> FALSE, stop |-> Nothing, visit |-> [line |-> 0, size |-> 0],
   snapshot |-> FALSE, ends |-> FALSE, memo |-> memo, asks |-> 0, step |-> 0, seen |-> FALSE, request |-> Nothing, marks |-> <<>>,
   meet |-> [mark |-> 1, call |-> 1], anew |-> FALSE, claimant |-> <<>>, fed |-> 0]

\* The line the text had not finished goes on.
S_scan_last_line(p) ==
  LET last == Last(p.lines) IN WithLine(p, S_scan_line(p.source, last.start, last.end), Len(p.lines))

\* Where the last finished line ends: a CR that ends the text may be half of
\* a terminator.  The search goes back no further than the last byte read.
S_complete_end(source, read, complete) ==
  LET floor == IF read > 0 THEN read - 1 ELSE 0
      length == Len(source)
      to == IF length > floor /\ At(source, length - 1) = "\r" THEN length - 1 ELSE length
      ends == {i \in floor .. to - 1 : At(source, i) \in Terminators}
  IN IF length > floor /\ At(source, length - 1) = "\n" THEN length ELSE IF ends = {} THEN complete ELSE Max(ends) + 1
S_read_line(p, index, from, hold) ==
  S_line_machine([p EXCEPT !.start = p.lines[index].start, !.end = p.lines[index].end], LineOf(p, index), from, hold)

-----------------------------------------------------------------------------
\* The driver: the line held first, held again while the text still ends in
\* it; then the lines up to the limit, and the line that starts there, held.
\* The candidates see each line first, and an accept starts over from the
\* line held at its mark; a request stops the reading.
RECURSIVE S_read_lines(_, _, _)
LineRead(read, limit, hold) == IF hold \/ read.request # Nothing THEN read ELSE S_read_lines(read, limit, FALSE)
LineFed(fed, limit, held, index, hold) ==
  LET p == fed.p
  IN IF fed.again THEN S_read_lines(p, limit, p.held)
     ELSE LineRead(S_read_line(IF held THEN S_meet_from_stop([p EXCEPT !.held = @ /\ p.snapshot]) ELSE p, index, held, hold), limit, hold)
LineFound(p, limit, held, index, hold) ==
  LineFed(S_feed(p, index, PastEnd(p.source, p.lines[index].end)), limit, held, index, hold)
S_read_lines(p, limit, held) ==
  LET index == IF held THEN p.line ELSE p.line + 1
      start == StartOf(p, index)
      hold == ~p.snapshot /\ start >= limit
      holds == hold /\ start = limit /\ start < Len(p.source) /\ p.line # 0
  IN IF held \/ start < limit \/ holds THEN LineFound(S_extend_source_lines(p, index), limit, held, index, hold) ELSE p
S_parse_source(p, source) ==
  LET sized == [p EXCEPT !.complete = S_complete_end(source, Len(p.source), @), !.source = source]
      unfinished == sized.lines # <<>> /\ sized.scanned < Len(source) /\ source[sized.scanned] # "\n"
  IN S_read_lines(IF unfinished THEN S_scan_last_line(sized) ELSE sized, IF candidate_final(p) THEN Len(source) ELSE sized.complete, p.held)

\* A commit reads until a request ends it, makes the candidate and reads on;
\* the last one decides the candidates its lines leave.  A snapshot, which
\* decides every call it reads, reads once.
RECURSIVE CommitFrom(_, _)
CommitDecided(got, source) == IF got.again THEN CommitFrom(got.p, source) ELSE got.p
CommitRead(read, source) ==
  IF read.request # Nothing THEN CommitFrom(S_candidate_make(read), source)
  ELSE IF read.ends /\ read.marks # <<>> THEN CommitDecided(S_candidates_end(read), source) ELSE read
CommitFrom(p, source) == CommitRead(S_parse_source(p, source), source)

\* The block the lending stops at: where the held line stopped, or the
\* current block, when the text has nothing more to read in the root.
S_stop(p, source) ==
  IF p.held THEN (IF PastEnd(source, p.lines[p.line].end) >= Len(source) THEN p.stop.container ELSE Root)
  ELSE IF StartOf(p, p.line + 1) < Len(source) THEN Root ELSE p.current
S_rollback(mark, p) ==
  [S_restore(p, mark) EXCEPT !.lines = SubSeq(@, 1, mark.line_count), !.scanned = mark.scanned]
\* A snapshot that sees a candidate end reads from the candidate's mark: the
\* parse it starts from, and goes back to, and what it has scanned by then.
SnapshotSees(p, got) ==
  LET Seen(from) == [from |-> from, ready |-> from]
  IN IF got.found THEN Seen(S_candidate_see(S_rollback(S_mark(p), got.p), got.m, got.k)) ELSE [from |-> p, ready |-> got.p]
SnapshotLends(seen, source) == [from |-> seen.from, ready |-> S_lend_tail(seen.ready, S_stop(seen.ready, source))]

\* What a caller may ask: more text is committed, which takes back what the
\* last snapshot lent; the document so far is shown; the text ends.  The
\* document is whole after the last two, and `back` is the parse left.
Before(ask, p, source) ==
  IF ask = "show" THEN SnapshotLends(SnapshotSees(p, S_candidates_see_end([p EXCEPT !.snapshot = TRUE])), source)
  ELSE [from |-> p, ready |-> [S_take_back(p) EXCEPT !.ends = ask = "finish", !.fed = 0]]
Whole(ask, p) == IF ask = "grow" THEN p ELSE S_close_tail(p)
After(ask, from, read) ==
  [read |-> read, back |-> IF ask = "show" THEN [S_rollback(S_mark(from), read) EXCEPT !.snapshot = FALSE, !.claimant = <<>>] ELSE read]
ParseFrom(ask, start, source) == After(ask, start.from, Whole(ask, CommitFrom(start.ready, source)))
parse(ask, p, source) == ParseFrom(ask, Before(ask, p, source), source)

\* The document a parse shows.
RECURSIVE Tree(_, _)
Tree(n, id) ==
  LET b == n[id]
  IN [kind |-> b.kind, start |-> b.start, end |-> b.end, facts |-> IF b.kind = "body" THEN NoFacts ELSE b.facts, tight |-> b.tight,
      text |-> IF b.kind \in Prose \cup {"cell"} THEN BytesOf(TextOf(b)) ELSE b.literal, kids |-> [i \in DOMAIN b.kids |-> Tree(n, b.kids[i])]]

-----------------------------------------------------------------------------
Init ==
  /\ family \in Families
  /\ text = <<>>
  /\ st = EmptyParse(TRUE)
  /\ shown = Nothing
  /\ whole = Nothing
  /\ over = FALSE
  /\ grown = 0

\* One call: more text arrives, the document so far is shown, or the text is
\* over.  Beside it a text that grew is read at once by a parse of its own,
\* which keeps no failed thematic break.
Job(ask, p) == [ask |-> ask, p |-> p]
RECURSIVE Read(_, _)
Read(jobs, source) == IF jobs = <<>> THEN <<>> ELSE <<parse(Head(jobs).ask, Head(jobs).p, source)>> \o Read(Tail(jobs), source)
Call(ask, source) ==
  LET jobs == <<Job(ask, st)>> \o (IF ask = "grow" THEN <<Job("finish", EmptyParse(FALSE))>> ELSE <<>>)
      Put(read) ==
        /\ st' = read[1].back
        /\ shown' = IF ask = "grow" THEN Nothing ELSE Tree(read[1].read.n, Root)
        /\ whole' = IF ask = "grow" THEN Tree(read[2].read.n, Root) ELSE whole
  IN Put(Read(jobs, source))
Calls == {[ask |-> "grow", piece |-> piece] : piece \in family.pieces} \cup {[ask |-> ask, piece |-> <<>>] : ask \in {"show", "finish"}}
Ask(call) ==
  /\ ~over
  /\ call.ask # "grow" => text # <<>>
  /\ call.ask = "show" => shown = Nothing
  /\ call.ask = "grow" => grown < family.max
  /\ grown' = grown + (IF call.ask = "grow" THEN 1 ELSE 0)
  /\ text' = text \o call.piece
  /\ Call(call.ask, text')
  /\ over' = (call.ask = "finish")
  /\ UNCHANGED family
Next == \E call \in Calls : Ask(call)
Spec == Init /\ [][Next]_vars

-----------------------------------------------------------------------------
\* StreamIsWhole: the document a snapshot shows, and the one the parse ends
\* with, is the document of the text read at once, however the text arrived
\* and whatever was shown before: a line held stops before the first step
\* more text can change, and a take-back leaves the blocks as the lines made
\* them (blocks.c, THE LINE A SESSION HOLDS and THE LENDING).
StreamIsWhole == shown # Nothing => shown = whole

Completed(b) == b.kind = "cell" /\ b.facts.completed
RECURSIVE Within(_)
Within(b) ==
  /\ b.start <= b.end
  /\ \A i \in DOMAIN b.kids : /\ b.start <= b.kids[i].start /\ b.kids[i].end <= b.end /\ Within(b.kids[i])
                               /\ i > 1 /\ ~Completed(b.kids[i]) => b.kids[i - 1].end <= b.kids[i].start

\* BlockPlacesNest: in every document shown a block lies within the block
\* that holds it, and after the block before it (but for the cells a short
\* row is completed with, which stand on its last byte), though blocks end on three
\* different lines (their own, the line before and the line of their end
\* condition), definitions are cut off the front of a paragraph, and a
\* snapshot ends the open blocks without closing them.
BlockPlacesNest == shown # Nothing => Within(shown)

\* The kinds whose blank lines are the text's: none of theirs holds a blank
\* line of its own or hides one.
Spacing == {"document", "list", "item", "paragraph", "heading"}
RECURSIVE OnlySpacing(_)
OnlySpacing(b) == b.kind \in Spacing /\ \A i \in DOMAIN b.kids : OnlySpacing(b.kids[i])
BlankBefore(start) ==
  LET solid == {i \in 0 .. start - 1 : At(text, i) \notin White \cup Terminators}
      from == IF solid = {} THEN 0 ELSE Max(solid) + 1
      ends == {i \in from .. start - 1 : At(text, i) \in Terminators /\ ~(At(text, i) = "\n" /\ At(text, i - 1) = "\r")}
  IN Cardinality(ends) > 1
Spaced(blocks) == \E i \in DOMAIN blocks : i > 1 /\ BlankBefore(blocks[i].start)
RECURSIVE LoosenessRight(_)
LoosenessRight(b) ==
  /\ b.kind = "list" => (b.tight <=> ~(Spaced(b.kids) \/ \E i \in DOMAIN b.kids : Spaced(b.kids[i].kids)))
  /\ \A i \in DOMAIN b.kids : LoosenessRight(b.kids[i])

\* LooseIsSpaced: a list is loose exactly when a blank line stands between
\* two of its items or two of the blocks one of them holds, though the
\* parser keeps the blank line as a flag of the block before it, folds it
\* from a nested list's last block outward as blocks settle, and clears it
\* down the open blocks at every line.
LooseIsSpaced == shown # Nothing => (OnlySpacing(shown) => LoosenessRight(shown))
=============================================================================
