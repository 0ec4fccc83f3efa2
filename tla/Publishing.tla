----------------------------- MODULE Publishing -----------------------------
(***************************************************************************)
(* A session's document from one publish to the next: commits read lines,  *)
(* candidates mark, are accepted and rejected, snapshots lend, read on and *)
(* publish in place, the flush ends the stream, and edits reopen what it   *)
(* left, read and publish again.                                           *)
(*                                                                         *)
(* `parse` is the parser's state (Lending) and `shown` the document as its *)
(* last publish left it, read from the extents; `wanted` is what it should *)
(* be: the places the text's reading gives its nodes, and the ids the rule *)
(* makes of those of the document before it.                               *)
(***************************************************************************)
EXTENDS Lending

(***************************************************************************)
(* A family bounds the histories: lines already committed (`script`), the  *)
(* lines of a text (`size`) and those a snapshot reads on (`tail`), the    *)
(* marks that wait at once, the snapshots (`shown`) and the edits, the     *)
(* lines an edit brings, the blocks open at once, what a line does, the    *)
(* ways content is read, and the definitions at the front of a paragraph.  *)
(***************************************************************************)
CONSTANT Families

VARIABLES family, parse, shown, wanted, count, flushed, failed

vars == <<family, parse, shown, wanted, count, flushed, failed>>

\* The lines of the family; one that goes on with a paragraph stops nowhere else.
Lines ==
    {l \in [what : family.whats, depth : 1..family.depth, way : family.ways, defs : family.defs] :
        /\ l.what = "more" => l.depth = 1 /\ l.way = Min(family.ways) /\ l.defs = 0
        /\ l.what = "under" => l.depth = 1 /\ l.defs = 0
        /\ l.what = "quote" => l.depth + 2 <= family.depth
        /\ l.what \in {"text", "head"} => l.depth < family.depth}

\* The construct an accepted call claims starts with its line.
Claims == {l \in Lines : l.what \in {"head", "quote"}}

Holders(p) == IF p.marks = <<>> THEN <<>>
              ELSE [k \in DOMAIN p.marks[1].lends |->
                       LET entry == p.marks[1].lends[k]
                       IN [address |-> entry.address, last |-> entry.last, count |-> Len(p.h[entry.backup].kids), depth |-> k]]

\* What the parse says of a publish: the edit its old anchors are imaged by, and where the last child it kept ends.
Env(p, keeps) ==
    [root |-> Root, keeps |-> keeps, holders |-> Holders(p),
     edit |-> [from |-> p.edit.from, to |-> p.edit.to, delta |-> p.edit.delta],
     prior |-> IF p.edit.reading /\ p.edit.chain = 0 THEN p.edit.prior ELSE Unanchored]

(***************************************************************************)
(* A publish of the tree: the walk, the records it keeps in place of the   *)
(* old ones, and the nodes those own, which go once it is done.            *)
(***************************************************************************)
markdown_core_publish_tree(p, e) ==
    LET Done(hand) == [Release([p EXCEPT !.h = hand.w.h, !.bad = @ \cup hand.w.bad], SetToSeq(Owned(p.records)))
                          EXCEPT !.next = hand.w.next, !.records = hand.made]
    IN Done(publish_in_place(e, Walk(p.h, p.next, {}), p.records))

\* The root continues the root.
Wanted(edit, tree, next) ==
    LET id == IF shown = <<>> THEN next + 1 ELSE shown.id
        below == Continue(edit, IF shown = <<>> THEN <<>> ELSE shown.kids, tree.kids, IF shown = <<>> THEN id ELSE next)
    IN [tree |-> [tree EXCEPT !.kids = below.kids] @@ [id |-> id], next |-> below.next]

\* The document published, and what it should be after the one before it.
Publish(p, e) ==
    LET Go(q) == /\ parse' = q
                 /\ shown' = Shown(q.h, Root, 0)
                 /\ wanted' = Wanted(e.edit, Placed(q.h, Root), p.next)
    IN Go(markdown_core_publish_tree(p, e))

Init ==
    /\ family \in Families
    /\ parse = FoldLeft(S_process_line, NewParse, family.script)
    /\ shown = <<>> /\ wanted = <<>> /\ count = 0 /\ flushed = FALSE /\ failed = FALSE

Quiet == UNCHANGED <<family, shown, wanted, count, flushed, failed>>

Streaming == ~flushed /\ ~failed

\* A commit reads a line, the take-back first.
Commit ==
    /\ Streaming /\ parse.size < family.size
    /\ LET Go(p) == \E l \in Lines : Reads(p, l) /\ parse' = S_process_line(p, l)
       IN Go(S_take_back(parse, FALSE))
    /\ Quiet

\* An opener's call waits: the line is marked.
Mark ==
    /\ Streaming /\ Len(parse.marks) < family.marks /\ parse.size < family.size
    /\ parse' = S_mark_make(S_take_back(parse, FALSE))
    /\ Quiet

\* A decision accepts: the commit is back at the mark, where the call claims.
Accept ==
    /\ Streaming
    /\ \E m \in DOMAIN parse.marks :
         LET Go(p) == \E l \in Claims : Reads(p, l) /\ parse' = S_process_line(p, l)
         IN Go(S_candidate_undo(S_take_back(parse, FALSE), m))
    /\ Quiet

\* A decision rejects: what the commit read stays.
Reject ==
    /\ Streaming
    /\ \E m \in DOMAIN parse.marks : parse' = S_candidate_drop(S_take_back(parse, FALSE), m)
    /\ Quiet

(***************************************************************************)
(* A snapshot: a candidate it sees end is put back at its mark; it lends   *)
(* from the block its reading stops in, reads on, and publishes.  Where it *)
(* stood is the commit's again, the views in place until the take-back.    *)
(***************************************************************************)
S_read_tail(p, depth, lines) ==
    LET Read(q, l) == IF Reads(q, l) THEN S_process_line(q, l) ELSE q
    IN FoldLeft(Read, S_lend_tail([p EXCEPT !.settle = {}, !.snapshot = TRUE], depth), lines)

markdown_core_parser_snapshot(p, depth, lines, way, defs) == S_close_tail(S_read_tail(p, depth, lines), way, defs)

\* Where the lending stops: the current block with no line left, the root when lines follow the one the commit
\* holds, and with that line alone the block it stopped in.
S_stop(p, depth, lines) ==
    CASE lines = <<>> -> depth = Len(p.path)
      [] Len(lines) = 1 -> Reads(p, lines[1])
      [] OTHER -> depth = 1 /\ Reads(p, lines[1])

S_rollback(p, q) == [q EXCEPT !.path = p.path, !.pending = p.pending, !.size = p.size, !.settle = {Committed}, !.snapshot = FALSE]

Snapshot ==
    /\ Streaming /\ count < family.shown
    /\ \E m \in {0} \cup DOMAIN parse.marks :
         LET Go(p) == \E depth \in DOMAIN p.path, lines \in SeqOf(Lines, family.tail), way \in family.ways,
                         defs \in family.defs :
                         /\ m # 0 => lines # <<>> /\ lines[1] \in Claims
                         /\ S_stop(p, depth, lines)
                         /\ LET At(q) == Publish(S_rollback(p, q), Env(q, TRUE))
                            IN At(markdown_core_parser_snapshot(p, depth, lines, way, defs))
         IN Go(LET back == S_take_back(parse, FALSE) IN IF m = 0 THEN back ELSE S_candidate_see(back, m))
    /\ count' = count + 1
    /\ UNCHANGED <<family, flushed, failed>>

\* A snapshot that fails as it reads lets go the nodes it made, and the parse has failed.
FailSnapshot ==
    /\ Streaming /\ count < family.shown
    /\ LET Go(p) == \E depth \in DOMAIN p.path, lines \in SeqOf(Lines, family.tail) :
                       /\ S_stop(p, depth, lines)
                       /\ LET At(q) == parse' = S_rollback(p, S_take_back(q, TRUE))
                          IN At(S_read_tail(p, depth, lines))
       IN Go(S_take_back(parse, FALSE))
    /\ failed' = TRUE
    /\ UNCHANGED <<family, shown, wanted, count, flushed>>

\* The flush: the text ends, with no call waiting, and the publish keeps nothing for another.
Flush ==
    /\ Streaming /\ parse.marks = <<>>
    /\ \E way \in family.ways, defs \in family.defs :
         LET Go(p) == Publish([p EXCEPT !.path = <<>>], Env(p, FALSE))
         IN Go(S_close_document(S_take_back(parse, FALSE), way, defs))
    /\ flushed' = TRUE
    /\ count' = 0
    /\ UNCHANGED <<family, failed>>

(***************************************************************************)
(* The edits.  A rest point is before a child of the root, the child       *)
(* before the one the edited line is in or an earlier one; or before such  *)
(* a child of the quote the line is in, after a line that is blank to it.  *)
(***************************************************************************)
session_rest_root(from) ==
    LET before == Cardinality({i \in DOMAIN shown.kids : shown.kids[i].end <= from})
    IN {[child |-> c, depth |-> 0, line |-> IF c = 0 THEN 0 ELSE shown.kids[c + 1].start,
         prior |-> IF c = 0 THEN 0 ELSE shown.kids[c].end, keeps |-> 0, start |-> 0, inner |-> 0] :
           c \in {c \in 0..Max({0, before - 1}) : c = 0 \/ ~Spans(parse.h, parse.h[Root].kids[c], parse.h[Root].kids[c + 1])}}

session_rest_in(from) ==
    LET In(c) == LET block == shown.kids[c]
                     kids == block.kids
                     held == Max({0} \cup {i \in DOMAIN kids : kids[i].start <= from})
                 IN {[child |-> c, depth |-> 1, line |-> kids[k + 1].start, prior |-> block.end, keeps |-> k,
                      start |-> block.start, inner |-> kids[k].end] :
                        k \in {k \in 1..(held - 2) : /\ kids[k + 1].start < from /\ kids[k].end < kids[k + 1].start
                                                     /\ ~Trailed(kids[k].kind)}}
    IN UNION {In(c) : c \in {c \in DOMAIN shown.kids : /\ shown.kids[c].kind = Quote
                                                     /\ shown.kids[c].start < from /\ from < shown.kids[c].end}}

\* An edit replaces lines and reopens the document at a rest point before them.
Reopen ==
    /\ flushed /\ ~parse.edit.reading /\ count < family.edits
    /\ \E from \in 0..parse.size, more \in 0..family.brings :
         \E to \in from..parse.size, r \in session_rest_root(from) \cup session_rest_in(from) :
            /\ from < to \/ more > 0
            /\ parse.size + more - (to - from) <= family.size
            /\ LET delta == more - (to - from)
               IN parse' = markdown_core_parser_reopen(parse, r, [from |-> from, to |-> to, delta |-> delta], parse.size + delta)
    /\ UNCHANGED <<family, shown, wanted, count, flushed, failed>>

\* At each line the old tail is taken back, if the reading resumes, and the line read otherwise.
Reread ==
    /\ parse.edit.reading /\ parse.edit.resumed = None /\ parse.size < parse.edit.size
    /\ LET Go(p) == \/ p.edit.resumed # None /\ parse' = p
                    \/ p.edit.resumed = None /\ \E l \in Lines : Reads(p, l) /\ parse' = S_process_line(p, l)
       IN Go(S_resume(parse, Min(family.ways)))
    /\ Quiet

\* The finish of an edit's reading: the root and the block reopened hide what they took back from the publish, and the
\* first of each moves after it.
S_move_lead(h, c, lead) == [h EXCEPT ![c].lead = @ + lead]

S_finish_parse(p, way, defs) ==
    LET Hide(q, c, n) == [q EXCEPT !.h[c].kids = SubSeq(@, 1, n)]
        HideTail(q) == IF q.edit.resumed # None THEN Hide(q, Root, q.edit.tail) ELSE q
        HideNest(q) == IF q.edit.taken # None THEN Hide(q, q.edit.chain, q.edit.tails) ELSE q
        Tailed(q) == record_nest(IF q.edit.unrecorded > 0 THEN record_tail(q, q.edit.unrecorded) ELSE q)
        Move(h, closed, c, n, lead) ==
            LET kids == closed.h[c].kids
                full == [h EXCEPT ![c].kids = kids]
            IN IF n < Len(kids) THEN S_move_lead(full, kids[n + 1], lead) ELSE full
        MoveNest(q, closed) == LET e == closed.edit
                               IN IF e.taken # None THEN Move(q.h, closed, e.chain, e.tails, e.shift) ELSE q.h
        MoveTail(h, closed) == LET e == closed.edit
                               IN IF e.resumed # None THEN Move(h, closed, Root, e.tail, e.lead) ELSE h
        Publish1(q) == markdown_core_publish_tree(q, Env(q, FALSE))
        Done(closed, q) == [q EXCEPT !.h = MoveTail(MoveNest(q, closed), closed), !.edit = NoReading, !.path = <<>>]
        Go(closed) == Done(closed, Publish1(Tailed(HideNest(HideTail(closed)))))
    IN Go(S_close_document(p, way, defs))

(***************************************************************************)
(* The document an edit should leave: what it kept as it was shown, what   *)
(* it read at the places of its reading, and what was shown from where it  *)
(* took the old tail back, moved by the edit.                              *)
(***************************************************************************)
RECURSIVE Moved(_, _)
Moved(t, by) == [kind |-> t.kind, start |-> t.start + by, end |-> t.end + by, kids |-> [i \in DOMAIN t.kids |-> Moved(t.kids[i], by)]]

\* The children of a node that kept `keeps` of the `olds` and was read from `start` on.
Edited(p, h, c, olds, keeps) ==
    LET e == p.edit
        back == IF e.resumed = None THEN <<>> ELSE SelectSeq(olds, LAMBDA t : t.start + e.delta >= e.resumed)
        new == SubSeq(h[c].kids, keeps + 1, Len(h[c].kids) - Len(back))
    IN [i \in 1..keeps |-> Moved(olds[i], 0)] \o [i \in DOMAIN new |-> Placed(h, new[i])]
       \o [i \in DOMAIN back |-> Moved(back[i], e.delta)]

EditedTree(p, h) ==
    LET e == p.edit
        kids == Edited(p, h, Root, shown.kids, e.rest)
        inner == Edited(p, h, e.chain, shown.kids[e.rest].kids, e.keeps)
        block == [Moved(shown.kids[e.rest], 0) EXCEPT !.kids = inner, !.end = h[e.chain].end]
    IN [kind |-> Document, start |-> 0, end |-> e.size, kids |-> IF e.chain = 0 THEN kids ELSE [kids EXCEPT ![e.rest] = block]]

Finish ==
    /\ parse.edit.reading /\ (parse.edit.resumed # None \/ parse.size = parse.edit.size)
    /\ \E way \in family.ways, defs \in family.defs :
         LET Go(q) == /\ parse' = q
                      /\ shown' = Shown(q.h, Root, 0)
                      /\ wanted' = Wanted(Env(parse, FALSE).edit, EditedTree(parse, q.h), parse.next)
         IN Go(S_finish_parse(parse, way, defs))
    /\ count' = count + 1
    /\ UNCHANGED <<family, flushed, failed>>

Next == Commit \/ Mark \/ Accept \/ Reject \/ Snapshot \/ FailSnapshot \/ Flush \/ Reopen \/ Reread \/ Finish

Spec == Init /\ [][Next]_vars

-----------------------------------------------------------------------------
(***************************************************************************)
(* Across snapshots, candidates, the flush and edits, a document a publish *)
(* left shows each node where the text has it, by extents alone, with the  *)
(* id the rule gives it against the whole of the document before: a node   *)
(* still there keeps its id, and no two nodes have one (ast.c, PUBLISHING  *)
(* IN PLACE; blocks.c, THE LENDING, THE SPLICE), though a publish walks    *)
(* only what changed.                                                      *)
(***************************************************************************)
PublishContinues == shown # <<>> /\ ~parse.edit.reading => shown = wanted.tree /\ parse.next = wanted.next

(***************************************************************************)
(* Whenever a parse is let go, in a stream, with snapshots lent, calls     *)
(* waiting or an edit's reading under way, every node goes exactly once    *)
(* (blocks.c, S_parser_dispose), and until then no assert of the walk has  *)
(* failed.                                                                 *)
(***************************************************************************)
NothingLost == parse.next >= 0 => LET p == S_parser_dispose(parse) IN DOMAIN p.h = {Root} /\ p.bad = {}
=============================================================================
