------------------------------ MODULE Lending ------------------------------
(***************************************************************************)
(* The tree a streaming parse builds between two publishes (core/blocks.c).*)
(* A commit's reading changes it for good.  A snapshot LENDS the blocks it *)
(* may change: a lent block's state waits in a slot of its own while its   *)
(* address holds a view, and the next take-back puts the states back.  A   *)
(* candidate's MARK lends every open block the same way, until a commit    *)
(* accepts the candidate, and puts the states back, or rejects it, and the *)
(* views stay.                                                             *)
(*                                                                         *)
(* The text is so many lines.  What a line says is abstracted to what it   *)
(* does to the builder stack: where it stops, and what it opens there.     *)
(* The document and the quotes hold blocks, a paragraph and a heading hold *)
(* inline nodes once they settle, a definition nothing.                    *)
(***************************************************************************)
EXTENDS PublishWalk

CONSTANTS Document, Quote, Paragraph, Heading, Definition, Text, Emphasis \* the kinds

Root == 1

(***************************************************************************)
(* An edit's reading (markdown_core_edit), positions in the old text but   *)
(* for `size` and `point`: the text it replaced and by how much what       *)
(* follows moved; the first child of the root it reads again, after `rest` *)
(* of them, the `held` old ones and those of them moved out; where the one *)
(* before the old tail ends and the one before the `next` it tries.  Of    *)
(* the block it reopened, if one: what it keeps and holds past that, what  *)
(* of those moved out, where it starts and ends, where its last kept child *)
(* ends, its flags, and which of the held is tried next.  `holder` writes  *)
(* its children over old ones, the next at `at`.  The rest is what the     *)
(* reading took back.                                                      *)
(***************************************************************************)
None == -1

NoReading ==
    [reading |-> FALSE, from |-> 0, to |-> 0, delta |-> 0, size |-> 0,
     rest |-> 0, held |-> 0, children |-> <<>>, unrecorded |-> 0, prior |-> 0, before |-> 0, next |-> 0, point |-> None,
     chain |-> 0, keeps |-> 0, holds |-> 0, nested |-> <<>>, end |-> 0, inner |-> 0, states |-> {},
     nestOn |-> FALSE, nestIndex |-> 0, nestPrior |-> 0, taken |-> None, tails |-> 0, shift |-> 0,
     holder |-> 0, at |-> None, rootRoom |-> None, resumed |-> None, tail |-> 0, lead |-> 0]

(***************************************************************************)
(* A parse: the heap; the builder stack, from the root to the current      *)
(* block, and the closed block that waits to settle; the lines read; the   *)
(* flags a block takes as it settles and whether a snapshot reads; what    *)
(* the last snapshot lent and the block its lending reaches; the marks;    *)
(* the records of the last publish; the edit that reads, if one does; and  *)
(* the asserts that failed.                                                *)
(***************************************************************************)
NewParse ==
    [h |-> Root :> Node(Document, 0, 0, {Open}), path |-> <<Root>>, pending |-> 0, size |-> 0,
     settle |-> {Committed}, snapshot |-> FALSE, lends |-> <<>>, rooms |-> <<>>, boundary |-> 0,
     marks |-> <<>>, records |-> <<>>, next |-> 0, edit |-> NoReading, bad |-> {}]

\* What the storage of a node's children holds, those past its count too.
Storage(n) == n.kids \o n.past

\* The old child whose place the room's next child takes moves out.
S_tail_stash(p) ==
    LET e == p.edit
        old == Storage(p.h[e.holder])[e.at + 1]
        more == IF e.holder = Root THEN Len(e.children) + 1 < e.held ELSE Len(e.nested) + 1 < e.holds
        out == [p EXCEPT !.edit.at = IF more THEN @ + 1 ELSE None]
    IN IF e.holder = Root THEN [out EXCEPT !.edit.children = Append(@, old)] ELSE [out EXCEPT !.edit.nested = Append(@, old)]

\* Before `parent` takes a child at the end of its children.
S_tail_room(p, parent) == IF parent = p.edit.holder /\ Len(p.h[parent].kids) = p.edit.at THEN S_tail_stash(p) ELSE p

\* A bug: the old children still in place stay in the block's storage.
RoomUpAlone(p) == [p EXCEPT !.edit.holder = Root, !.edit.at = p.edit.rootRoom]

\* The block that holds the room closes: its old children still in place move out, and the root holds the room.
S_room_up(p) ==
    LET e == p.edit
        left == SubSeq(Storage(p.h[e.chain]), e.keeps + Len(e.nested) + 1, e.keeps + e.holds)
    IN [p EXCEPT !.edit.nested = @ \o left, !.edit.holder = Root, !.edit.at = e.rootRoom, !.h[e.chain].past = <<>>]

Lowest(s) == CHOOSE n \in 1..(Cardinality(s) + 1) : n \notin s /\ \A m \in 1..(n - 1) : m \in s

Taken(p) == Lowest(DOMAIN p.h)

Put(p, c, n) == [p EXCEPT !.h = (c :> n) @@ @]

Drop(p, cs) == [p EXCEPT !.h = (Root :> @[Root]) @@ [c \in DOMAIN @ \ cs |-> @[c]]]

Rest(past) == IF past = <<>> THEN past ELSE Tail(past)

LastKid(n) == IF n.kids = <<>> THEN 0 ELSE Last(n.kids)

RECURSIVE Below(_, _)
Below(h, c) == {c} \cup (IF c \in DOMAIN h THEN UNION {Below(h, h[c].kids[i]) : i \in DOMAIN h[c].kids} ELSE {})

\* A node let go with all below it; one let go twice is a fault.
markdown_core_parser_release_node(p, c) ==
    [Drop(p, Below(p.h, c)) EXCEPT !.bad = @ \cup (IF Below(p.h, c) \subseteq DOMAIN p.h THEN {} ELSE {"released"})]

Release(p, cs) == FoldLeft(markdown_core_parser_release_node, p, cs)

(***************************************************************************)
(* Lending                                                                 *)
(***************************************************************************)
\* The address takes a view, which no publish placed; the state waits in a slot of its own.
markdown_core_node_view(n) == [n EXCEPT !.flags = @ \ {Published}]

Lend(p, c) == [address |-> c, backup |-> Taken(p), last |-> LastKid(p.h[c]), dropped |-> FALSE]

LendSwap(p, c) ==
    [p EXCEPT !.h = (Taken(p) :> p.h[c]) @@
                    [@ EXCEPT ![c] = [markdown_core_node_view(p.h[c]) EXCEPT !.flags = @ \cup {Lent}]]]

S_lend(p, c) == [LendSwap(p, c) EXCEPT !.lends = Append(@, Lend(p, c))]

S_room(p, c) ==
    [p EXCEPT !.rooms = Append(@, [node |-> c, last |-> LastKid(p.h[c]), count |-> Len(p.h[c].kids), end |-> p.h[c].end,
                                   flags |-> p.h[c].flags])]

\* The block below `c` on the builder stack, 0 below the root.
ParentOn(path, c) == IF c = Root THEN 0 ELSE path[(CHOOSE i \in DOMAIN path : path[i] = c) - 1]

S_lend_below(p, c) ==
    LET parent == ParentOn(p.path, c)
        lent == [S_lend(p, c) EXCEPT !.boundary = parent]
    IN IF parent = 0 THEN lent ELSE S_room(lent, parent)

\* The stop at `depth` of the stack and every block open above it lent, the pending block first.
S_lend_tail(p, depth) ==
    LET below == IF depth = 1 THEN 0 ELSE p.path[depth - 1]
        reached == [(IF below = 0 THEN p ELSE S_room(p, below)) EXCEPT !.boundary = below]
        blocks == (IF p.pending = 0 THEN <<>> ELSE <<p.pending>>) \o Reverse(SubSeq(p.path, depth, Len(p.path)))
    IN FoldLeft(S_lend, reached, blocks)

(***************************************************************************)
(* The take-back                                                           *)
(***************************************************************************)
\* The children a reading added to a node that held `count`, the last of them `last`.
S_added(n, count, last) ==
    SelectSeq(SubSeq(n.kids, IF count = 0 THEN 1 ELSE count, Len(n.kids)), LAMBDA k : k # last)

\* The children again as they were: the array is the view's, which may have grown, with the last put back.
S_take_back_children(kids, count, last) == IF count = 0 THEN <<>> ELSE SubSeq(kids, 1, count - 1) \o <<last>>

RECURSIVE Owned(_), Renamed(_, _, _)
Owned(records) == UNION {{records[i].node} \cup Owned(records[i].held) : i \in DOMAIN records} \ {0}
Renamed(records, from, to) ==
    [i \in DOMAIN records |-> [records[i] EXCEPT !.node = IF @ = from THEN to ELSE @, !.held = Renamed(@, from, to)]]

\* A node the snapshot made is its record's; a view of another kind too, in the slot that held the block.  With
\* `release`, of a snapshot that failed, they go.
S_take_back_lend(p, entry, release) ==
    LET view == p.h[entry.address]
        block == p.h[entry.backup]
        swapped == [p EXCEPT !.h = (entry.address :> block) @@ ((entry.backup :> view) @@ @)]
        back == [block EXCEPT !.id = view.id,
                              !.kids = S_take_back_children(view.kids, Len(block.kids), entry.last)]
        left == IF release THEN Release(p, S_added(view, Len(block.kids), entry.last)) ELSE p
    IN IF view.kind # block.kind
       THEN IF ~release /\ entry.address \in Owned(p.records)
            THEN [swapped EXCEPT !.records = Renamed(@, entry.address, entry.backup)]
            ELSE markdown_core_parser_release_node(swapped, entry.backup)
       ELSE Drop(Put(left, entry.address, back), {entry.backup})

S_take_back_room(p, room) ==
    LET n == p.h[room.node]
        kept == {Published, Final}
    IN Put(p, room.node, [n EXCEPT !.kids = S_take_back_children(n.kids, room.count, room.last), !.end = room.end,
                                   !.flags = (room.flags \ kept) \cup (@ \cap kept)])

S_take_back(p, release) ==
    LET Lent1(q, entry) == S_take_back_lend(q, entry, release)
        Room1(q, room) == S_take_back_room(IF release THEN Release(q, S_added(q.h[room.node], room.count, room.last)) ELSE q,
                                           room)
    IN [FoldLeft(Room1, FoldLeft(Lent1, p, Reverse(p.lends)), Reverse(p.rooms)) EXCEPT
          !.lends = <<>>, !.rooms = <<>>, !.boundary = 0]

(***************************************************************************)
(* The reading                                                             *)
(***************************************************************************)
Current(p) == Last(p.path)

\* The inline nodes a leaf's content reads as, of three ways to read it.
Inlines(n, way) ==
    CASE n.kind \notin {Paragraph, Heading} -> <<>>
      [] n.kind \in {Paragraph, Heading} /\ way = 2 /\ n.end > n.start + 1 ->
             <<Node(Text, n.start, n.start + 1, {}), Node(Emphasis, n.start + 1, n.end, {})>>
      [] OTHER -> <<Node(IF way = 1 THEN Emphasis ELSE Text, n.start, n.end, {})>>

\* A block settles: it takes the settle flags, and completion makes its content.
S_settle(p, c, way) ==
    LET parts == Inlines(p.h[c], way)
        Grow(q, part) == [Put(q, Taken(q), part) EXCEPT !.h[c].kids = Append(@, Taken(q))]
    IN FoldLeft(Grow, [p EXCEPT !.h[c].flags = @ \cup p.settle], parts)

S_settle_pending(p, way) == IF p.pending = 0 THEN p ELSE [S_settle(p, p.pending, way) EXCEPT !.pending = 0]

\* The definitions at the front of a paragraph, as many as `defs` lines, settle before it as it closes.
markdown_core_block_settle_before(p, c, parent, way) ==
    LET n == p.h[c]
        d == Taken(p)
        made == Put(S_tail_room(p, parent), d, Node(Definition, n.start, n.start + 1, {}))
        held == [made EXCEPT !.h[parent] = [@ EXCEPT !.kids = Front(@) \o <<d, c>>, !.past = Rest(@)], !.h[c].start = @ + 1]
    IN S_settle(held, d, way)

\* A lent block that left its holder's children: the last mark that lent anything keeps it.
S_candidate_drops(p, c) ==
    LET m == Max({i \in DOMAIN p.marks : p.marks[i].lends # <<>>})
        k == CHOOSE i \in DOMAIN p.marks[m].lends : p.marks[m].lends[i].address = c
    IN IF p.snapshot THEN p ELSE [p EXCEPT !.marks[m].lends[k].dropped = TRUE]

\* The current block closes: it waits to settle, or, when it yields no node of its own, leaves its holder's children.
S_close_current(p, way, defs) ==
    LET c == Current(p)
        parent == ParentOn(p.path, c)
        Shut(q) == [q EXCEPT !.h[c].flags = @ \ {Open, Published}, !.h[c].end = p.size]
        Roomed(q) == IF c = q.edit.holder THEN S_room_up(q) ELSE q
        Defined(q) == IF defs > 0 /\ q.h[c].kind = Paragraph THEN markdown_core_block_settle_before(q, c, parent, way) ELSE q
        Popped(q) == [q EXCEPT !.path = Front(@), !.pending = 0,
                               !.h[parent] = [@ EXCEPT !.kids = Front(@), !.past = IF @ = <<>> THEN @ ELSE <<c>> \o @]]
        Leave(q) == CASE q.h[c].kind # Paragraph \/ q.h[c].start < q.h[c].end -> [q EXCEPT !.path = Front(@), !.pending = c]
                      [] OTHER -> IF Has(q.h[c], Lent) THEN S_candidate_drops(Popped(q), c)
                                  ELSE markdown_core_parser_release_node(Popped(q), c)
    IN Leave(Defined(Roomed(Shut(S_settle_pending(IF c = p.boundary THEN S_lend_below(p, c) ELSE p, way)))))

RECURSIVE markdown_core_parser_close_below(_, _, _, _)
markdown_core_parser_close_below(p, depth, way, defs) ==
    IF Len(p.path) <= depth THEN p
    ELSE markdown_core_parser_close_below(S_close_current(p, way, defs), depth, way, defs)

markdown_core_parser_add_child(p, kind, way) ==
    LET ready == S_tail_room(S_settle_pending(p, way), Current(p))
        c == Taken(ready)
    IN [Put(ready, c, Node(kind, p.size, p.size, {Open})) EXCEPT
          !.h[Current(p)] = [@ EXCEPT !.kids = Append(@, c), !.past = Rest(@)], !.path = Append(@, c)]

\* A paragraph a line turns into a heading takes the kind in place, with the id and the lending the old kind's.
markdown_core_node_set_kind(p, c, kind) == [p EXCEPT !.h[c] = [@ EXCEPT !.kind = kind, !.id = 0, !.flags = @ \ {Lent}]]

(***************************************************************************)
(* A line: it goes on with the current paragraph, makes it a heading, or   *)
(* stops in the container at a depth of the stack, where every block above *)
(* closes, and opens what it opens there.  A text line opens a paragraph   *)
(* only where none is open to go on with it.                               *)
(***************************************************************************)
Reads(p, l) ==
    IF l.what \in {"more", "under"} THEN p.h[Current(p)].kind = Paragraph
    ELSE /\ l.depth \in 1..Len(p.path) /\ p.h[p.path[l.depth]].kind \in {Document, Quote}
         /\ l.what = "text" => p.h[Current(p)].kind # Paragraph

S_process_line(p, l) ==
    LET Past(q) == [q EXCEPT !.size = @ + 1]
        Opens(q, kind) == markdown_core_parser_add_child(q, kind, l.way)
        At(stopped) == CASE l.what = "head" -> S_close_current(Past(Opens(stopped, Heading)), l.way, 0)
                         [] l.what = "blank" -> Past(stopped)
                         [] OTHER -> Past(Opens(IF l.what = "quote" THEN Opens(stopped, Quote) ELSE stopped, Paragraph))
    IN CASE l.what = "more" -> Past(p)
         [] l.what = "under" -> S_close_current(markdown_core_node_set_kind(Past(p), Current(p), Heading), l.way, 0)
         [] OTHER -> At(markdown_core_parser_close_below(p, l.depth, l.way, l.defs))

\* The document closes as the input ends: every open block, and the root, which settles into nothing.
S_close_document(p, way, defs) ==
    LET Shut(q) == S_settle([q EXCEPT !.h[Root].flags = @ \ {Open, Published}, !.h[Root].end = p.size], Root, way)
    IN Shut(S_settle_pending(markdown_core_parser_close_below(p, 1, way, defs), way))

(***************************************************************************)
(* The end of the text as a snapshot reads it: what was lent closes, and   *)
(* the open blocks from the one the lending reached down to the root end   *)
(* there without closing.                                                  *)
(***************************************************************************)
S_close_tail(p, way, defs) ==
    LET depth == CHOOSE i \in DOMAIN p.path : p.path[i] = p.boundary
        End(q, c) == [q EXCEPT !.h[c].end = p.size]
        Ended(q) == FoldLeft(End, q, SubSeq(q.path, 1, depth))
    IN IF p.boundary = 0 THEN S_close_document(p, way, defs)
       ELSE Ended(S_settle_pending(markdown_core_parser_close_below(p, depth, way, defs), way))

(***************************************************************************)
(* The candidates                                                          *)
(***************************************************************************)
\* Every open block from the root up, and the pending block last, lent to the mark at `m`.
S_mark_lend(p, m) ==
    LET LendTo(q, c) == [LendSwap(q, c) EXCEPT !.marks[m].lends = Append(@, Lend(q, c))]
    IN FoldLeft(LendTo, p, p.path \o (IF p.pending = 0 THEN <<>> ELSE <<p.pending>>))

S_mark_make(p) ==
    S_mark_lend([p EXCEPT !.marks = Append(@, [lends |-> <<>>, path |-> p.path, pending |-> p.pending, size |-> p.size])],
                Len(p.marks) + 1)

\* A block takes its state as the mark found it back, and what the commit read since is released.
S_candidate_take_back(p, entry) ==
    LET view == p.h[entry.address]
        block == p.h[entry.backup]
        back == [block EXCEPT !.id = IF view.kind # block.kind THEN 0 ELSE view.id,
                              !.kids = S_take_back_children(view.kids, Len(block.kids), entry.last)]
        gone == IF view.kind # block.kind THEN view.kids ELSE S_added(view, Len(block.kids), entry.last)
    IN Drop(Put(Release(p, gone), entry.address, back), {entry.backup})

S_candidate_put_back(p, m) ==
    LET undone == FlattenSeq(Reverse([i \in 1..(Len(p.marks) - m + 1) |-> p.marks[m + i - 1].lends]))
        mark == p.marks[m]
    IN [FoldLeft(S_candidate_take_back, p, undone) EXCEPT
          !.path = mark.path, !.pending = mark.pending, !.size = mark.size,
          !.marks = Append(SubSeq(@, 1, m - 1), [mark EXCEPT !.lends = <<>>])]

\* An accept: the commit back at the mark, which goes with the call.
S_candidate_undo(p, m) == [S_candidate_put_back(p, m) EXCEPT !.marks = Front(@)]

\* A snapshot's accept: the commit back at the mark, whose call waits on.
S_candidate_see(p, m) == S_mark_lend(S_candidate_put_back(p, m), m)

\* A reject: what the mark lent stays as the commit read it, the view at the address or in the next mark's slot.
S_mark_unlend(p, m) ==
    LET Of(i, c) == IF i \in DOMAIN p.marks THEN {k \in DOMAIN p.marks[i].lends : p.marks[i].lends[k].address = c} ELSE {}
        Unlend(q, k) ==
            LET entry == p.marks[m].lends[k]
                inner == k \in Of(m + 1, entry.address)
                outer == k \in Of(m - 1, entry.address)
                view == IF inner THEN p.marks[m + 1].lends[k].backup ELSE entry.address
                adopted == Drop([q EXCEPT !.h[view].flags = IF outer THEN @ ELSE @ \ {Lent}], {entry.backup})
            IN CASE inner \/ ~entry.dropped -> adopted
                 [] ~inner /\ entry.dropped /\ outer -> [adopted EXCEPT !.marks[m - 1].lends[k].dropped = TRUE]
                 [] OTHER -> markdown_core_parser_release_node(adopted, entry.address)
    IN FoldLeft(Unlend, p, [k \in DOMAIN p.marks[m].lends |-> k])

S_candidate_drop(p, m) == LET q == S_mark_unlend(p, m) IN [q EXCEPT !.marks = RemoveAt(@, m)]

-------------------------------------------------------------------------------
(***************************************************************************)
(* An edit of a flushed document (core/blocks.c, THE REOPEN, THE SPLICE):  *)
(* the root keeps the children before a rest point, reads the text on from *)
(* there, and takes its old children back from the first whose line the    *)
(* reading meets as the old one did.  The rest point may be below a quote  *)
(* of the root, which is reopened with the children it keeps and takes its *)
(* own back.                                                               *)
(*                                                                         *)
(* Nothing moves the place a parse wrote: the old children are measured by *)
(* their extents.  They stay in the storage of their holder, past its      *)
(* count, and the reading writes its own over them.                        *)
(***************************************************************************)

\* The old tail's child at `index`, and that of the reopened block.
markdown_core_edit_old(p, index) ==
    IF index <= Len(p.edit.children) THEN p.edit.children[index] ELSE Storage(p.h[Root])[p.edit.rest + index]

markdown_core_edit_nested(p, index) ==
    IF index <= Len(p.edit.nested) THEN p.edit.nested[index] ELSE Storage(p.h[p.edit.chain])[p.edit.keeps + index]

(***************************************************************************)
(* The next old child the reading may take back, and where its line is in  *)
(* the new text: one past the edit, and not at the text's start.  Those of *)
(* the reopened block come first.                                          *)
(***************************************************************************)
EditPassed(p) ==
    LET e == p.edit
        nested == p.h[markdown_core_edit_nested(p, e.nestIndex + 1)]
        old == p.h[markdown_core_edit_old(p, e.next + 1)]
    IN IF e.nestOn THEN [p EXCEPT !.edit.nestIndex = @ + 1, !.edit.nestPrior = @ + nested.lead + nested.span]
       ELSE [p EXCEPT !.edit.next = @ + 1, !.edit.before = @ + old.lead + old.span]

RECURSIVE S_edit_next(_)
S_edit_next(p) ==
    LET e == p.edit
        At(start) == IF start >= e.to /\ start + e.delta > 0 THEN [p EXCEPT !.edit.point = start + e.delta]
                     ELSE S_edit_next(EditPassed(p))
    IN CASE e.nestOn /\ e.nestIndex < e.holds -> At(e.nestPrior + p.h[markdown_core_edit_nested(p, e.nestIndex + 1)].lead)
         [] e.nestOn /\ e.nestIndex >= e.holds -> S_edit_next([p EXCEPT !.edit.nestOn = FALSE])
         [] ~e.nestOn /\ e.next < e.held -> At(e.before + p.h[markdown_core_edit_old(p, e.next + 1)].lead)
         [] OTHER -> [p EXCEPT !.edit.point = None]

S_edit_pass(p) == S_edit_next(EditPassed(p))

(***************************************************************************)
(* The reopen.  `r` is the rest point: the root's first `child` children   *)
(* stay, the reading starts at line `line`, and where the last of them     *)
(* ends; below a quote, how many of its children it keeps, where it starts *)
(* and where the last of those ends.                                       *)
(***************************************************************************)
Split(n, count) == [n EXCEPT !.kids = SubSeq(@, 1, count), !.past = SubSeq(n.kids, count + 1, Len(n.kids))]

\* The chain is recorded as a block that stays; of the children it keeps only the last is marked FINAL, where it ends written.
reopen_chain(p, c, r) ==
    LET n == p.h[c]
        last == n.kids[r.keeps]
    IN [p EXCEPT !.records = <<Record(0, n.id, r.start, r.start + n.span, n.kind, <<>>)>>,
                 !.h[last] = [@ EXCEPT !.flags = @ \cup {Final}, !.end = r.inner],
                 !.h[c] = [Split(n, r.keeps) EXCEPT !.start = r.start, !.flags = @ \ {Final}]]

\* The document lets go the children past `child`; the last it keeps, the chain no part of them, is marked FINAL.
markdown_core_publish_reopen(p, r) ==
    LET kids == p.h[Root].kids
        c == kids[r.child]
        final == r.child - r.depth
        anchored == IF r.depth = 1 /\ r.child > 1 THEN [p EXCEPT !.h[kids[r.child - 1]].end = r.start - p.h[c].lead] ELSE p
        chained == IF r.depth = 1 THEN reopen_chain(anchored, c, r) ELSE anchored
        marked == IF final > 0 THEN [chained EXCEPT !.h[kids[final]].flags = @ \cup {Final}] ELSE chained
    IN [marked EXCEPT !.h[Root] = Split(@, r.child), !.bad = @ \cup (IF p.records = <<>> THEN {} ELSE {"records"})]

\* The old tail kept aside, with room for every old child the reading may write over.
S_edit_keep(p, r, edit, size) ==
    LET held == Len(p.h[Root].kids) - r.child
    IN [p EXCEPT !.edit = [NoReading EXCEPT !.reading = TRUE, !.from = edit.from, !.to = edit.to, !.delta = edit.delta,
                             !.size = size, !.rest = r.child, !.held = held, !.unrecorded = held, !.prior = r.prior,
                             !.before = r.prior, !.holder = Root, !.at = IF held > 0 THEN r.child ELSE None]]

\* What the block of the chain keeps and holds, its flags and its end.
S_chain_keep(p, r) ==
    LET c == p.h[Root].kids[r.child]
        n == p.h[c]
    IN [p EXCEPT !.edit = [@ EXCEPT !.chain = c, !.keeps = r.keeps, !.holds = Len(n.kids) - r.keeps, !.inner = r.inner,
                             !.end = r.start + n.span, !.states = n.flags]]

\* The chain's block open at the rest point.
S_reopen_level(n) == [n EXCEPT !.flags = (@ \cup {Open}) \ {Final, Committed}]

S_reopen_chain(p, r) ==
    LET e == p.edit
    IN [p EXCEPT !.h[e.chain] = S_reopen_level(@), !.path = <<Root, e.chain>>,
                 !.edit = [@ EXCEPT !.rootRoom = e.at, !.holder = e.chain, !.at = IF e.holds > 0 THEN e.keeps ELSE None,
                                    !.nestOn = e.holds > 0, !.nestPrior = e.inner]]

markdown_core_parser_reopen(p, r, edit, size) ==
    LET kept == S_edit_keep(p, r, edit, size)
        chained == IF r.depth = 1 THEN S_chain_keep(kept, r) ELSE kept
        reopened == [markdown_core_publish_reopen(chained, r) EXCEPT
                        !.size = r.line, !.path = <<Root>>, !.pending = 0, !.h[Root].flags = @ \cup {Open}]
    IN S_edit_next(IF r.depth = 1 THEN S_reopen_chain(reopened, r) ELSE reopened)

(***************************************************************************)
(* The records of the old children the reading passed, which own them from *)
(* then on.                                                                *)
(***************************************************************************)
reopen_record(p, records, before, old) ==
    LET from == IF records = <<>> THEN before ELSE Last(records).end
        n == p.h[old]
    IN Append(records, Record(old, n.id, from + n.lead, from + n.lead + n.span, n.kind, <<>>))

Recorded(p, olds, before) == FoldLeft(LAMBDA s, old : reopen_record(p, s, before, old), <<>>, olds)

record_tail(p, count) ==
    LET olds == [i \in 1..count |-> markdown_core_edit_old(p, i)]
    IN [p EXCEPT !.records = @ \o Recorded(p, olds, p.edit.prior), !.edit.unrecorded = 0]

\* Those before the first the block took back, or all of them, which the reading moved out of the block.
record_nest(p) ==
    LET e == p.edit
        count == IF e.taken = None THEN e.holds ELSE e.taken
        out == SubSeq(e.nested, 1, Min({count, Len(e.nested)}))
    IN IF e.chain = 0 \/ count = 0 THEN p
       ELSE [p EXCEPT !.records[1].held = Recorded(p, out, e.inner),
                      !.bad = @ \cup (IF Len(e.nested) < count THEN {"saves"} ELSE {})]

\* The chain's record is the root's first, and the old tail's follow it.
markdown_core_publish_splice(p, child) == IF p.edit.unrecorded = 0 THEN p ELSE record_tail(p, Min({child, p.edit.unrecorded}))

(***************************************************************************)
(* The old children back after those of the reading: the ones it passed    *)
(* move out, the ones in place follow, those moved out before between.     *)
(***************************************************************************)
S_tail_out(p, end) ==
    LET e == p.edit
    IN [p EXCEPT !.edit.at = None,
                 !.edit.children = @ \o SubSeq(Storage(p.h[Root]), e.rest + Len(@) + 1, e.rest + end)]

S_tail_mend(p, first) ==
    LET out == S_tail_out(p, first)
        e == out.edit
        root == out.h[Root]
        back == SubSeq(e.children, first + 1, Len(e.children)) \o SubSeq(Storage(root), e.rest + Len(e.children) + 1, e.rest + e.held)
    IN IF first >= e.held THEN out
       ELSE [out EXCEPT !.h[Root] = [@ EXCEPT !.kids = @ \o back, !.past = <<>>]]

S_nest_mend(p, first) ==
    LET e == p.edit
        block == p.h[e.chain]
        out == e.nested \o SubSeq(Storage(block), e.keeps + Len(e.nested) + 1, e.keeps + first)
        back == SubSeq(out, first + 1, Len(out)) \o SubSeq(Storage(block), e.keeps + Len(out) + 1, e.keeps + e.holds)
    IN [p EXCEPT !.edit.nested = out, !.h[e.chain] = [@ EXCEPT !.kids = @ \o back, !.past = <<>>]]

(***************************************************************************)
(* The reading takes the old tail back from its child `next`: it stands    *)
(* where the old one stood as the text ended.  The first taken back is     *)
(* measured from the child now before it.                                  *)
(***************************************************************************)
S_splice(p, start, way) ==
    LET settled == S_settle_pending(p, way)
        e == settled.edit
        kids == settled.h[Root].kids
        joined == IF Len(kids) > e.rest \/ e.chain # 0 THEN settled.h[Last(kids)].end ELSE e.prior
        mended == markdown_core_publish_splice(S_tail_mend(settled, e.next), e.next)
    IN [mended EXCEPT !.path = <<Root>>, !.size = e.size,
                      !.edit = [@ EXCEPT !.tail = Len(kids), !.resumed = start, !.lead = e.before + e.delta - joined, !.point = None]]

\* The block takes its own back and closes as it did, where it ended moved by the edit; then the root takes its old tail.
S_splice_in(p, start, way) ==
    LET settled == S_settle_pending(p, way)
        e == settled.edit
        kids == settled.h[e.chain].kids
        kept == [S_nest_mend(settled, e.nestIndex) EXCEPT
                    !.edit = [@ EXCEPT !.shift = e.nestPrior + e.delta - settled.h[Last(kids)].end, !.tails = Len(kids),
                                       !.taken = e.nestIndex, !.at = None],
                    !.h[e.chain] = [@ EXCEPT !.flags = e.states \ {Open, Published, Final}, !.end = e.end + e.delta],
                    !.path = <<Root>>, !.pending = e.chain]
    IN S_splice(kept, start, way)

(***************************************************************************)
(* Whether the reading stands as the old one did where the child it tries  *)
(* starts.  A line after a quote may name it, so none is taken back there, *)
(* nor is a paragraph away from the definitions its lines started with.    *)
(***************************************************************************)
Trailed(kind) == kind = Quote

\* The readings that span a line, of what the model's lines say: a paragraph's of the definitions it starts with.
Spans(h, before, c) == before # 0 /\ h[before].kind = Definition /\ h[c].kind = Paragraph /\ h[c].lead = 0

OldBefore(p, index) == IF index = 0 THEN LastKid([kids |-> SubSeq(p.h[Root].kids, 1, p.edit.rest)]) ELSE markdown_core_edit_old(p, index)

S_resumes(p) ==
    LET last == LastKid(p.h[Root])
    IN /\ p.path = <<Root>>
       /\ last # 0 => ~Trailed(p.h[last].kind)
       /\ ~Spans(p.h, OldBefore(p, p.edit.next), markdown_core_edit_old(p, p.edit.next + 1))

NestedBefore(p, index) == IF index = 0 THEN p.h[p.edit.chain].kids[p.edit.keeps] ELSE markdown_core_edit_nested(p, index)

\* The line before is the old text's, past the edit, and both children before ended before it.
S_resumes_in(p, start) ==
    LET e == p.edit
        block == p.h[e.chain]
        before == start - 1
    IN /\ Last(p.path) = e.chain /\ block.kids # <<>>
       /\ ~Trailed(p.h[Last(block.kids)].kind)
       /\ p.h[Last(block.kids)].end <= before
       /\ before - e.delta > e.to /\ e.nestPrior <= before - e.delta
       /\ ~Spans(p.h, NestedBefore(p, e.nestIndex), markdown_core_edit_nested(p, e.nestIndex + 1))

\* At the start of a line: the old tail taken back, or the next child tried.
RECURSIVE S_resume(_, _)
S_resume(p, way) ==
    LET e == p.edit
    IN CASE e.point = None \/ e.point > p.size -> p
         [] e.point # None /\ e.point < p.size -> S_resume(S_edit_pass(p), way)
         [] e.nestOn /\ e.point = p.size /\ S_resumes_in(p, p.size) -> S_splice_in(p, p.size, way)
         [] ~e.nestOn /\ e.point = p.size /\ S_resumes(p) -> S_splice(p, p.size, way)
         [] OTHER -> S_edit_pass(p)

(***************************************************************************)
(* A parse let go: what it lent and marked first, then the old children no *)
(* record holds, the root, and what the records own.                       *)
(***************************************************************************)
S_candidates_release(p) ==
    FoldLeft(LAMBDA q, m : [S_mark_unlend(q, m) EXCEPT !.marks = Front(@)], p, Reverse([m \in DOMAIN p.marks |-> m]))

S_tail_leave(p) ==
    LET e == p.edit
        end == IF e.taken = None THEN e.holds ELSE e.taken
        out == IF e.unrecorded > 0 THEN S_tail_out(p, Max({e.unrecorded, Len(e.children)})) ELSE p
        nested == [i \in 1..end |-> markdown_core_edit_nested(p, i)]
    IN IF e.chain = 0 THEN out ELSE Release(out, nested)

S_release_tail(p) == Release(p, SubSeq(p.edit.children, 1, p.edit.unrecorded))

S_parser_dispose(p) ==
    LET back == S_tail_leave(S_candidates_release(S_take_back(p, FALSE)))
        Rest1(q) == Release(q, SetToSeq(Owned(q.records)))
    IN Rest1(S_release_tail(Release(back, back.h[Root].kids)))
=============================================================================
