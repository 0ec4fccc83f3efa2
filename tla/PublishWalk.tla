---------------------------- MODULE PublishWalk ----------------------------
(***************************************************************************)
(* A publish gives every node of the document its extent, measured from    *)
(* the node before it, and its id: the id of the old node it continues, or *)
(* the next one (elements/ast.c, PUBLISHING IN PLACE).  The nodes of the   *)
(* pool are a heap, from a node's number to its state; a node has one      *)
(* relation, its children, and the source of a node is its range.          *)
(*                                                                         *)
(* What the last publish kept of the nodes that may leave the tree is a    *)
(* sequence of records for the children of the root, each with the records *)
(* of its own children: the array and free list of the code, whose entries *)
(* name each other, read as the lists they hold.                           *)
(***************************************************************************)
EXTENDS Integers, Sequences, FiniteSets, SequencesExt, FiniteSetsExt, Functions

CONSTANTS Open, Lent, Committed, Final, Published, \* the flags of a node a publish reads
          Decided, Undecided, Holder               \* the content a candidate may take back

\* A node the parse makes at `start`: no publish has placed it.  Its children are those its count says, and `past` what its
\* storage holds after them.
Node(kind, start, end, flags) ==
    [kind |-> kind, start |-> start, end |-> end, flags |-> flags, id |-> 0, kids |-> <<>>, past |-> <<>>, lead |-> 0,
     span |-> 0]

Has(n, flag) == flag \in n.flags

Record(node, id, start, end, kind, held) ==
    [node |-> node, id |-> id, start |-> start, end |-> end, kind |-> kind, held |-> held]

NoEdit == [from |-> 0, to |-> 0, delta |-> 0]

(***************************************************************************)
(* The image of an old anchor: the first byte of an old node's source the  *)
(* edit kept, where it stands now.                                         *)
(***************************************************************************)
Unanchored == -1

publish_anchor(edit, r) ==
    CASE r.start >= r.end -> Unanchored
      [] r.start < r.end /\ r.start < edit.from -> r.start
      [] r.start < r.end /\ r.start >= edit.from /\ r.start >= edit.to -> r.start + edit.delta
      [] r.start < edit.to /\ r.start >= edit.from /\ r.end > edit.to -> edit.to + edit.delta
      [] OTHER -> Unanchored

\* A bug: a node that continues none passes every old entry left.
MatchedOnce(edit, olds, kind, start, end) ==
    LET hits == {i \in DOMAIN olds : publish_anchor(edit, olds[i]) \in start..(end - 1) /\ olds[i].kind = kind}
    IN IF hits = {} THEN [hit |-> <<>>, rest |-> <<>>]
       ELSE [hit |-> <<olds[Min(hits)]>>, rest |-> SubSeq(olds, Min(hits) + 1, Len(olds))]

(***************************************************************************)
(* The old node a node continues among the old entries not yet passed, and *)
(* the entries left for the nodes after it: the earliest of its kind whose *)
(* anchor its source holds.  A node that continues none passes the entries *)
(* whose anchors lie before it.                                            *)
(***************************************************************************)
publish_record_match(edit, olds, kind, start, end) ==
    LET at(i) == publish_anchor(edit, olds[i])
        before == {i \in DOMAIN olds : \A j \in 1..i : at(j) = Unanchored \/ at(j) < end}
        hits == {i \in before : at(i) >= start /\ at(i) # Unanchored /\ olds[i].kind = kind}
        stops == {i \in DOMAIN olds : at(i) # Unanchored /\ at(i) >= start}
    IN IF hits # {} THEN [hit |-> <<olds[Min(hits)]>>, rest |-> SubSeq(olds, Min(hits) + 1, Len(olds))]
       ELSE [hit |-> <<>>, rest |-> IF stops = {} THEN <<>> ELSE SubSeq(olds, Min(stops), Len(olds))]

(***************************************************************************)
(* The children of an old node a snapshot made, which no take-back writes, *)
(* as the entries its successor's children are matched against: each is    *)
(* measured from where the one before it ends.                             *)
(***************************************************************************)
publish_pair(h, old) ==
    FoldLeft(LAMBDA s, k : LET from == IF s = <<>> THEN old.start ELSE Last(s).end
                           IN Append(s, Record(k, h[k].id, from + h[k].lead, from + h[k].lead + h[k].span, h[k].kind, <<>>)),
             <<>>, h[old.node].kids)

\* What the walk carries: the heap, the last id issued and the asserts that failed.
Walk(h, next, bad) == [h |-> h, next |-> next, bad |-> bad]

\* A node the walk enters, measured from `anchor`; one that is closed and published stands.
publish_node_in_place(n, anchor) ==
    IF Has(n, Published) /\ ~Has(n, Open) THEN n
    ELSE [n EXCEPT !.lead = n.start - anchor, !.span = n.end - n.start, !.flags = @ \cup {Published}]

(***************************************************************************)
(* Publishing what continues nothing: the nodes and all below them take    *)
(* the next ids, a node before its children.  Each is new and closed.      *)
(***************************************************************************)
RECURSIVE publish_fresh(_, _, _)
publish_fresh(w, items, anchor) ==
    IF items = <<>> THEN w
    ELSE LET c == Head(items)
             n == w.h[c]
             new == n.id = 0 /\ n.flags \cap {Open, Published} = {}
             placed == [publish_node_in_place(n, anchor) EXCEPT !.id = w.next + 1]
             below == publish_fresh(Walk([w.h EXCEPT ![c] = placed], w.next + 1, w.bad \cup (IF new THEN {} ELSE {"new"})),
                                    n.kids, n.start)
         IN publish_fresh(below, Tail(items), n.end)

(***************************************************************************)
(* The walk in place.  `e` is what the parse says of the publish: whether  *)
(* another follows it (`keeps`), the edit it follows and where the last    *)
(* child the edit kept ends, and the blocks the first mark lent, the root  *)
(* first, each with its last child and how many it held.                   *)
(*                                                                         *)
(* A frame is a node entered: its `olds` are what its children are matched *)
(* against, `own` when it continues itself by its records.                 *)
(***************************************************************************)
NoHolder == [address |-> 0, last |-> 0, count |-> 0, depth |-> 0]

\* Whether `c` is the block the first mark lent at `depth`, the root's 1, and its entry.
markdown_core_parser_holder(e, depth, c) == depth \in DOMAIN e.holders /\ e.holders[depth].address = c

HolderAt(e, depth) == [e.holders[depth] EXCEPT !.depth = depth]

\* The decided content of the child at `index` of a node.
publish_held(e, f, c, index) ==
    CASE f.decided # Holder -> f.decided
      [] f.decided = Holder /\ c = f.holds.last ->
             IF markdown_core_parser_holder(e, f.holds.depth + 1, c) THEN Holder ELSE Decided
      [] OTHER -> IF index < f.holds.count THEN Decided ELSE Undecided

\* How many of the children of a node a publish placed before are its FINAL prefix.
publish_pass_final(h, n) ==
    Max({0} \cup {i \in DOMAIN n.kids : Has(h[n.kids[i]], Final)})

\* Whether the publish keeps a record of a child it did not make final, and the node it owns.
publish_record(n, c, s, held, committed) ==
    Record(IF committed \/ n.flags \cap {Open, Lent} # {} THEN 0 ELSE c, n.id, s.start, s.end, n.kind, held)

\* What of the relation is in hand: the walk, the old entries left, where the next is measured from, the records kept.
Hand(w, olds, anchor, made) == [w |-> w, olds |-> olds, anchor |-> anchor, made |-> made]

Frame(node, n, persists, decided, holds, committed, olds, own) ==
    [node |-> node, persists |-> persists, published |-> n.id # 0, decided |-> decided, holds |-> holds,
     committed |-> committed, olds |-> olds, own |-> own,
     keeps |-> persists /\ (decided # Decided \/ n.flags \cap {Open, Lent} # {})]

(***************************************************************************)
(* The child at `index` of the node `f` is for: placed, matched, held and  *)
(* its own children walked, against what it continues, or as what          *)
(* continues nothing.                                                      *)
(***************************************************************************)
RECURSIVE publish_matched(_, _, _)

publish_child(e, f, hand, index) ==
    LET c == hand.w.h[f.node].kids[index]
        n == hand.w.h[c]
        decided == publish_held(e, f, c, index)
        committed == f.committed \/ Has(n, Committed)
        placed == publish_node_in_place(n, hand.anchor)
        source == [start |-> hand.anchor + placed.lead, end |-> hand.anchor + placed.lead + placed.span]
        m == publish_record_match(e.edit, hand.olds, n.kind, source.start, source.end)
        id == IF m.hit = <<>> THEN hand.w.next + 1 ELSE m.hit[1].id
        next == IF m.hit = <<>> THEN id ELSE hand.w.next
        persists == f.persists /\ (n.id # 0 \/ n.flags \cap {Open, Lent} # {} \/ (committed /\ decided # Decided))
        final == f.persists /\ committed /\ decided = Decided
        live == m.hit # <<>> /\ m.hit[1].node # 0
        olds == CASE m.hit = <<>> -> <<>> [] live -> publish_pair(hand.w.h, m.hit[1]) [] OTHER -> m.hit[1].held
        asserts == (IF m.hit # <<>> /\ n.id # 0 /\ m.hit[1].id # n.id THEN {"self"} ELSE {})
                   \cup (IF n.id # 0 /\ ~f.persists /\ e.keeps THEN {"persists"} ELSE {})
        here == [placed EXCEPT !.id = id, !.flags = IF final THEN @ \cup {Final} ELSE @]
        entered == Walk([hand.w.h EXCEPT ![c] = here], next, hand.w.bad \cup asserts)
        Keep(below) ==
            Hand(below.w, m.rest, n.end,
                 IF f.persists /\ f.keeps /\ ~final
                 THEN Append(hand.made, publish_record(here, c, source, below.made, committed)) ELSE hand.made)
    IN Keep(IF m.hit = <<>> /\ ~persists THEN Hand(publish_fresh(entered, n.kids, n.start), <<>>, 0, <<>>)
            ELSE publish_matched(e, entered,
                     Frame(c, n, persists, decided,
                           IF decided = Holder THEN HolderAt(e, f.holds.depth + 1) ELSE NoHolder,
                           committed, olds, m.hit # <<>> /\ ~live)))

publish_matched(e, w, f) ==
    LET n == w.h[f.node]
        passed == IF f.published THEN publish_pass_final(w.h, n) ELSE 0
        from == IF passed = 0 THEN n.start
                ELSE IF f.node = e.root /\ e.prior # Unanchored THEN e.prior ELSE w.h[n.kids[passed]].end
        asserts == IF passed # 0 /\ ~f.own THEN {"continues"} ELSE {}
    IN FoldLeft(LAMBDA hand, i : publish_child(e, f, hand, i),
                Hand([w EXCEPT !.bad = @ \cup asserts], f.olds, from, <<>>), [i \in 1..(Len(n.kids) - passed) |-> passed + i])

(***************************************************************************)
(* The root is published in place, against the records `olds` the last     *)
(* publish kept.  The records it keeps are what the root holds now.        *)
(***************************************************************************)
publish_in_place(e, w, olds) ==
    LET root == w.h[e.root]
        undecided == e.holders # <<>>
        placed == publish_node_in_place(root, 0)
        id == IF root.id # 0 THEN root.id ELSE w.next + 1
        decided == IF undecided THEN Holder ELSE Decided
    IN IF root.id = 0 /\ ~e.keeps THEN Hand(publish_fresh(w, <<e.root>>, 0), <<>>, 0, <<>>)
       ELSE publish_matched(e, Walk([w.h EXCEPT ![e.root] = [placed EXCEPT !.id = id]],
                                    IF root.id # 0 THEN w.next ELSE id, w.bad),
                            Frame(e.root, root, e.keeps, decided, IF undecided THEN HolderAt(e, 1) ELSE NoHolder,
                                  Has(root, Committed), olds, root.id # 0))

(***************************************************************************)
(* What a publish promises.  The document as a reader walks it, from the   *)
(* extents alone; and the ids it should have, from the whole of the        *)
(* document published before: each node continues the earliest old node of *)
(* its kind, not yet passed, among the children of the node its parent     *)
(* continues, whose anchor its source holds, and otherwise takes the next  *)
(* id.                                                                     *)
(***************************************************************************)
RECURSIVE Shown(_, _, _)
Shown(h, c, from) ==
    LET n == h[c]
        start == from + n.lead
        kids == FoldLeft(LAMBDA s, k : Append(s, Shown(h, k, IF s = <<>> THEN start ELSE Last(s).end)), <<>>, n.kids)
    IN [kind |-> n.kind, id |-> n.id, start |-> start, end |-> start + n.span, kids |-> kids]

RECURSIVE Placed(_, _)
Placed(h, c) == [kind |-> h[c].kind, start |-> h[c].start, end |-> h[c].end,
                 kids |-> [i \in DOMAIN h[c].kids |-> Placed(h, h[c].kids[i])]]


RECURSIVE Continue(_, _, _, _)
Continue(edit, olds, news, next) ==
    IF news = <<>> THEN [kids |-> <<>>, next |-> next]
    ELSE LET n == Head(news)
             hits == {i \in DOMAIN olds : publish_anchor(edit, olds[i]) \in n.start..(n.end - 1) /\ olds[i].kind = n.kind}
             old == IF hits = {} THEN [id |-> next + 1, kids |-> <<>>] ELSE olds[Min(hits)]
             below == Continue(edit, old.kids, n.kids, IF hits = {} THEN next + 1 ELSE next)
             after == Continue(edit, IF hits = {} THEN olds ELSE SubSeq(olds, Min(hits) + 1, Len(olds)), Tail(news), below.next)
         IN [kids |-> <<[kind |-> n.kind, id |-> old.id, start |-> n.start, end |-> n.end, kids |-> below.kids]>> \o after.kids,
             next |-> after.next]
=============================================================================
