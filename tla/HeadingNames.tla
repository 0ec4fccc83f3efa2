---------------------------- MODULE HeadingNames ----------------------------
(***************************************************************************)
(* The anchors of headings while a parse streams: the committed names, a   *)
(* snapshot's overlay over them, and the finalize, which starts anew       *)
(* (heading.c, THE COMMITTED NAMES).                                       *)
(*                                                                         *)
(* Every name is of one root: a name is the sequence of its suffixes, <<>> *)
(* the root itself, <<1>> the root with -1, <<1, 2>> that with -2.  An     *)
(* item of the text is one unit long: a heading, its base the name its     *)
(* text projects to, or a block with an explicit anchor, or both.          *)
(***************************************************************************)
EXTENDS Integers, Sequences, FiniteSets, SequencesExt

NoName == <<-1>>

Heading(base) == [head |-> TRUE, base |-> base, label |-> NoName]
Anchor(label) == [head |-> FALSE, base |-> NoName, label |-> label]
Authored(base, label) == [head |-> TRUE, base |-> base, label |-> label]

(* A heading's entry and its node: where it starts; the base its text      *)
(* projects to; whether its attributes write its anchor; the name its      *)
(* entry keeps and the base of it; the name its node shows; whether the    *)
(* two part (holds_name), and whether the snapshot under way named it.     *)
markdown_core_heading_parse(item, start) ==
    [start |-> start, text |-> item.base, authored |-> item.label # NoName, base |-> NoName,
     name |-> NoName, node |-> item.label, holds |-> FALSE, renamed |-> FALSE]

(***************************************************************************)
(* A pass of the names: the headings, the index it writes, the committed   *)
(* one beneath an overlay, how many headings are committed and which of    *)
(* those show another name.  A name's entry says who takes it, 0 an        *)
(* explicit anchor, and the suffix a heading of that base tries next.      *)
(***************************************************************************)
NoIndex == [n \in {} |-> 0]
Vacant == [by |-> -1, next |-> 1]

name_entry(p, n) ==
    CASE n \in DOMAIN p.index -> p.index[n]
      [] n \notin DOMAIN p.index /\ p.over /\ n \in DOMAIN p.beneath -> p.beneath[n]
      [] OTHER -> Vacant

PutEntry(p, n, entry) ==
    [p EXCEPT !.index = (n :> entry) @@ @]

append_anchor_suffix(base, k) == Append(base, k)
name_suffix(n, base) == IF n = base THEN 0 ELSE Last(n)

(* The first suffix from `k` on with Free; some one in `Reach` steps is.   *)
FirstFrom(k, reach, Free(_)) == CHOOSE j \in k..(k + reach) : Free(j) /\ \A i \in k..(j - 1) : ~Free(i)
Reach(p) == Cardinality(DOMAIN p.index) + Cardinality(DOMAIN p.beneath)

(* A committed heading an overlay names, or one whose entry holds its      *)
(* committed name: the node and the entry part.                            *)
give_name_apart(p, at, n, base) ==
    LET h == p.heads[at]
        holds == h.holds \/ h.name # n
    IN  IF p.over /\ at <= p.named
        THEN [p EXCEPT !.heads[at].node = n, !.heads[at].holds = holds, !.heads[at].renamed = TRUE,
                       !.renamed = IF h.renamed THEN @ ELSE Append(@, at)]
        ELSE [p EXCEPT !.heads[at].node = n, !.heads[at].name = n, !.heads[at].base = base,
                       !.heads[at].holds = FALSE]

hand_name(p, at, n, base) ==
    [p EXCEPT !.heads[at].node = n, !.heads[at].name = n, !.heads[at].base = base]

GiveName(p, at, n, base) ==
    IF p.heads[at].holds \/ (p.over /\ at <= p.named)
    THEN give_name_apart(p, at, n, base)
    ELSE hand_name(p, at, n, base)

claim_name(p, at, n) == PutEntry(p, n, [name_entry(p, n) EXCEPT !.by = at])

(* The heading after every other takes its base, or the base with the      *)
(* first vacant suffix from the one the base's entry keeps, past which the *)
(* entry then stands.                                                      *)
take_last(p, at, base) ==
    LET entry == name_entry(p, base)
        k == FirstFrom(entry.next, Reach(p), LAMBDA j : name_entry(p, Append(base, j)) = Vacant)
        n == append_anchor_suffix(base, k)
    IN  IF entry = Vacant
        THEN claim_name(hand_name(p, at, base, base), at, base)
        ELSE claim_name(hand_name(PutEntry(p, base, [entry EXCEPT !.next = k + 1]), at, n, base), at, n)

(* A heading displaced from `n` goes on along its sequence, past its own   *)
(* name, to one vacant or held by a later heading, which is displaced.     *)
RECURSIVE displace(_, _, _)
displace(p, at, n) ==
    LET base == p.heads[at].base
        k == FirstFrom(name_suffix(n, base) + 1, Reach(p),
                       LAMBDA j : name_entry(p, Append(base, j)).by \notin 0..at)
        next == append_anchor_suffix(base, k)
        holder == name_entry(p, next).by
        given == claim_name(GiveName(p, at, next, base), at, next)
    IN  IF holder > 0 THEN displace(given, holder, next) ELSE given

(* A record's name: reserved, taken from the heading that holds it.        *)
read_record(p, n) ==
    LET entry == name_entry(p, n)
        reserved == PutEntry(p, n, [entry EXCEPT !.by = 0])
    IN  IF entry.by > 0 THEN displace(reserved, entry.by, n) ELSE reserved

read_records(p, labels) == FoldLeft(read_record, p, labels)

(* A heading whose entry keeps a name takes its base from it.              *)
NameHeading(p, at) ==
    LET h == p.heads[at]
    IN  IF h.authored THEN p ELSE take_last(p, at, IF h.name = NoName THEN h.text ELSE h.base)

name_headings(p, first, end) == FoldLeft(NameHeading, p, [i \in 1..(end - first) |-> first + i])

(***************************************************************************)
(* What the finish of a snapshot and of a parse does with them.            *)
(***************************************************************************)
RestoreOne(heads, i) ==
    IF heads[i].holds /\ ~heads[i].renamed
    THEN [heads EXCEPT ![i].node = heads[i].name, ![i].holds = FALSE]
    ELSE heads

restore_name(heads, earlier) == FoldLeft(RestoreOne, heads, earlier)

Unmark(heads, i) == [heads EXCEPT ![i].renamed = FALSE]

(* The tail's records and headings over the committed names; then the ones *)
(* the last snapshot renamed and this one did not show theirs again.       *)
name_snapshot(p, labels) ==
    LET overlay == [p EXCEPT !.index = NoIndex, !.beneath = p.index, !.over = TRUE]
        Listed(q) == SubSeq(q.renamed, Len(p.renamed) + 1, Len(q.renamed))
        Done(q) == [p EXCEPT !.heads = FoldLeft(Unmark, restore_name(q.heads, p.renamed), Listed(q)),
                             !.renamed = Listed(q)]
    IN  Done(name_headings(read_records(overlay, labels), p.named, Len(p.heads)))

ResetOne(heads, i) ==
    IF heads[i].holds THEN [heads EXCEPT ![i].name = heads[i].node, ![i].holds = FALSE] ELSE heads

names_reset(heads, renamed) == FoldLeft(ResetOne, heads, renamed)

Labels(records) == [i \in DOMAIN records |-> records[i].label]
Stands(record) == ~record.withdrawn

(* A parse's committed names: nothing is read or named until some heading  *)
(* asks for a name.                                                        *)
NoNames == [taken |-> NoIndex, read |-> 0, named |-> 0, renamed |-> <<>>]

AuthoredUpTo(heads, first, end) ==
    CHOOSE i \in first..end : /\ \A j \in (first + 1)..i : heads[j].authored
                              /\ i < end => ~heads[i + 1].authored

(* The bug class: the snapshot's own commit bounds the committed names,    *)
(* candidates or none.                                                     *)
KeptAtSnapshot(mark, snapshot) == snapshot

markdown_core_parser_kept(mark, snapshot) == IF mark # <<>> THEN mark[1] ELSE snapshot

SnapshotFinish(heads, records, names, kept) ==
    LET start == IF names.taken = NoIndex THEN AuthoredUpTo(heads, names.named, kept.heads) ELSE names.named
        idle == names.taken = NoIndex /\ \A i \in (start + 1)..Len(heads) : heads[i].authored
        pass == [heads |-> heads, index |-> names.taken, beneath |-> NoIndex, over |-> FALSE,
                 named |-> start, renamed |-> names.renamed]
        Committed(p) == [name_headings(p, start, kept.heads) EXCEPT !.named = kept.heads]
        Over(p) == LET q == name_snapshot(p, Labels(SubSeq(records, kept.records + 1, Len(records))))
                   IN  [heads |-> q.heads,
                        names |-> [taken |-> p.index, read |-> kept.records, named |-> p.named,
                                   renamed |-> q.renamed]]
    IN  IF idle
        THEN [heads |-> heads, names |-> [names EXCEPT !.named = start]]
        ELSE Over(Committed(read_records(pass, Labels(SubSeq(records, names.read + 1, kept.records)))))

(* The finalize: an empty index, the declarations that stand, every        *)
(* heading.                                                                *)
FinalFinish(heads, records, names) ==
    LET pass == [heads |-> names_reset(heads, names.renamed), index |-> NoIndex, beneath |-> NoIndex,
                 over |-> FALSE, named |-> 0, renamed |-> <<>>]
        standing == SelectSeq(records, Stands)
    IN  name_headings(read_records(pass, Labels(standing)), 0, Len(heads)).heads

(***************************************************************************)
(* A heading parsed again as the finalize asks its lookups anew: its entry *)
(* learns whether its attributes write an anchor and that its base is to   *)
(* be projected again; a computed anchor stays shown meanwhile.            *)
(***************************************************************************)
reparse_inlines(h, item) ==
    [h EXCEPT !.text = item.base, !.authored = item.label # NoName, !.holds = FALSE, !.name = NoName,
              !.node = IF item.label # NoName THEN item.label ELSE IF h.authored THEN NoName ELSE @]

(***************************************************************************)
(* The rule (anchors.md): the explicit anchors are reserved first; then    *)
(* each heading in order takes its base or the base with the least suffix  *)
(* that no anchor and no heading before it has.                            *)
(***************************************************************************)
RuleName(acc, h) ==
    LET base == h.text
        k == FirstFrom(1, Cardinality(acc.taken), LAMBDA j : Append(base, j) \notin acc.taken)
        n == IF base \notin acc.taken THEN base ELSE Append(base, k)
    IN  IF h.authored
        THEN [acc EXCEPT !.names = Append(@, h.node)]
        ELSE [taken |-> acc.taken \cup {n}, names |-> Append(acc.names, n)]

NamesByRule(heads, reserved) == FoldLeft(RuleName, [taken |-> reserved, names |-> <<>>], heads).names

-------------------------------------------------------------------------------
(***************************************************************************)
(* The anchors of headings once edits come (heading.c, THE NAMES AN EDIT   *)
(* MOVES): the headings are a front and a back about an edit's rest point, *)
(* a back's start measured from the end of the text; each base is a stem,  *)
(* with a front and a back of its headings' starts; an edit names again    *)
(* only the groups of the stems it touched.                                *)
(***************************************************************************)

NoStems == [n \in {} |-> 0]
NoStem == [front |-> <<>>, back |-> <<>>, kids |-> {}]

(* A name less its last suffix, which is a number of no leading zero.      *)
HasParent(n) == n # <<>> /\ Last(n) # 0
stem_parent(n) == Front(n)

stem_present(stem) == stem.front # <<>> \/ stem.back # <<>>
Present(stems) == {n \in DOMAIN stems : stem_present(stems[n])}

PutStem(stems, n, stem) == (n :> stem) @@ stems
stem_make(stems, n) == IF n \in DOMAIN stems THEN stems ELSE PutStem(stems, n, NoStem)

(* The stem of a heading that names itself; NoName when none is kept.      *)
stem_heading(stems, h) == IF ~h.authored /\ h.name # NoName /\ h.base \in DOMAIN stems THEN h.base ELSE NoName

(* What an edit keeps: the headings' front and back, the end the back is   *)
(* measured from, the stems, those touched, the names of the headings let  *)
(* go with their stems, the rest point and its first heading.              *)
stem_touch(e, n) == [e EXCEPT !.touched = @ \cup {n}]

stem_link(e, n) ==
    LET parent == stem_parent(n)
        made == stem_make(e.stems, parent)
    IN  IF HasParent(n)
        THEN stem_touch([e EXCEPT !.stems = PutStem(made, parent, [made[parent] EXCEPT !.kids = @ \cup {n}])], parent)
        ELSE e

stem_unlink(stems, n) ==
    IF HasParent(n) THEN [stems EXCEPT ![stem_parent(n)].kids = @ \ {n}] ELSE stems

stem_add(e, n, start) ==
    LET stem == stem_make(e.stems, n)[n]
        added == [e EXCEPT !.stems = PutStem(@, n, [stem EXCEPT !.front = Append(@, start)])]
    IN  stem_touch(IF stem_present(stem) THEN added ELSE stem_link(added, n), n)

stem_cut(e, n, place, end) ==
    LET cut == [e.stems EXCEPT ![n].back = SelectSeq(@, LAMBDA d : end - d >= place)]
    IN  stem_touch([e EXCEPT !.stems = IF stem_present(e.stems[n]) /\ ~stem_present(cut[n])
                                       THEN stem_unlink(cut, n)
                                       ELSE cut], n)

(* The first reopen makes the stems of the headings a flush named.         *)
StemOf(e, h) == IF h.authored \/ h.name = NoName THEN e ELSE stem_add(e, h.base, h.start)
stems_make(e) == [FoldLeft(StemOf, e, e.front) EXCEPT !.touched = {}]

(* The focus of a front and a back moves to `place`.                       *)
Flip(starts, end) == [i \in DOMAIN starts |-> end - starts[i]]
ZipperMove(zipper, place, end) ==
    LET stays == SelectSeq(zipper.front, LAMBDA s : s < place)
        goes == SelectSeq(zipper.front, LAMBDA s : s >= place)
        comes == SelectSeq(zipper.back, LAMBDA d : end - d < place)
        rests == SelectSeq(zipper.back, LAMBDA d : end - d >= place)
    IN  [zipper EXCEPT !.front = stays \o Flip(comes, end), !.back = Flip(goes, end) \o rests]

FlipHeads(heads, end) == [i \in DOMAIN heads |-> [heads[i] EXCEPT !.start = end - @]]

(* Each stem a moved heading is of follows the move.                       *)
stems_follow(stems, moved, place, end) ==
    LET follow == {stem_heading(stems, h) : h \in ToSet(moved)}
    IN  [n \in follow \ {NoName} |-> ZipperMove(stems[n], place, end)] @@ stems

markdown_core_headings_reopen(e, place, end) ==
    LET goes == SelectSeq(e.front, LAMBDA h : h.start >= place)
        comes == SelectSeq(e.back, LAMBDA h : end - h.start < place)
        stays == SelectSeq(e.front, LAMBDA h : h.start < place)
        front == stays \o FlipHeads(comes, end)
    IN  [e EXCEPT !.front = front,
                  !.back = FlipHeads(goes, end) \o SelectSeq(@, LAMBDA h : end - h.start >= place),
                  !.end = end, !.rest = place, !.fresh = Len(front), !.lost = <<>>,
                  !.stems = stems_follow(@, goes \o comes, place, end)]

(* A back's heading the edit lets go.                                      *)
stem_lost(e, h, place) ==
    LET n == stem_heading(e.stems, h)
    IN  IF n = NoName
        THEN e
        ELSE stem_cut([e EXCEPT !.lost = Append(@, [stem |-> n, name |-> h.name])], n, place, e.end)

LetGo(e, gone, place) == FoldLeft(LAMBDA acc, h : stem_lost(acc, h, place), e, gone)

(* The back's headings before `point` of the new text go; the rest stand   *)
(* where they stood from the end.                                          *)
markdown_core_headings_splice(e, point, end) ==
    LET old == point - (end - e.end)
        gone == SelectSeq(e.back, LAMBDA h : e.end - h.start < old)
    IN  [LetGo(e, gone, old) EXCEPT !.back = SelectSeq(@, LAMBDA h : e.end - h.start >= old), !.end = end]

(* A reading that took nothing back lets the whole back go.                *)
headings_drop_back(e, end) ==
    [LetGo(e, e.back, e.end + 1) EXCEPT !.back = <<>>, !.end = end]

(***************************************************************************)
(* The pass that names again.                                              *)
(***************************************************************************)
HeadAt(e, i) == IF i <= Len(e.front) THEN e.front[i] ELSE e.back[i - Len(e.front)]
Total(e) == Len(e.front) + Len(e.back)
PlaceAt(e, i) == IF i <= Len(e.front) THEN e.front[i].start ELSE e.end - e.back[i - Len(e.front)].start

GiveAt(e, i, n, base) ==
    IF i <= Len(e.front)
    THEN [e EXCEPT !.front[i].node = n, !.front[i].name = n, !.front[i].base = base]
    ELSE [e EXCEPT !.back[i - Len(e.front)].node = n, !.back[i - Len(e.front)].name = n,
                   !.back[i - Len(e.front)].base = base]

stem_places(e, n) == e.stems[n].front \o Flip(e.stems[n].back, e.end)
stem_before(e, n, place) == Len(SelectSeq(stem_places(e, n), LAMBDA s : s < place))

(* The heading at a place of the text, among all in order.                 *)
HeadingFrom(e, place) == Cardinality({i \in 1..Total(e) : PlaceAt(e, i) < place}) + 1
stem_member(e, n, i) == HeadAt(e, HeadingFrom(e, stem_places(e, n)[i]))
held_suffix(h) == name_suffix(h.name, h.base)

(* Whether one of the stem's headings from `low` on to `high` holds the    *)
(* suffix, found by halves: their suffixes rise.                           *)
RECURSIVE SuffixHeld(_, _, _, _, _)
SuffixHeld(e, n, suffix, low, high) ==
    LET middle == low + ((high - low) \div 2)
        held == held_suffix(stem_member(e, n, middle + 1))
    IN  /\ low < high
        /\ \/ held = suffix
           \/ held < suffix /\ SuffixHeld(e, n, suffix, middle + 1, high)
           \/ held > suffix /\ SuffixHeld(e, n, suffix, low, middle)

HeldByParent(e, n, place) ==
    /\ HasParent(n)
    /\ stem_parent(n) \in Present(e.stems)
    /\ SuffixHeld(e, stem_parent(n), Last(n), 0, stem_before(e, stem_parent(n), place))

HeldByBase(e, n, place) ==
    /\ n \in Present(e.stems)
    /\ stem_places(e, n)[1] < place
    /\ stem_member(e, n, 1).name = stem_member(e, n, 1).base

(* Whether a heading before `place` holds the name: the first of its own   *)
(* stem, or one of its parent's.                                           *)
name_held(e, n, place) == HeldByBase(e, n, place) \/ HeldByParent(e, n, place)

(* A stem's present parent and its children, which are present.            *)
Beside(stems, group) ==
    group \cup ({stem_parent(n) : n \in {m \in group : HasParent(m)}} \cap Present(stems))
          \cup UNION {stems[n].kids : n \in group}

RECURSIVE StemGroups(_, _)
StemGroups(stems, group) ==
    IF Beside(stems, group) = group THEN group ELSE StemGroups(stems, Beside(stems, group))

(* The suffix a stem's headings from its heading `first` on try: past the  *)
(* last before it that took one.                                           *)
SuffixFrom(e, n, first) ==
    LET before == {k \in 1..first : held_suffix(stem_member(e, n, k)) # 0}
    IN  IF before = {} THEN 1 ELSE held_suffix(stem_member(e, n, CHOOSE k \in before : \A j \in before : j <= k)) + 1

name_move(moves, key, step) == (key :> (IF key \in DOMAIN moves THEN moves[key] + step ELSE step)) @@ moves
Moved(moves) == \E k \in DOMAIN moves : moves[k] # 0

(* The bug class: the names the edit let go are not counted.               *)
LostUncounted(lost, group) == NoIndex

LostMoves(lost, group) ==
    FoldLeft(LAMBDA moves, l : IF l.stem \in group THEN name_move(moves, <<l.stem, l.name>>, -1) ELSE moves,
             NoIndex, lost)

(* One heading of the pass takes the first name of its sequence neither    *)
(* reserved nor held before it; the pass ends at an old heading once the   *)
(* names that moved are the names that were.                               *)
RenameNext(pass, cursor) ==
    LET e == pass.e
        at == HeadingFrom(e, cursor.place)
        h == HeadAt(e, at)
        made == at > e.fresh /\ at <= Len(e.front)
        stops == pass.done \/ (~pass.whole /\ ~made /\ ~Moved(pass.moves))
        Free(n) == n \notin pass.reserved /\ ~name_held(e, n, cursor.place)
        next == pass.suffix[cursor.stem]
        k == FirstFrom(next, Total(e) + Cardinality(pass.reserved), LAMBDA j : Free(append_anchor_suffix(h.base, j)))
        n == IF Free(h.base) THEN h.base ELSE append_anchor_suffix(h.base, k)
        left == IF made THEN pass.moves ELSE name_move(pass.moves, <<cursor.stem, h.name>>, -1)
    IN  IF stops
        THEN [pass EXCEPT !.done = TRUE]
        ELSE [pass EXCEPT !.e = GiveAt(e, at, n, h.base),
                          !.suffix[cursor.stem] = IF Free(h.base) THEN @ ELSE k + 1,
                          !.moves = IF ~made /\ h.name = n THEN @ ELSE name_move(left, <<cursor.stem, n>>, 1)]

(* The groups of the stems touched, their headings in order from the rest  *)
(* point, or from the first when an anchor that came or went names one.    *)
RenamePass(e, group, anchored, reserved) ==
    LET whole == group \cap anchored # {}
        from == IF whole THEN 0 ELSE e.rest
        cursors == {[place |-> s, stem |-> n] : s \in 0..e.end, n \in group}
        named == {c \in cursors : c.place >= from /\ c.place \in ToSet(stem_places(e, c.stem))}
    IN  FoldLeft(RenameNext,
                 [e |-> e, whole |-> whole, reserved |-> reserved, done |-> FALSE, moves |-> LostMoves(e.lost, group),
                  suffix |-> [n \in group |-> SuffixFrom(e, n, stem_before(e, n, from))]],
                 SetToSortSeq(named, LAMBDA c, d : c.place < d.place)).e

heading_rename(e, anchored, reserved) ==
    RenamePass(e, StemGroups(e.stems, e.touched \cap DOMAIN e.stems), anchored, reserved)

(* Each heading the reading made takes its base and joins its stem.        *)
JoinStem(e, i) ==
    LET h == e.front[i]
    IN  IF h.authored THEN e ELSE stem_add(GiveAt(e, i, h.text, h.text), h.text, h.start)

(* The stems an anchor made or let go names, with their parents.           *)
AnchoredStems(stems, labels) ==
    (labels \cup {stem_parent(n) : n \in {m \in labels : HasParent(m)}}) \cap DOMAIN stems

stem_release(e) ==
    LET goes == {n \in e.touched \cap DOMAIN e.stems : ~stem_present(e.stems[n]) /\ e.stems[n].kids = {}}
    IN  [e EXCEPT !.stems = [n \in DOMAIN @ \ goes |-> @[n]], !.touched = {}, !.lost = <<>>,
                  !.fresh = Len(e.front)]

headings_rename(e, labels, reserved) ==
    LET Renamed(joined, anchored) == stem_release(heading_rename([joined EXCEPT !.touched = @ \cup anchored],
                                                                 anchored, reserved))
        Join(joined) == Renamed(joined, AnchoredStems(joined.stems, labels))
    IN  Join(FoldLeft(JoinStem, e, [i \in 1..(Len(e.front) - e.fresh) |-> e.fresh + i]))
=============================================================================
