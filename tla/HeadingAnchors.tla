--------------------------- MODULE HeadingAnchors ---------------------------
(***************************************************************************)
(* A parse and the anchors of its headings, from the first line streamed   *)
(* through its snapshots, its candidates and its flush, and through the    *)
(* edits after it.                                                         *)
(***************************************************************************)
EXTENDS HeadingNames

CONSTANT Families   \* each the items a text is made of, and its bounds

ASSUME FamiliesAssumption ==
    \A f \in Families : /\ {f.max, f.tail, f.edits, f.made} \subseteq Nat
                        /\ \A i \in f.items : i.head \/ i.label # NoName

VARIABLES
    family,
    phase,     \* "reading", "shown" while a snapshot's tail is read, "flushed"
    size,      \* the text's length, an item a unit
    records,   \* the ANCHOR records of the roster, in order
    heads,     \* the parse's headings; once edits come, their front and back
    names,     \* the committed names
    mark,      \* the oldest candidate's mark, or none
    kept,      \* the mark of the snapshot under way
    store,     \* what the edits keep of the headings and their names
    edits      \* how many edits came

vars == <<family, phase, size, records, heads, names, mark, kept, store, edits>>

Record(label, start) == [label |-> label, start |-> start, withdrawn |-> FALSE]

ReadRecords(items, start) ==
    LET labelled == SelectSeq([i \in DOMAIN items |-> Record(items[i].label, start + i - 1)],
                              LAMBDA r : r.label # NoName)
    IN  labelled

(* Headings close into the collection and their content is parsed.         *)
close_heading(items, start) ==
    LET closed == SelectSeq([i \in DOMAIN items |-> [item |-> items[i], start |-> start + i - 1]],
                            LAMBDA c : c.item.head)
    IN  [i \in DOMAIN closed |-> markdown_core_heading_parse(closed[i].item, closed[i].start)]

Place == [heads |-> Len(heads), records |-> Len(records), size |-> size]

NoStore == [front |-> <<>>, back |-> <<>>, end |-> 0, stems |-> NoStems, touched |-> {}, lost |-> <<>>, rest |-> 0,
            fresh |-> 0]

Init ==
    /\ family \in Families
    /\ phase = "reading"
    /\ size = 0
    /\ records = <<>>
    /\ heads = <<>>
    /\ names = NoNames
    /\ mark = <<>>
    /\ kept = <<>>
    /\ store = NoStore
    /\ edits = 0

(* A commit reads an item and completes it.                                *)
Commit(item) ==
    /\ phase = "reading"
    /\ size < family.max
    /\ heads' = heads \o close_heading(<<item>>, size)
    /\ records' = records \o ReadRecords(<<item>>, size)
    /\ size' = size + 1
    /\ UNCHANGED <<family, phase, names, mark, kept, store, edits>>

(* A candidate opens where the reading is, the oldest there is.            *)
S_mark_make ==
    /\ phase = "reading"
    /\ mark = <<>>
    /\ mark' = <<Place>>
    /\ UNCHANGED <<family, phase, size, records, heads, names, kept, store, edits>>

(* The candidate is accepted, and what it read stays.                      *)
S_candidate_drop ==
    /\ phase = "reading"
    /\ mark # <<>>
    /\ mark' = <<>>
    /\ UNCHANGED <<family, phase, size, records, heads, names, kept, store, edits>>

(* The reading put back to a place: heading_sync drops the entries past it.*)
PutBack(place) ==
    /\ heads' = SubSeq(heads, 1, place.heads)
    /\ records' = SubSeq(records, 1, place.records)
    /\ size' = place.size

(* The candidate is refused: its lines are read again.                     *)
S_candidate_put_back ==
    /\ phase = "reading"
    /\ mark # <<>>
    /\ PutBack(mark[1])
    /\ mark' = <<>>
    /\ UNCHANGED <<family, phase, names, kept, store, edits>>

(* A snapshot reads its tail and names everything.                         *)
Snapshot(tail) ==
    /\ phase = "reading"
    /\ family.max > 0
    /\ phase' = "shown"
    /\ kept' = <<Place>>
    /\ size' = size + Len(tail)
    /\ records' = records \o ReadRecords(tail, size)
    /\ LET finished == SnapshotFinish(heads \o close_heading(tail, size), records', names,
                                      markdown_core_parser_kept(mark, Place))
       IN  heads' = finished.heads /\ names' = finished.names
    /\ UNCHANGED <<family, mark, store, edits>>

(* The next commit finds the reading as the snapshot's mark kept it.       *)
S_restore ==
    /\ phase = "shown"
    /\ phase' = "reading"
    /\ PutBack(kept[1])
    /\ kept' = <<>>
    /\ UNCHANGED <<family, names, mark, store, edits>>

(* A root whose lookup now finds a definition is completed again, as       *)
(* `item`; the anchors its completion reserved are withdrawn.              *)
S_complete_anew(anew, item) ==
    [i \in DOMAIN records |-> [records[i] EXCEPT !.withdrawn = @ \/ records[i].start = anew]]
        \o (IF item.label = NoName THEN <<>> ELSE <<Record(item.label, anew)>>)

Flushed ==
    /\ phase = "reading"
    /\ mark = <<>>
    /\ phase' = "flushed"
    /\ names' = NoNames
    /\ UNCHANGED <<family, size, mark, kept, store, edits>>

Flush ==
    /\ Flushed
    /\ heads' = FinalFinish(heads, records, names)
    /\ UNCHANGED records

HeadingAnew(at, item) ==
    /\ Flushed
    /\ item.head
    /\ records' = S_complete_anew(heads[at].start, item)
    /\ heads' = FinalFinish([heads EXCEPT ![at] = reparse_inlines(@, item)], records', names)

BlockAnew(at, item) ==
    /\ Flushed
    /\ ~item.head
    /\ \A i \in DOMAIN heads : heads[i].start # records[at].start
    /\ records' = S_complete_anew(records[at].start, item)
    /\ heads' = FinalFinish(heads, records', names)

(***************************************************************************)
(* An edit: the reading reopens at `low`, reads `made` in place of the     *)
(* `gone` items there, and takes the rest back, or has read every line.    *)
(***************************************************************************)
Standing == SelectSeq(records, Stands)

EditedRecords(low, gone, made) ==
    SelectSeq(Standing, LAMBDA r : r.start < low) \o ReadRecords(made, low)
        \o [i \in DOMAIN SelectSeq(Standing, LAMBDA r : r.start >= low + gone) |->
               [SelectSeq(Standing, LAMBDA r : r.start >= low + gone)[i] EXCEPT !.start = @ - gone + Len(made)]]

(* The labels of the anchors the edit made and of those it let go.         *)
markdown_core_roster_anchors(low, gone, made) ==
    {made[i].label : i \in DOMAIN made} \cup {r.label : r \in {s \in ToSet(Standing) : s.start \in low..(low + gone - 1)}}

Reopened(low) ==
    LET start == IF edits = 0 THEN stems_make([NoStore EXCEPT !.front = heads]) ELSE store
    IN  markdown_core_headings_reopen(start, low, size)

Edit(low, gone, made, spliced) ==
    LET end == size - gone + Len(made)
        labels == markdown_core_roster_anchors(low, gone, made) \ {NoName}
        Read(e) == [e EXCEPT !.front = @ \o close_heading(made, low)]
        Back(e) == IF spliced THEN markdown_core_headings_splice(e, low + Len(made), end) ELSE headings_drop_back(e, end)
    IN  /\ phase = "flushed"
        /\ edits < family.edits
        /\ low + gone <= size
        /\ spliced \/ low + gone = size
        /\ end <= family.max
        /\ records' = EditedRecords(low, gone, made)
        /\ store' = headings_rename(Back(Read(Reopened(low))), labels, ToSet(Labels(records')))
        /\ heads' = store'.front \o FlipHeads(store'.back, end)
        /\ size' = end
        /\ edits' = edits + 1
        /\ UNCHANGED <<family, phase, names, mark, kept>>

Texts(items, max) == UNION {[1..n -> items] : n \in 0..max}

Next ==
    \/ \E item \in family.items : Commit(item)
    \/ S_mark_make
    \/ S_candidate_drop
    \/ S_candidate_put_back
    \/ \E tail \in Texts(family.items, family.tail) : Snapshot(tail)
    \/ S_restore
    \/ Flush
    \/ \E at \in DOMAIN heads, item \in family.items : HeadingAnew(at, item)
    \/ \E at \in DOMAIN records, item \in family.items : BlockAnew(at, item)
    \/ \E low \in 0..size : \E gone \in 0..(size - low), made \in Texts(family.items, family.made), spliced \in BOOLEAN :
           Edit(low, gone, made, spliced)

Spec == Init /\ [][Next]_vars
-----------------------------------------------------------------------------
(* Whenever a document is out, each heading shows the name a pass over the *)
(* anchors that stand and then the headings in order gives it, whatever    *)
(* the snapshots before committed, displaced and restored, whatever a      *)
(* candidate refused took back, and however few groups an edit named.      *)
NamesByTheRule ==
    phase \in {"shown", "flushed"} =>
        [i \in DOMAIN heads |-> heads[i].node] = NamesByRule(heads, ToSet(Labels(Standing)))

(* The committed names are the entries': a name is its heading's alone,    *)
(* a heading committed keeps the name the index gives it whatever its node *)
(* shows, only one the last snapshot listed shows another, and nothing     *)
(* past the oldest candidate's mark is committed.                          *)
CommittedNamesHold ==
    phase # "flushed" =>
        /\ \A n \in DOMAIN names.taken : names.taken[n].by > 0 =>
               names.taken[n].by <= names.named /\ heads[names.taken[n].by].name = n
        /\ \A i \in 1..names.named : heads[i].authored \/ names.taken[heads[i].name].by = i
        /\ \A i \in DOMAIN heads : heads[i].holds => i \in ToSet(names.renamed)
        /\ \A i \in 1..names.named : heads[i].authored \/ (heads[i].holds <=> heads[i].name # heads[i].node)
        /\ mark # <<>> => names.named <= mark[1].heads /\ names.read <= mark[1].records

(* Between edits a stem lists where exactly the headings of its base       *)
(* start, in order, and the stems present under it, and the suffixes of    *)
(* its headings rise, which finding who holds a name by halves relies on.  *)
StemsHold ==
    edits > 0 =>
        /\ \A n \in {heads[i].base : i \in {j \in DOMAIN heads : ~heads[j].authored}} : n \in DOMAIN store.stems
        /\ \A n \in DOMAIN store.stems :
               LET own == SelectSeq(heads, LAMBDA h : ~h.authored /\ h.base = n)
               IN  /\ stem_places(store, n) = [i \in DOMAIN own |-> own[i].start]
                   /\ store.stems[n].kids = {m \in Present(store.stems) : HasParent(m) /\ stem_parent(m) = n}
                   /\ \A i \in 1..(Len(own) - 1) : held_suffix(own[i]) < held_suffix(own[i + 1])

(* What is kept of the names between two readings is right: the committed  *)
(* names while the parse streams (heading.c, THE COMMITTED NAMES), the     *)
(* stems once edits come (THE NAMES AN EDIT MOVES).                        *)
NamesKept == CommittedNamesHold /\ StemsHold
=============================================================================
