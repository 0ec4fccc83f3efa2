------------------------------ MODULE Settling ------------------------------
(***************************************************************************)
(* THE SETTLE POINT (core/blocks.c): a stream's open paragraph read again  *)
(* and again as its content grows.  Each snapshot's read keeps the nodes   *)
(* no later byte can change, the settled ones, and the next read goes on   *)
(* from where they end; the commit takes them as the paragraph's first     *)
(* children.  A snapshot and a commit see the definitions before the       *)
(* paragraph; the finalize sees all, and reads anew a paragraph one of     *)
(* whose lookups that found nothing finds one then.  While a candidate     *)
(* waits nothing settles, and its accept puts the paragraph back as the    *)
(* candidate's mark found it.                                              *)
(***************************************************************************)
EXTENDS InlineRun

CONSTANTS
  Families, \* the families of contents: [pieces, before, later, waits, max]
  None      \* no candidate waits

VARIABLES
  family,  \* the family of this behaviour
  content, \* the paragraph's content so far
  phase,   \* "open", "committed" or "final"
  later,   \* the definitions that start after the paragraph
  mark,    \* the content the waiting candidate's mark found, or None
  settled, \* the stream's settled record
  misses,  \* the committed paragraph's lookups that found nothing
  tree,    \* the paragraph's nodes as last read, none once it goes on
  read,    \* the content that was read
  known    \* the definitions the read saw

vars == <<family, content, phase, later, mark, settled, misses, tree, read, known>>

Nothing == [on |-> FALSE, taken |-> FALSE, nodes |-> <<>>, point |-> 0, size |-> 0, misses |-> <<>>]

Init ==
  /\ family \in Families
  /\ content = <<>> /\ phase = "open" /\ later = {} /\ mark = None
  /\ settled = Nothing /\ misses = {}
  /\ tree = <<>> /\ read = <<>> /\ known = family.before

-----------------------------------------------------------------------------
S_settled_clear == Nothing

\* The bytes the inline parse reads.
S_content_bytes(text) == Len(Rtrim(text))

\* Mutant: nodes that settled on a line the paragraph lost are kept.
HoldsOfAnySize(size) == settled.on /\ ~settled.taken
S_settled_holds(size) == settled.on /\ ~settled.taken /\ size >= settled.size

\* The record a read starts from: one the content no longer goes on from is
\* emptied.
Held(size) == IF S_settled_holds(size) THEN settled ELSE S_settled_clear

claims == {" ", "\t", "|", ":", "-"}

\* Where the lines that may yet leave the paragraph begin, the line ending
\* before them included.
LineStart(s, at) ==
  LET ends == {i \in 1 .. at : At(s, i - 1) \in LineEnd} IN IF ends = {} THEN 0 ELSE Max(ends)
EndOf(s, at) ==
  LET solid == {i \in 1 .. at : At(s, i - 1) \notin LineEnd} IN IF solid = {} THEN 0 ELSE Max(solid)

S_settle_bound(text, size) ==
  LET line == LineStart(text, size)
      claimed == \A i \in line .. size - 1 : At(text, i) \in claims
      at == EndOf(text, line)
      before == LineStart(text, at)
  IN IF line = 0 THEN size ELSE IF claimed /\ before > 0 THEN EndOf(text, before) ELSE at

S_child_at(nodes, from, start) == {i \in from .. Len(nodes) : nodes[i].start = start}

\* The latest start a settle point may be: no end was read before it, it
\* lies within the bound, and a child starts there that no Text precedes.
S_settle_end(record, nodes, run) ==
  LET held == Len(record.nodes)
      Settle(start, at) ==
        IF at = held + 1 THEN record
        ELSE [record EXCEPT !.nodes = SubSeq(nodes, 1, at - 1), !.point = start.start,
                            !.misses = @ \o SubSeq(run.lookups, 1, start.misses)]
      From(start) == Settle(start, Min(S_child_at(nodes, held + 1, start.start)))
      Latest(ok) == IF ok = {} THEN record ELSE From(run.starts[Max(ok)])
  IN Latest({k \in DOMAIN run.starts :
               /\ run.starts[k].start <= run.undecided /\ run.starts[k].start <= record.size
               /\ \E i \in S_child_at(nodes, held + 1, run.starts[k].start) : i = 1 \/ nodes[i - 1].kind # "Text"})

-----------------------------------------------------------------------------
\* The reader feeds the stream.
Feed(piece) ==
  /\ phase = "open" /\ Len(content) + Len(piece) <= family.max
  /\ piece[1] \in LineEnd => content # <<>>
  /\ content' = content \o piece
  /\ tree' = <<>> /\ read' = <<>>
  /\ UNCHANGED <<family, phase, later, mark, settled, misses, known>>

\* A definition after the paragraph.
Define(label) ==
  /\ phase # "final" /\ label \notin later
  /\ later' = later \cup {label}
  /\ UNCHANGED <<family, content, phase, mark, settled, misses, tree, read, known>>

\* A candidate takes its mark.
Wait ==
  /\ family.waits /\ phase = "open" /\ mark = None /\ content # <<>>
  /\ mark' = content
  /\ UNCHANGED <<family, content, phase, later, settled, misses, tree, read, known>>

\* What a read from the record's point leaves: the nodes, the settled ones
\* first, and the run that read the others.
Reading(record, text, defs, settling) ==
  LET With(run) == [nodes |-> record.nodes \o completed(Rtrim(text), run.nodes), run |-> run]
  IN With(ReadAll(state_from_buf(Rtrim(text), defs, record.point, settling)))

Whole(text, defs) == completed(Rtrim(text), parse_inlines(Rtrim(text), defs).nodes)

\* A snapshot reads the open paragraph: with the settled nodes, and to
\* settle more while no candidate waits.
Snapshot ==
  LET S_settled_read(record, got) ==
        /\ tree' = got.nodes
        /\ settled' = IF mark = None
                      THEN S_settle_end([record EXCEPT !.on = TRUE, !.size = S_settle_bound(content, S_content_bytes(content))],
                                        got.nodes, got.run)
                      ELSE IF record.nodes # <<>> THEN record ELSE S_settled_clear
      Read(held) == S_settled_read(held, Reading(held, content, family.before, mark = None \/ held.nodes # <<>>))
  IN /\ phase = "open" /\ content # <<>>
     /\ Read(Held(S_content_bytes(content)))
     /\ read' = content /\ known' = family.before
     /\ UNCHANGED <<family, content, phase, later, mark, misses>>

Unfound(lookups) == {<<l.kind, l.label>> : l \in {lookups[i] : i \in {j \in DOMAIN lookups : ~lookups[j].found}}}

\* The paragraph's lines less the last `k`.
Less(k) ==
  LET size == S_content_bytes(content)
      one == LineStart(content, size)
  IN Slice(content, 0, IF k = 0 THEN Len(content) ELSE IF k = 1 THEN one ELSE LineStart(content, one - 1))

LastClaimed == \A i \in LineStart(content, S_content_bytes(content)) .. S_content_bytes(content) - 1 : At(content, i) \in claims

\* A completion of the paragraph: the settled nodes, if the record holds any,
\* are its first children, and it is read from the point on.
S_settled_take(record, text, defs) ==
  LET Take(got) == /\ tree' = got.nodes
                   /\ misses' = Unfound(record.misses \o got.run.lookups)
                   /\ settled' = IF record.nodes # <<>> /\ mark # None THEN [record EXCEPT !.taken = TRUE] ELSE S_settled_clear
  IN Take(Reading(record, text, defs, record.nodes # <<>>))

\* The paragraph closes, less the last line when it starts a block and less
\* the line before it too when they make a table, and commits.
Commit(k) ==
  /\ phase = "open" /\ content # <<>>
  /\ k > 0 => Less(k) # <<>> /\ Less(k) # content
  /\ k = 2 => LastClaimed /\ Less(2) # Less(1)
  /\ LET Take(held) == S_settled_take(IF held.nodes # <<>> THEN held ELSE S_settled_clear, Less(k), family.before)
     IN Take(Held(S_content_bytes(Less(k))))
  /\ phase' = "committed" /\ content' = Less(k) /\ read' = Less(k) /\ known' = family.before
  /\ UNCHANGED <<family, later, mark>>

\* The candidate is rejected, or accepted: then the paragraph is open again,
\* the settled nodes a commit took the stream's again.
Reject ==
  /\ mark # None
  /\ mark' = None
  /\ settled' = IF settled.taken THEN S_settled_clear ELSE settled
  /\ UNCHANGED <<family, content, phase, later, misses, tree, read, known>>

S_candidate_take_back ==
  /\ mark # None /\ phase # "final"
  /\ mark' = None /\ content' = mark /\ phase' = "open" /\ misses' = {}
  /\ settled' = [settled EXCEPT !.taken = FALSE]
  /\ tree' = <<>> /\ read' = <<>>
  /\ UNCHANGED <<family, later, known>>

All == family.before \cup later

S_settled_found(record) == Unfound(record.misses) \cap All # {}

\* The text ends: the open paragraph commits with every definition visible.
FinalizeOpen ==
  /\ phase = "open" /\ content # <<>> /\ mark = None
  /\ LET Take(held) == S_settled_take(IF S_settled_found(held) THEN S_settled_clear ELSE held, content, All)
     IN Take(Held(S_content_bytes(content)))
  /\ phase' = "final" /\ read' = content /\ known' = All
  /\ UNCHANGED <<family, content, later, mark>>

\* A paragraph committed before is completed anew when a lookup of its that
\* found nothing finds a definition.
S_complete_misses ==
  /\ phase = "committed" /\ mark = None
  /\ IF misses \cap All # {} THEN S_settled_take(S_settled_clear, content, All) ELSE UNCHANGED <<tree, misses, settled>>
  /\ phase' = "final" /\ known' = All
  /\ UNCHANGED <<family, content, later, mark, read>>

Next ==
  \/ \E piece \in family.pieces : Feed(piece)
  \/ \E label \in family.later : Define(label)
  \/ Wait
  \/ Snapshot
  \/ \E k \in 0 .. 2 : Commit(k)
  \/ Reject
  \/ S_candidate_take_back
  \/ FinalizeOpen
  \/ S_complete_misses

Spec == Init /\ [][Next]_vars

-----------------------------------------------------------------------------
\* Every read of the paragraph, with settled nodes or without, is the read of
\* its whole content with the definitions the read sees: a settled node is
\* one no later byte, line or definition changes.
ReadIsWhole == tree = Whole(read, known)

\* Every byte belongs to one node at a time: the children of a node lie
\* inside it, in order and apart, and no Text is empty or stands next to
\* another.
RECURSIVE Nested(_, _, _)
Nested(nodes, from, to) ==
  \A i \in DOMAIN nodes :
    /\ nodes[i].start >= (IF i = 1 THEN from ELSE nodes[i - 1].end) /\ nodes[i].start < nodes[i].end /\ nodes[i].end <= to
    /\ nodes[i].kind = "Text" => nodes[i].lit # <<>> /\ (i > 1 => nodes[i - 1].kind # "Text")
    /\ Nested(nodes[i].kids, nodes[i].start, nodes[i].end)
PlacesNest == tree # <<>> => Nested(tree, 0, Len(Rtrim(read)))

\* What a failed search leaves in the run's record changes no answer: a run
\* that forgets it before every token reads the same nodes.
Forget(r) ==
  [r EXCEPT !.ticks = [n \in {} |-> 0], !.scanned = FALSE, !.known = [p \in 0 .. Len(r.in) |-> 0],
            !.ran_out = FALSE, !.opaque_failed = [c \in {} |-> 0], !.rejected_until = 0]
RECURSIVE Fresh(_)
Fresh(r) == IF r.pos >= Len(r.in) THEN S_process_delimiters(r) ELSE Fresh(parse_inline(Forget(r)))
MemosChangeNothing ==
  tree # <<>> => LET s == Rtrim(read) IN tree = completed(s, Fresh(state_from_buf(s, known, 0, FALSE)).nodes)
=============================================================================
