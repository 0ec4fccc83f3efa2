---------------------------- MODULE MCPublishing ----------------------------
(***************************************************************************)
(* Families of histories.                                                  *)
(***************************************************************************)
EXTENDS Publishing

Line(what, at) == [what |-> what, depth |-> at, way |-> 0, defs |-> 0]

Fam(size, tail, marks, publishes, at, whats, ways, defs) ==
    [script |-> <<>>, size |-> size, tail |-> tail, marks |-> marks, shown |-> publishes, edits |-> 0, brings |-> 0,
     depth |-> at, whats |-> whats, ways |-> ways, defs |-> defs]

\* A text of its own, flushed and edited.
Edits(lines, size, edits, brings, at, whats) ==
    [Fam(size, 0, 0, 0, at, whats, {0}, {0}) EXCEPT !.script = lines, !.edits = edits, !.brings = brings]

Flat == Fam(2, 1, 0, 2, 2, {"more", "under", "blank", "text", "head"}, {0, 2}, {0, 1})
Nested == Fam(2, 1, 0, 2, 3, {"more", "blank", "text", "quote", "under"}, {0}, {0, 1})
Marked == Fam(2, 1, 1, 2, 2, {"text", "head"}, {0}, {0, 1})
MarkedUnder == Fam(2, 1, 1, 2, 2, {"under", "text", "head"}, {0}, {0})
MarkedNested == Fam(2, 1, 1, 2, 3, {"blank", "text", "quote"}, {0}, {0})
MarkedTwice == Fam(2, 1, 2, 1, 2, {"more", "text", "head"}, {0}, {0})

Heads == Edits(<<Line("head", 1), Line("head", 1), Line("text", 1), Line("head", 1)>>, 4, 2, 1, 2, {"head", "text", "more"})
Quoted == Edits(<<Line("quote", 1), Line("blank", 2), Line("head", 2), Line("head", 2), Line("head", 2), Line("blank", 2),
                  Line("head", 2), Line("head", 1)>>, 9, 1, 1, 3, {"head", "blank"})
Streamed == [Fam(3, 1, 0, 1, 2, {"head", "text", "more"}, {0}, {0, 1}) EXCEPT !.edits = 1, !.brings = 1]
MCFamilies == {Flat, Nested, Marked, MarkedUnder, MarkedNested, MarkedTwice, Heads, Quoted, Streamed}
=============================================================================
