-------------------------- MODULE MCHeadingAnchors --------------------------
(***************************************************************************)
(* Texts of a few items: streamed ones, with tails, candidates and roots   *)
(* completed again, and edited ones.                                       *)
(***************************************************************************)
EXTENDS HeadingAnchors

Fam(items, max, tail, most, made) ==
    [items |-> items, max |-> max, tail |-> tail, edits |-> most, made |-> made]

Root == <<>>
Streamed == Fam({Heading(Root), Heading(<<1>>), Anchor(Root), Anchor(<<1>>)}, 4, 1, 0, 0)
Tailed == Fam({Heading(Root), Anchor(Root), Anchor(<<1>>)}, 3, 2, 0, 0)
Owned == Fam({Heading(Root), Heading(<<1>>), Authored(Root, Root), Anchor(<<1>>)}, 3, 1, 1, 1)
Edited == Fam({Heading(Root), Heading(<<1>>), Anchor(<<1>>)}, 4, 0, 2, 1)
Nested == Fam({Heading(Root), Heading(<<1>>), Heading(<<1, 1>>)}, 4, 0, 2, 1)
Reserved == Fam({Heading(Root), Heading(<<0>>), Anchor(Root), Anchor(<<2>>)}, 4, 0, 2, 1)
MCFamilies == {Streamed, Tailed, Owned, Edited, Nested, Reserved}
=============================================================================
