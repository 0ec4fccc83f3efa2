------------------------------- MODULE MCRoster -------------------------------
(* An instance of Roster small enough for TLC. *)
EXTENDS RosterLabels

CONSTANTS a, b, anc

\* Two references and an anchor.
MCKeys == {a, b, anc}
MCKindOf == [k \in MCKeys |-> IF k = anc THEN "anchor" ELSE "reference"]
MCKindOrder == <<"reference", "anchor">>

Symmetry == Permutations({a, b})
===============================================================================
