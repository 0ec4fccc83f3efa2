---------------------------- MODULE MCGrowingArray ----------------------------
(* The growing array on a small instance: elements of two values, slices of *)
(* one place.                                                               *)
EXTENDS GrowingArray, FiniteSets

CONSTANTS a, b

MCElem == {a, b}
MCBatches == {<< >>, <<a>>, <<a, b>>}

\* The doubling loops end at one capacity.
ASSUME \A base \in 1..8, n \in 0..20 : Cardinality(Doubled(base, n)) = 1
===============================================================================
