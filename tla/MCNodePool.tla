------------------------------ MODULE MCNodePool ------------------------------
(* Instances of NodePool small enough for TLC. *)
EXTENDS NodePool, TLC

\* Slabs and slots of their own are alike but for their addresses.
CONSTANTS s1, s2, o1, o2

Symmetry == Permutations({s1, s2}) \cup Permutations({o1, o2})
===============================================================================
