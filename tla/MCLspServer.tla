------------------------------ MODULE MCLspServer ------------------------------
(* The server on a small instance.  A text is whether an odd number of edits *)
(* was applied to it, so that an update applied in part is told apart.       *)
EXTENDS LspServer, TLC

CONSTANTS u1, u2, u3, u4, edit, bad

MCTexts == {0, 1}
OneStep(text, e) == 1 - text
MCEdits == {<<edit>>, <<edit, bad>>}
Symmetry == Permutations(Uris)
===============================================================================
