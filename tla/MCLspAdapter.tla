----------------------------- MODULE MCLspAdapter -----------------------------
(* The process with a client of one document and two edits.                 *)
EXTENDS LspAdapter

CONSTANTS u1, edit, bad

OneStep(text, e) == (text + 1) % 3
MCTexts == {0}
MCVersions == {1}
MCEdits == {<<edit>>, <<edit, bad>>}
MCMost == [may \in BOOLEAN |-> IF may THEN 4 ELSE 5]
===============================================================================
