------------------------------- MODULE LspStore -------------------------------
(***************************************************************************)
(* What the language engine promises its host (markdown_core_lsp.h): a     *)
(* lifecycle, and the open documents by URI.  Each call answers a status;  *)
(* a call that fails changes nothing, except an update that cannot         *)
(* allocate, which closes its document.  There is no table here.           *)
(***************************************************************************)
EXTENDS Naturals, Sequences

CONSTANTS Uris, Versions, Texts, Edits

\* What one edit makes of a text, and the edits whose start is after their end.
CONSTANTS Apply(_, _), Inverted

VARIABLES phase,   \* "fresh", "active" or "halted"
          docs,    \* the open documents: URI to version and text
          answer   \* what the last call answered

vars == <<phase, docs, answer>>

Doc == [version : Versions, text : Texts]

\* The text after `edits', in order, each on the text the one before it made.
After(text, edits) ==
  LET made[i \in 0..Len(edits)] == IF i = 0 THEN text ELSE Apply(made[i - 1], edits[i])
  IN made[Len(edits)]

Refused == IF phase = "fresh" THEN "notInitialized" ELSE "invalidRequest"

Init == /\ phase = "fresh"
        /\ docs = [u \in {} |-> 0]
        /\ answer = << >>

Answers(a) == answer' = <<a>>
Lists(v) == answer' = <<"list", v>>

Initialize ==
  \/ /\ phase = "fresh"
     /\ phase' = "active"
     /\ Answers("ok")
     /\ UNCHANGED docs
  \/ /\ phase # "fresh"
     /\ Answers("invalidRequest")
     /\ UNCHANGED <<phase, docs>>

Refuse == /\ phase # "active"
          /\ Answers(Refused)
          /\ UNCHANGED <<phase, docs>>

Shutdown == /\ phase = "active"
            /\ phase' = "halted"
            /\ Answers("ok")
            /\ UNCHANGED docs

\* A document opened again replaces the one open at its URI.
Open(u, v, t) ==
  /\ phase = "active"
  /\ UNCHANGED phase
  /\ \/ /\ docs' = [x \in DOMAIN docs \cup {u} |->
                      IF x = u THEN [version |-> v, text |-> t] ELSE docs[x]]
        /\ Answers("ok")
     \/ UNCHANGED docs /\ Answers("internalError")

Without(u) == [x \in DOMAIN docs \ {u} |-> docs[x]]

Update(u, v, edits) ==
  /\ phase = "active"
  /\ UNCHANGED phase
  /\ \/ /\ u \notin DOMAIN docs \/ \E i \in 1..Len(edits) : edits[i] \in Inverted
        /\ Answers("invalidParams")
        /\ UNCHANGED docs
     \/ /\ u \in DOMAIN docs
        /\ \A i \in 1..Len(edits) : edits[i] \notin Inverted
        /\ \/ /\ docs' = [docs EXCEPT ![u] = [version |-> v, text |-> After(@.text, edits)]]
              /\ Answers("ok")
           \/ /\ Len(edits) > 0
              /\ docs' = Without(u)
              /\ Answers("internalError")

Close(u) ==
  /\ phase = "active"
  /\ UNCHANGED phase
  /\ \/ u \in DOMAIN docs /\ docs' = Without(u) /\ Answers("ok")
     \/ u \notin DOMAIN docs /\ UNCHANGED docs /\ Answers("invalidParams")

\* The list names the version of the document it was computed for.
Complete(u) ==
  /\ phase = "active"
  /\ UNCHANGED <<phase, docs>>
  /\ \/ u \in DOMAIN docs /\ Lists(docs[u].version)
     \/ u \in DOMAIN docs /\ Answers("internalError")
     \/ u \notin DOMAIN docs /\ Answers("invalidParams")

Next == \/ Initialize
        \/ Shutdown
        \/ Refuse
        \/ \E u \in Uris, v \in Versions, t \in Texts : Open(u, v, t)
        \/ \E u \in Uris, v \in Versions, es \in Edits : Update(u, v, es)
        \/ \E u \in Uris : Close(u) \/ Complete(u)

Spec == Init /\ [][Next]_vars
===============================================================================
