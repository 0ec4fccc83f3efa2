----------------------------- MODULE RosterLabels -----------------------------
(***************************************************************************)
(* The roster beside what it promises: every call is made of both the      *)
(* roster and the plain bag of declarations of Labels, and the two are     *)
(* compared.                                                               *)
(***************************************************************************)
EXTENDS Roster

VARIABLES seen, hid, saves, was

L == INSTANCE Labels

labels == <<seen, hid, saves, was>>
both == <<roster, marks, edit, size, seen, hid, saves, was>>

BothInit == Init /\ L!Init

BothNext ==
  \/ \E k \in Keys, s \in 0..MaxSize :
       \/ Declare(k, s) /\ L!Declare(k, s)
       \/ Withdraw(k, s) /\ L!Withdraw(k, s)
  \/ Mark /\ L!Mark
  \/ Rollback /\ L!Rollback
  \/ \E k \in Keys : Find(k) /\ UNCHANGED labels
  \/ Flush /\ IF edit.phase = "reading" THEN L!Splice(MaxSize + 1, 0) ELSE UNCHANGED labels
  \/ \E from, to \in 0..MaxSize, delta \in (-MaxSize)..MaxSize, whole \in BOOLEAN :
       Reopen(from, to, delta, whole) /\ L!Reopen(from, whole)
  \/ \E old \in 0..MaxSize : Splice(old) /\ L!Splice(old, edit.delta)
  \/ Altered /\ L!Forget
  \/ Compact /\ UNCHANGED labels

BothSpec == BothInit /\ [][BothNext]_both

-------------------------------------------------------------------------------
(* What the roster promises.                                               *)

\* The declarations of the records I, where they start in the text.
BagOf(I) ==
  LET decl(i) == [key |-> roster.log[i].key, start |-> TextStart(roster, i)]
  IN [d \in {decl(i) : i \in I} |-> Cardinality({i \in I : decl(i) = d})]

Standing == {i \in DOMAIN roster.log : Stands(roster.log[i])}
Hidden == {i \in Standing : roster.log[i].back /\ roster.hidden}

\* The records that stand are the declarations made and not withdrawn, rolled back
\* or replaced, each where it starts in the text as it now is: a rollback leaves
\* what its mark found, and an edit what lies before it and what it took back.
DeclarationsStand == BagOf(Standing \ Hidden) = seen /\ BagOf(Hidden) = hid

\* "The earliest declaration of kind for label that stands and a lookup sees", from
\* an index made late, in lists walked from a hint, of a log compacted or rolled back.
LookupsFindEarliest == \A k \in Keys : FirstAt(Asked(roster, k), k) = L!Answer(k)

\* "Is now declared, or not, where it was not, or was, before": the labels an edit
\* altered are just those, anchors apart, though what was declared before it is
\* no longer held.
AlteredIsExact ==
  edit.phase = "read" =>
    AlteredLabels(Compared(roster), edit.from, IF edit.resumed = 0 THEN MaxSize + 1 ELSE edit.resumed)
      = L!Altered \ Anchors
===============================================================================
