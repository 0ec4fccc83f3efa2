-------------------------------- MODULE Labels --------------------------------
(***************************************************************************)
(* What the roster of declared labels promises its parse: which labels are *)
(* declared, and where, as a bag of declarations.  A lookup answers with   *)
(* the earliest; a rollback leaves what its mark found; an edit hides what *)
(* is declared from a place on, lets go what lay in the text it replaced,  *)
(* moves the rest, and says which labels became declared or no longer are. *)
(***************************************************************************)
EXTENDS Integers, Sequences, Bags

CONSTANTS Keys,     \* the labels, each with its kind
          None

VARIABLES seen,     \* the declarations a lookup sees
          hid,      \* those an edit hides from it, where they start in the old text
          saves,    \* what each mark found
          was       \* the labels declared as the edit under way began

vars == <<seen, hid, saves, was>>

Declaration(k, s) == [key |-> k, start |-> s]
One(d) == SetToBag({d})
Starts(bag, k) == {d.start : d \in {e \in BagToSet(bag) : e.key = k}}
KeysOf(bag) == {k \in Keys : Starts(bag, k) # {}}
From(bag, s) == [d \in {e \in BagToSet(bag) : e.start >= s} |-> bag[d]]
Before(bag, s) == [d \in {e \in BagToSet(bag) : e.start < s} |-> bag[d]]
Shifted(bag, delta) ==
  [d \in {Declaration(e.key, e.start + delta) : e \in BagToSet(bag)} |-> bag[Declaration(d.key, d.start - delta)]]
Earliest(S) == CHOOSE s \in S : \A t \in S : s <= t
Latest(S) == CHOOSE s \in S : \A t \in S : t <= s

Init == seen = EmptyBag /\ hid = EmptyBag /\ saves = << >> /\ was = {}

Declare(k, s) == seen' = seen (+) One(Declaration(k, s)) /\ UNCHANGED <<hid, saves, was>>

\* The declaration that starts at s, or the label's last when none does.
Withdraw(k, s) ==
  /\ k \in KeysOf(seen)
  /\ seen' = seen (-) One(Declaration(k, IF s \in Starts(seen, k) THEN s ELSE Latest(Starts(seen, k))))
  /\ UNCHANGED <<hid, saves, was>>

Mark == saves' = Append(saves, seen) /\ UNCHANGED <<seen, hid, was>>

Rollback ==
  /\ seen' = saves[Len(saves)]
  /\ saves' = SubSeq(saves, 1, Len(saves) - 1)
  /\ UNCHANGED <<hid, was>>

\* An edit reads from s on, the whole text or until it takes the old text back.
Reopen(s, whole) ==
  /\ was' = KeysOf(seen)
  /\ seen' = Before(seen, s)
  /\ hid' = IF whole THEN EmptyBag ELSE From(seen, s)
  /\ UNCHANGED saves

\* The old text from `place' on is taken back, moved by delta; or none of it.
Splice(place, delta) ==
  /\ seen' = seen (+) Shifted(From(hid, place), delta)
  /\ hid' = EmptyBag
  /\ UNCHANGED <<saves, was>>

\* What a lookup answers, and what an edit does once it was read: the labels that
\* became declared by it, or no longer are.
Answer(k) == IF k \in KeysOf(seen) THEN Earliest(Starts(seen, k)) ELSE None
Altered == {k \in Keys : (k \in was) # (k \in KeysOf(seen))}

\* What was declared as the last edit began is no longer asked for.
Forget == was' = {} /\ UNCHANGED <<seen, hid, saves>>
===============================================================================
