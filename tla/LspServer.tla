------------------------------- MODULE LspServer -------------------------------
(***************************************************************************)
(* The language engine's server (lsp/server.c): the lifecycle and the      *)
(* document store, an open-addressed table of records keyed by URI, probed *)
(* linearly and kept without tombstones: a close shifts back each record   *)
(* after it that its probe would no longer reach.                          *)
(*                                                                         *)
(* A record's session is the text it holds: session_new and flush make it, *)
(* each edit changes it, and any of them may fail to allocate.  FNV-1a is  *)
(* any function of the URI: every hash is an initial state.                *)
(***************************************************************************)
EXTENDS Naturals, Sequences, FiniteSets

CONSTANTS Uris, Versions, Texts,
          Edits,        \* the sequences of edits an update carries
          Apply(_, _),  \* what the session makes of a text and an edit
          Inverted,     \* the edits whose start is after their end
          Hashes,       \* the values of hash_uri
          FirstCapacity,\* 8 in the code
          MostCapacity  \* a bound: the table is not widened past it

\* A hash is an unsigned integer, and an edit of a text is a text.
ASSUME HashAssumption == Hashes \subseteq Nat
ASSUME ApplyAssumption ==
  \A t \in Texts : \A es \in Edits : \A i \in 1..Len(es) : Apply(t, es[i]) \in Texts
ASSUME HostAssumption ==
  /\ Uris # {} /\ Versions # {} /\ Texts # {}
  /\ \A es \in Edits : Len(es) \in Nat
ASSUME CapacityAssumption == FirstCapacity \in Nat /\ FirstCapacity >= 4 /\ FirstCapacity % 4 = 0

VARIABLES phase,
          hash,     \* hash_uri
          slots,    \* 0..capacity - 1 to a record or Empty
          capacity,
          count,
          answer    \* what the last call answered

store == <<slots, capacity, count>>
vars == <<phase, hash, store, answer>>

Empty == [uri |-> "none"]

Record(u, v, t) == [uri |-> u, version |-> v, text |-> t]

-------------------------------------------------------------------------------
(* The table.                                                              *)

\* The steps of a probe for `u' in `table' of `size' slots that end it.
ProbeStops(table, size, u) ==
  {k \in 0..(size - 1) : table[(hash[u] + k) % size] = Empty \/ table[(hash[u] + k) % size].uri = u}

\* probe: the slot that holds the record of `u', or where it would go.
Probe(table, size, u) ==
  LET stops == ProbeStops(table, size, u)
      first == CHOOSE k \in stops : \A other \in stops : k <= other
  IN (hash[u] + first) % size

Find(u) == slots[Probe(slots, capacity, u)]

\* widen: the record of slot `i - 1', if there is one, put in the wider table.
WidenStep(table, i) ==
  IF slots[i - 1] = Empty THEN table
  ELSE [table EXCEPT ![Probe(table, 2 * capacity, slots[i - 1].uri)] = slots[i - 1]]

\* widen: each record of the table, in slot order, put in a table twice as large.
Widened ==
  LET filled[i \in 0..capacity] ==
        IF i = 0 THEN [s \in 0..(2 * capacity - 1) |-> Empty] ELSE WidenStep(filled[i - 1], i)
  IN filled[capacity]

\* Mutant of Stays: the run that wraps around the table is not told apart.
StaysUnwrapped(at, next, home) == at < home /\ home <= next

\* vacate: whether the record in slot `next', whose home is `home', stays when
\* slot `at' is empty.
Stays(at, next, home) ==
  IF at <= next THEN at < home /\ home <= next ELSE at < home \/ home <= next

\* vacate: one turn of its loop, which ends at an empty slot: the record in slot
\* `next' stays, or moves back to the empty slot `at'.
VacateStep(s) ==
  IF s.table[s.next] = Empty THEN s
  ELSE IF Stays(s.at, s.next, hash[s.table[s.next].uri] % capacity)
  THEN [s EXCEPT !.next = (s.next + 1) % capacity]
  ELSE [table |-> [s.table EXCEPT ![s.at] = s.table[s.next], ![s.next] = Empty],
        at |-> s.next, next |-> (s.next + 1) % capacity]

\* vacate: slot `at' emptied, and the records after it moved back.
Vacated(at) ==
  LET run[i \in 0..capacity] ==
        IF i = 0
        THEN [table |-> [slots EXCEPT ![at] = Empty], at |-> at, next |-> (at + 1) % capacity]
        ELSE VacateStep(run[i - 1])
  IN run[capacity].table

-------------------------------------------------------------------------------
(* The calls.                                                              *)

Init ==
  /\ phase = "fresh"
  /\ hash \in [Uris -> Hashes]
  /\ capacity = FirstCapacity
  /\ slots = [s \in 0..(FirstCapacity - 1) |-> Empty]
  /\ count = 0
  /\ answer = << >>

Answers(a) == answer' = <<a>> /\ UNCHANGED hash
Lists(v) == answer' = <<"list", v>> /\ UNCHANGED hash

\* markdown_core_lsp_initialize
Initialize ==
  \/ /\ phase = "fresh"
     /\ phase' = "active"
     /\ Answers("ok")
     /\ UNCHANGED store
  \/ /\ phase # "fresh"
     /\ Answers("invalidRequest")
     /\ UNCHANGED <<phase, store>>

\* Any other call the phase does not take: active's status.
Refuse ==
  /\ phase # "active"
  /\ Answers(IF phase = "fresh" THEN "notInitialized" ELSE "invalidRequest")
  /\ UNCHANGED <<phase, store>>

\* markdown_core_lsp_shutdown
Shutdown ==
  /\ phase = "active"
  /\ phase' = "halted"
  /\ Answers("ok")
  /\ UNCHANGED store

Crowded == count + 1 > (capacity \div 4) * 3

\* markdown_core_lsp_open, when storage can be had for all it makes
Open(u, v, t) ==
  LET size == IF Crowded THEN 2 * capacity ELSE capacity
      table == IF Crowded THEN Widened ELSE slots
      at == Probe(table, size, u)
  IN /\ phase = "active"
     /\ size <= MostCapacity
     /\ slots' = [table EXCEPT ![at] = Record(u, v, t)]
     /\ capacity' = size
     /\ count' = IF table[at] = Empty THEN count + 1 ELSE count
     /\ Answers("ok")
     /\ UNCHANGED phase

\* markdown_core_lsp_open: the table cannot widen, or it widens and the record
\* or its session cannot be made, which leaves the record that was there.
OpenFails ==
  /\ phase = "active"
  /\ \/ UNCHANGED store
     \/ /\ Crowded
        /\ 2 * capacity <= MostCapacity
        /\ slots' = Widened
        /\ capacity' = 2 * capacity
        /\ UNCHANGED count
  /\ Answers("internalError")
  /\ UNCHANGED phase

\* drop: the document in slot `at' is closed.
Drop(at) ==
  /\ slots' = Vacated(at)
  /\ count' = count - 1
  /\ UNCHANGED capacity

\* The text after the edits, in order, each on the text the one before it made.
After(text, edits) ==
  LET made[i \in 0..Len(edits)] == IF i = 0 THEN text ELSE Apply(made[i - 1], edits[i])
  IN made[Len(edits)]

\* Mutant of Update: an inverted edit is met after those before it are applied.
UpdateChecksLate(u, v, edits) ==
  LET at == Probe(slots, capacity, u)
      good == SelectSeq(edits, LAMBDA e : e \notin Inverted)
  IN /\ phase = "active"
     /\ UNCHANGED phase
     /\ slots[at] # Empty
     /\ slots' = [slots EXCEPT ![at].text = After(@, good)]
     /\ Answers(IF good = edits THEN "ok" ELSE "invalidParams")
     /\ UNCHANGED <<capacity, count>>

\* markdown_core_lsp_update
Update(u, v, edits) ==
  LET at == Probe(slots, capacity, u)
      ordered == \A i \in 1..Len(edits) : edits[i] \notin Inverted
  IN /\ phase = "active"
     /\ UNCHANGED phase
     /\ \/ /\ slots[at] = Empty \/ ~ordered
           /\ Answers("invalidParams")
           /\ UNCHANGED store
        \/ /\ slots[at] # Empty /\ ordered
           /\ slots' = [slots EXCEPT ![at] = Record(u, v, After(@.text, edits))]
           /\ Answers("ok")
           /\ UNCHANGED <<capacity, count>>
        \/ /\ slots[at] # Empty /\ ordered /\ Len(edits) > 0  \* an edit cannot allocate
           /\ Drop(at)
           /\ Answers("internalError")

\* markdown_core_lsp_close
Close(u) ==
  LET at == Probe(slots, capacity, u)
  IN /\ phase = "active"
     /\ UNCHANGED phase
     /\ \/ slots[at] = Empty /\ Answers("invalidParams") /\ UNCHANGED store
        \/ slots[at] # Empty /\ Drop(at) /\ Answers("ok")

\* markdown_core_lsp_complete
Complete(u) ==
  LET held == Find(u)
  IN /\ phase = "active"
     /\ UNCHANGED <<phase, store>>
     /\ \/ held = Empty /\ Answers("invalidParams")
        \/ held # Empty /\ Lists(held.version)
        \/ held # Empty /\ Answers("internalError")

Next ==
  \/ Initialize
  \/ Refuse
  \/ Shutdown
  \/ \E u \in Uris, v \in Versions, t \in Texts : Open(u, v, t)
  \/ OpenFails
  \/ \E u \in Uris, v \in Versions, es \in Edits : Update(u, v, es)
  \/ \E u \in Uris : Close(u)
  \/ \E u \in Uris : Complete(u)

Spec == Init /\ [][Next]_vars

-------------------------------------------------------------------------------
(* What makes the store correct.                                           *)

Held == {s \in 0..(capacity - 1) : slots[s] # Empty}

\* The server's variables keep their types: each record names a URI, version and
\* text the host gave, and the count of documents never wraps below zero.
TypeOK ==
  /\ phase \in {"fresh", "active", "halted"}
  /\ hash \in [Uris -> Hashes]
  /\ capacity \in Nat
  /\ DOMAIN slots = 0..(capacity - 1)
  /\ \A s \in Held : slots[s] \in [uri : Uris, version : Versions, text : Texts]
  /\ count \in Nat

\* A lookup finds every record: between a record's home and its slot, around
\* the table's end too, no slot is empty, after any sequence of opens, widens
\* and closes that shift records back.  And "the table always has an empty
\* slot", so a probe for a URI that is not open ends: one that meets neither its
\* record nor an empty slot never returns.
EveryRecordReached ==
  /\ \A s \in Held : Probe(slots, capacity, slots[s].uri) = s
  /\ count = Cardinality(Held)
  /\ count <= (capacity \div 4) * 3
  /\ \A u \in Uris : ProbeStops(slots, capacity, u) # {}

\* A document's text changes only to the text an update it answered OK to gives
\* it, whole, or to the text of an open: no call leaves part of its edits.
Plain == INSTANCE LspStore WITH
  docs <- [u \in {x \in Uris : Find(x) # Empty} |-> [version |-> Find(u).version, text |-> Find(u).text]]
ImplementsLspStore == Plain!Spec
===============================================================================
