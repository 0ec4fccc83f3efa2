-------------------------------- MODULE Roster --------------------------------
(***************************************************************************)
(* The roster of the labels a parse declared (core/roster.h, core/roster.c *)
(* and the zipper of core/zipper.h): a log of records, an index made from  *)
(* it as lookups ask, and, once an edit read the text, each kind's         *)
(* declarations in a zipper about the edit.                                *)
(*                                                                         *)
(* A record is named by its position in the log, from 1; the position 0 is *)
(* NULL.  Every record is of one size, so the log's bytes are its length.  *)
(* The blocks records are carved from are left out, and so is a refused    *)
(* allocation: it fails the parse, whose roster is then only freed.  The   *)
(* one that does not, of the compaction a parse ignores, is an action.     *)
(***************************************************************************)
EXTENDS Integers, Sequences, FiniteSets, SequencesExt, Bags

CONSTANTS Keys,      \* labels, each with its kind
          KindOf,    \* the kind of each
          KindOrder, \* the kinds, in their order
          Anchor,    \* the kind of anchors
          Slack,     \* how many more dead records than live ones a reopen bears
          MaxSize,   \* a bound on the text
          MaxLog,    \* a bound on the log
          MaxMarks,  \* a bound on the marks held
          None

Kinds == ToSet(KindOrder)
Anchors == {k \in Keys : KindOf[k] = Anchor}

ASSUME RosterAssumption ==
  /\ KindOrder \in Seq(Kinds) /\ \A m, n \in DOMAIN KindOrder : KindOrder[m] = KindOrder[n] => m = n
  /\ KindOf \in [Keys -> Kinds] /\ Anchor \in Kinds
  /\ Slack \in Nat /\ MaxSize \in Nat /\ MaxLog \in Nat /\ MaxMarks \in Nat

VARIABLES roster,  \* markdown_core_roster
          marks,   \* the marks taken of it and not yet rolled back
          edit,    \* what the parse is at: its phase, and where an edit reads
          size     \* the bytes of the text

vars == <<roster, marks, edit, size>>

NoEdit == [phase |-> "stream", from |-> 0, to |-> 0, delta |-> 0, resumed |-> 0]
NoList == [list |-> << >>, hint |-> 0]

Init ==
  /\ roster = [log |-> << >>, index |-> [k \in Keys |-> NoList],
               indexed |-> [d \in Kinds |-> 0], cursor |-> [d \in Kinds |-> 0],
               front |-> [d \in Kinds |-> << >>], back |-> [d \in Kinds |-> << >>], end |-> [d \in Kinds |-> 0],
               placed |-> FALSE, hidden |-> FALSE, dead |-> 0, lost |-> {}]
  /\ marks = << >> /\ edit = NoEdit /\ size = MaxSize

-------------------------------------------------------------------------------
(* The records, and the key's list.                                        *)

\* markdown_core_roster_stands, and markdown_core_roster_start of the record i.
Stands(x) == x.withdrew = 0 /\ ~x.withdrawn /\ ~x.gone
TextStart(r, i) == LET x == r.log[i] IN IF x.back THEN r.end[KindOf[x.key]] - x.start ELSE x.start

\* How many records of the log are of the kind d: `records' of its space.
Records(r, d) == Cardinality({i \in DOMAIN r.log : KindOf[r.log[i].key] = d})

S_precedes(x, y) ==
  IF x.back # y.back THEN ~x.back ELSE IF x.back THEN x.start > y.start ELSE x.start < y.start

At(list, i) == CHOOSE p \in DOMAIN list : list[p] = i

\* The walk from the hint of a list that is not empty: the position of the last
\* record of `stays', those that stay before what is looked for, or 0.
Walked(entry, stays) ==
  LET n == Len(entry.list)
      h == At(entry.list, entry.hint)
  IN IF entry.list[h] \in stays
     THEN CHOOSE q \in h..n : (q = n \/ entry.list[q + 1] \notin stays) /\ \A p \in h..q : entry.list[p] \in stays
     ELSE Max({0} \cup {p \in 1..h : entry.list[p] \in stays})

S_link(r, i) ==
  LET x == r.log[i]
      entry == r.index[x.key]
      stays == {j \in ToSet(entry.list) : ~S_precedes(x, r.log[j])}
      at == IF entry.list = << >> THEN 0 ELSE Walked(entry, stays)
  IN [r EXCEPT !.index[x.key] = [list |-> InsertAt(entry.list, at + 1, i), hint |-> i], !.log[i].linked = TRUE]

S_unlink(r, i) ==
  LET k == r.log[i].key
      list == r.index[k].list
      p == At(list, i)
  IN [r EXCEPT !.log[i].linked = FALSE,
               !.index[k] = [list |-> RemoveAt(list, p),
                             hint |-> IF Len(list) = 1 THEN 0 ELSE IF p > 1 THEN list[p - 1] ELSE list[2]]]

\* The records I join their keys' lists, or leave them, one after another.
Joined(r, I) ==
  LET made[i \in 0..Len(r.log)] == IF i = 0 THEN r ELSE IF i \in I THEN S_link(made[i - 1], i) ELSE made[i - 1]
  IN made[Len(r.log)]
Parted(r, I) ==
  LET made[i \in 0..Len(r.log)] == IF i = 0 THEN r ELSE IF i \in I THEN S_unlink(made[i - 1], i) ELSE made[i - 1]
  IN made[Len(r.log)]

S_append(r, k, s, withdrew) ==
  [r EXCEPT !.log = Append(@, [key |-> k, start |-> s, withdrew |-> withdrew, linked |-> FALSE,
                               withdrawn |-> FALSE, back |-> FALSE, gone |-> FALSE])]

\* S_index_space: the kind's records the log holds beyond its cursor, until as many
\* are indexed as the kind has.
S_index_space(r, d) ==
  LET beyond == {i \in (r.cursor[d] + 1)..Len(r.log) : KindOf[r.log[i].key] = d}
      reached(i) == r.indexed[d] + Cardinality({j \in beyond : j <= i}) <= Records(r, d)
      made == Joined(r, {i \in beyond : reached(i) /\ Stands(r.log[i])})
  IN [made EXCEPT !.indexed[d] = Records(r, d), !.cursor[d] = Len(r.log)]

\* S_first of a key whose kind is indexed: the record, or 0.
S_first(r, k) ==
  LET list == r.index[k].list
  IN IF list = << >> \/ (r.log[list[1]].back /\ r.hidden) THEN 0 ELSE list[1]

-------------------------------------------------------------------------------
(* The zipper.                                                             *)

\* How many entries of the front start before `place', and of the back.
FrontFrom(front, place) == Cardinality({p \in DOMAIN front : front[p].start < place})
BackFrom(back, end, place) == Cardinality({p \in DOMAIN back : end - back[p].start < place})

\* An entry put in the front, after every one that starts where it does or before.
Entered(front, e) == InsertAt(front, FrontFrom(front, e.start + 1) + 1, e)

Flip(e, end) == [e EXCEPT !.start = end - @]
Flipped(entries, end) == [p \in DOMAIN entries |-> Flip(entries[Len(entries) + 1 - p], end)]

\* name_move of the zipper of the kind d, to `place' of a text of `length' bytes.
Move(r, d, place, length) ==
  LET front == r.front[d]
      back == r.back[d]
      first == FrontFrom(front, place)
      taken == BackFrom(back, length, place)
      pushed == back \o Flipped(SubSeq(front, first + 1, Len(front)), length)
      left == Len(pushed) - taken
  IN [front |-> SubSeq(front, 1, first) \o Flipped(SubSeq(pushed, left + 1, Len(pushed)), length),
      back  |-> SubSeq(pushed, 1, left)]

-------------------------------------------------------------------------------
(* What each call makes of the roster r.                                   *)

\* markdown_core_roster_declare
Declared(r, k, s) ==
  LET appended == S_append(r, k, s, 0)
      entry == [start |-> s, record |-> Len(appended.log)]
  IN IF ~r.placed THEN appended
     ELSE [appended EXCEPT !.front[KindOf[k]] = Entered(@, entry)]

\* markdown_core_roster_withdraw
Withdrawn(r, k, s) ==
  LET indexed == S_index_space(r, KindOf[k])
      list == indexed.index[k].list
      at == Walked(indexed.index[k], {i \in ToSet(list) : TextStart(indexed, i) <= s})
      gone == IF at > 0 /\ TextStart(indexed, list[at]) = s THEN list[at] ELSE Last(list)
      appended == S_append(indexed, k, s, gone)
  IN [S_unlink(appended, gone) EXCEPT !.log[gone].withdrawn = TRUE, !.dead = @ + 2,
                                      !.indexed[KindOf[k]] = @ + 1, !.cursor[KindOf[k]] = Len(appended.log)]

\* S_unplace
Unplaced(front, i) == RemoveAt(front, CHOOSE p \in DOMAIN front : front[p].record = i)

\* Mutant of Popped: a declaration withdrawn after the mark does not stand again.
PoppedWithdrawn(r) ==
  LET i == Len(r.log)
      x == r.log[i]
      d == KindOf[x.key]
      counted == [r EXCEPT !.indexed[d] = IF i <= r.cursor[d] THEN @ - 1 ELSE @]
      undone == IF x.linked THEN S_unlink(counted, i) ELSE counted
      unplaced == IF r.placed /\ x.withdrew = 0
                  THEN [undone EXCEPT !.front[d] = Unplaced(@, i)] ELSE undone
  IN [unplaced EXCEPT !.log = Front(@)]

\* The log's last record popped and undone.
Popped(r) ==
  LET i == Len(r.log)
      x == r.log[i]
      d == KindOf[x.key]
      counted == [r EXCEPT !.indexed[d] = IF i <= r.cursor[d] THEN @ - 1 ELSE @]
      undone == IF x.withdrew # 0 THEN S_link([counted EXCEPT !.log[x.withdrew].withdrawn = FALSE], x.withdrew)
                ELSE IF x.linked THEN S_unlink(counted, i)
                ELSE counted
      unplaced == IF r.placed /\ x.withdrew = 0
                  THEN [undone EXCEPT !.front[d] = Unplaced(@, i)] ELSE undone
  IN [unplaced EXCEPT !.log = Front(@)]

\* The log's last n records popped.
Undone(r, n) == LET left[i \in 0..n] == IF i = 0 THEN r ELSE Popped(left[i - 1]) IN left[n]

\* Mutant of RolledBack: the cursors stay beyond the log.
RolledBackFar(r, mark) == [Undone(r, Len(r.log) - mark.count) EXCEPT !.dead = mark.dead]

\* markdown_core_roster_rollback
RolledBack(r, mark) ==
  LET popped == Undone(r, Len(r.log) - mark.count)
      cursor(d) == IF popped.cursor[d] > mark.count THEN mark.count ELSE popped.cursor[d]
  IN [popped EXCEPT !.cursor = [d \in Kinds |-> cursor(d)], !.dead = mark.dead]

\* S_place: each kind's declarations that stand, all in the front, in the order of
\* where they start, and then of the log.
S_place(r) ==
  LET entry(i) == [start |-> r.log[i].start, record |-> i]
      fronts[i \in 0..Len(r.log)] ==
        IF i = 0 THEN [d \in Kinds |-> << >>]
        ELSE IF Stands(r.log[i]) THEN [fronts[i - 1] EXCEPT ![KindOf[r.log[i].key]] = Entered(@, entry(i))]
        ELSE fronts[i - 1]
  IN [r EXCEPT !.front = fronts[Len(r.log)], !.placed = TRUE]

\* The places keep only the declarations that stand.
Kept(r, entries) ==
  LET kept[p \in 0..Len(entries)] ==
        IF p = 0 THEN << >>
        ELSE IF Stands(r.log[entries[p].record]) THEN Append(kept[p - 1], entries[p])
        ELSE kept[p - 1]
  IN kept[Len(entries)]
Pruned(r) ==
  [r EXCEPT !.front = [d \in Kinds |-> Kept(r, r.front[d])], !.back = [d \in Kinds |-> Kept(r, r.back[d])]]

\* The records in the order their copies have: by kind, each kind's places in order.
Copied(r) ==
  LET entries(d) == r.front[d] \o Reverse(r.back[d])
      records(d) == [p \in DOMAIN entries(d) |-> entries(d)[p].record]
      copied[n \in 0..Len(KindOrder)] == IF n = 0 THEN << >> ELSE copied[n - 1] \o records(KindOrder[n])
  IN copied[Len(KindOrder)]
Renamed(entries, kept) == [p \in DOMAIN entries |-> [entries[p] EXCEPT !.record = At(kept, entries[p].record)]]

\* Mutant of Compacted: a record copied is not the index's to take again.
CompactedHeld(r) ==
  LET pruned == Pruned(r)
      kept == Copied(pruned)
  IN [pruned EXCEPT !.log = [p \in DOMAIN kept |-> [r.log[kept[p]] EXCEPT !.linked = FALSE]],
                    !.front = [d \in Kinds |-> Renamed(pruned.front[d], kept)],
                    !.back = [d \in Kinds |-> Renamed(pruned.back[d], kept)],
                    !.index = [k \in Keys |-> NoList],
                    !.indexed = [d \in Kinds |-> Len(pruned.front[d]) + Len(pruned.back[d])], !.cursor = [d \in Kinds |-> Len(kept)], !.dead = 0]

\* markdown_core_roster_compact: the log holds only the declarations that stand, a
\* kind's in the order of where they start, and the index none of them.
Compacted(r) ==
  LET pruned == Pruned(r)
      kept == Copied(pruned)
  IN [pruned EXCEPT !.log = [p \in DOMAIN kept |-> [r.log[kept[p]] EXCEPT !.linked = FALSE]],
                    !.front = [d \in Kinds |-> Renamed(pruned.front[d], kept)],
                    !.back = [d \in Kinds |-> Renamed(pruned.back[d], kept)],
                    !.index = [k \in Keys |-> NoList],
                    !.indexed = [d \in Kinds |-> 0], !.cursor = [d \in Kinds |-> 0], !.dead = 0]

\* Each record the move of the zippers took to the other part stands where its
\* entry does.
Followed(r, parts) ==
  LET fresh(old, new) == {new[p] : p \in (Len(old) + 1)..Len(new)}
      backed == UNION {fresh(r.back[d], parts[d].back) : d \in Kinds}
      fronted == UNION {fresh(r.front[d], parts[d].front) : d \in Kinds}
      moved(i) == CHOOSE e \in backed \cup fronted : e.record = i
  IN [i \in DOMAIN r.log |->
       IF \E e \in backed \cup fronted : e.record = i
       THEN [r.log[i] EXCEPT !.start = moved(i).start, !.back = moved(i) \in backed]
       ELSE r.log[i]]

\* markdown_core_roster_reopen
Reopened(r, start, length) ==
  LET placed == IF r.placed THEN r ELSE S_place(r)
      kept == IF placed.dead > Len(placed.log) - placed.dead + Slack THEN Compacted(placed) ELSE placed
      parts == [d \in Kinds |-> Move(kept, d, start, length)]
  IN [kept EXCEPT !.log = Followed(kept, parts),
                  !.front = [d \in Kinds |-> parts[d].front], !.back = [d \in Kinds |-> parts[d].back],
                  !.end = [d \in Kinds |-> length], !.hidden = TRUE, !.lost = {}]

\* The records a splice at `place' lets go.
Gone(r, place) ==
  UNION {{r.back[d][p].record : p \in {q \in DOMAIN r.back[d] : r.end[d] - r.back[d][q].start < place}} : d \in Kinds}

\* Mutant of Spliced: the back is still measured from the old text's end.
SplicedStill(r, place, delta) ==
  LET gone == Gone(r, place)
      stood == {i \in gone : Stands(r.log[i])}
      unlinked == Parted(r, {i \in gone : r.log[i].linked})
  IN [unlinked EXCEPT
       !.log = [i \in DOMAIN r.log |->
                 IF i \in gone THEN [unlinked.log[i] EXCEPT !.gone = TRUE] ELSE unlinked.log[i]],
       !.back = [d \in Kinds |-> SubSeq(r.back[d], 1, Len(r.back[d]) - BackFrom(r.back[d], r.end[d], place))],
       !.lost = r.lost \cup {r.log[i].key : i \in stood}, !.dead = r.dead + Cardinality(stood), !.hidden = FALSE]

\* markdown_core_roster_splice
Spliced(r, place, delta) ==
  LET gone == Gone(r, place)
      stood == {i \in gone : Stands(r.log[i])}
      unlinked == Parted(r, {i \in gone : r.log[i].linked})
  IN [unlinked EXCEPT
       !.log = [i \in DOMAIN r.log |->
                 IF i \in gone THEN [unlinked.log[i] EXCEPT !.gone = TRUE] ELSE unlinked.log[i]],
       !.back = [d \in Kinds |-> SubSeq(r.back[d], 1, Len(r.back[d]) - BackFrom(r.back[d], r.end[d], place))],
       !.end = [d \in Kinds |-> r.end[d] + delta],
       !.lost = r.lost \cup {r.log[i].key : i \in stood}, !.dead = r.dead + Cardinality(stood), !.hidden = FALSE]

\* markdown_core_roster_made and markdown_core_roster_lost
Made(r, start) ==
  {k \in Keys \ Anchors : \E p \in DOMAIN r.front[KindOf[k]] :
     LET e == r.front[KindOf[k]][p]
     IN e.start >= start /\ r.log[e.record].key = k /\ Stands(r.log[e.record])}
Lost(r) == r.lost \ Anchors

\* markdown_core_roster_declared_outside
DeclaredOutside(r, k, from, to) ==
  S_first(r, k) # 0 /\ (TextStart(r, S_first(r, k)) < from \/ TextStart(r, Last(r.index[k].list)) >= to)

\* Mutant of AlteredLabels: a label that went is not asked for again.
AlteredLost(r, from, to) ==
  {k \in Made(r, from) \ Lost(r) : ~DeclaredOutside(r, k, from, to)} \cup (Lost(r) \ Made(r, from))

\* What markdown_core_parser_altered_labels answers, of a roster whose index is made.
AlteredLabels(r, from, to) ==
  {k \in Made(r, from) \ Lost(r) : ~DeclaredOutside(r, k, from, to)}
    \cup {k \in Lost(r) \ Made(r, from) : S_first(r, k) = 0}

-------------------------------------------------------------------------------
(* What the parse does with it.                                            *)

\* Where a declaration made now may start: in what the edit reads, and in what
\* the reading read when it has taken the old text back.
Open ==
  CASE edit.phase = "stream"  -> 0..(size - 1)
    [] edit.phase = "reading" -> edit.from..(size + edit.delta - 1)
    [] edit.phase = "resumed" -> edit.from..(edit.resumed - 1)
    [] OTHER -> {}

Declare(k, s) ==
  /\ s \in Open /\ Len(roster.log) < MaxLog
  /\ roster' = Declared(roster, k, s)
  /\ UNCHANGED <<marks, edit, size>>

\* A root completed anew withdraws what its completion reserved, which stands.
Withdraw(k, s) ==
  /\ edit.phase = "stream" /\ s \in Open /\ Len(roster.log) < MaxLog
  /\ \E i \in DOMAIN roster.log : roster.log[i].key = k /\ Stands(roster.log[i])
  /\ roster' = Withdrawn(roster, k, s)
  /\ UNCHANGED <<marks, edit, size>>

\* S_mark, of a snapshot or a candidate, and S_restore.
Mark ==
  /\ Open # {} /\ Len(marks) < MaxMarks
  /\ marks' = Append(marks, [count |-> Len(roster.log), dead |-> roster.dead])
  /\ UNCHANGED <<roster, edit, size>>

Rollback ==
  /\ marks # << >>
  /\ roster' = RolledBack(roster, Last(marks))
  /\ marks' = Front(marks)
  /\ UNCHANGED <<edit, size>>

\* What a lookup makes of the roster, and what it answers: where the earliest
\* declaration it sees starts.  A kind no record is of is not indexed.
Asked(r, k) == IF Records(r, KindOf[k]) = 0 THEN r ELSE S_index_space(r, KindOf[k])
FirstAt(r, k) == IF S_first(r, k) = 0 THEN None ELSE TextStart(r, S_first(r, k))

\* markdown_core_roster_find
Find(k) == roster' = Asked(roster, k) /\ UNCHANGED <<marks, edit, size>>

\* The parse is flushed, or an edit's reading is: one that took nothing back lets
\* the whole back go.
Flush ==
  /\ edit.phase \in {"stream", "reading", "resumed"} /\ marks = << >>
  /\ IF edit.phase = "stream" THEN edit' = [edit EXCEPT !.phase = "idle"] /\ UNCHANGED <<roster, size>>
     ELSE /\ edit' = [edit EXCEPT !.phase = "read"]
          /\ roster' = IF edit.phase = "reading" THEN Spliced(roster, MaxSize + 1, 0) ELSE roster
          /\ size' = size + edit.delta
  /\ UNCHANGED marks

\* markdown_core_parser_reopen: the text from `from' on is read, in which what lay
\* before `to' may differ and what follows is moved by delta.
Reopen(from, to, delta, whole) ==
  /\ edit.phase = "idle"
  /\ from <= to /\ to <= size /\ to + delta >= from /\ size + delta \in 0..MaxSize
  /\ LET reopened == Reopened(roster, from, size)
     IN roster' = IF whole THEN Spliced(reopened, MaxSize + 1, 0) ELSE reopened
  /\ edit' = [phase |-> "reading", from |-> from, to |-> to, delta |-> delta, resumed |-> 0]
  /\ UNCHANGED <<marks, size>>

\* S_splice: at a line past the edit and past what the reading declared, the old
\* text from `old' on is taken back.
Splice(old) ==
  /\ edit.phase = "reading" /\ marks = << >> /\ roster.hidden
  /\ old \in edit.to..(size - 1) /\ old + edit.delta > 0
  /\ \A d \in Kinds : \A p \in DOMAIN roster.front[d] : roster.front[d][p].start < old + edit.delta
  /\ roster' = Spliced(roster, old, edit.delta)
  /\ edit' = [edit EXCEPT !.phase = "resumed", !.resumed = old + edit.delta]
  /\ UNCHANGED <<marks, size>>

\* The roster the labels altered are asked of, each looked up: its index is made.
Compared(r) ==
  LET asked == {KindOf[k] : k \in Made(r, edit.from) \cup Lost(r)}
      made[n \in 0..Len(KindOrder)] ==
        IF n = 0 THEN r ELSE IF KindOrder[n] \in asked THEN S_index_space(made[n - 1], KindOrder[n]) ELSE made[n - 1]
  IN made[Len(KindOrder)]

\* markdown_core_parser_altered_labels, which the session asks after the reading.
Altered ==
  /\ edit.phase = "read"
  /\ roster' = Compared(roster)
  /\ edit' = [NoEdit EXCEPT !.phase = "idle"]
  /\ UNCHANGED <<marks, size>>

\* markdown_core_parser_compact, once a reading of the whole text left no back: it
\* ignores a compaction refused its storage, which pruned the places.
Compact ==
  /\ edit.phase = "idle" /\ roster.placed /\ \A d \in Kinds : roster.back[d] = << >>
  /\ roster' \in {Compacted(roster), Pruned(roster)}
  /\ UNCHANGED <<marks, edit, size>>

Next ==
  \/ \E k \in Keys, s \in 0..MaxSize : Declare(k, s) \/ Withdraw(k, s)
  \/ Mark \/ Rollback \/ Flush \/ Altered \/ Compact
  \/ \E k \in Keys : Find(k)
  \/ \E from, to \in 0..MaxSize, delta \in (-MaxSize)..MaxSize, whole \in BOOLEAN : Reopen(from, to, delta, whole)
  \/ \E old \in 0..MaxSize : Splice(old)

Spec == Init /\ [][Next]_vars

-------------------------------------------------------------------------------
(* What makes the roster correct.                                          *)

\* A key's declarations "in order of where they start, the front's first": a key's
\* list is of the records before its kind's cursor that stand, each linked, and its
\* hint is one of them; a reading's own and those hidden from it are in two texts.
IndexInOrder ==
  \A k \in Keys :
    LET list == roster.index[k].list
        taken == {i \in 1..roster.cursor[KindOf[k]] : roster.log[i].key = k /\ Stands(roster.log[i])}
    IN /\ ToSet(list) = taken /\ Len(list) = Cardinality(taken)
       /\ \A p, q \in DOMAIN list : p < q =>
            LET x == roster.log[list[p]]
                y == roster.log[list[q]]
            IN /\ x.back => y.back
               /\ x.back = y.back \/ ~roster.hidden => TextStart(roster, list[p]) <= TextStart(roster, list[q])
       /\ IF list = << >> THEN roster.index[k].hint = 0 ELSE roster.index[k].hint \in ToSet(list)
       /\ \A i \in DOMAIN roster.log : roster.log[i].key = k => (roster.log[i].linked <=> i \in taken)

\* "How many of them the index has taken: every one before `cursor' in the log, and
\* none after it."
IndexCounted ==
  \A d \in Kinds : /\ roster.cursor[d] <= Len(roster.log)
                   /\ roster.indexed[d] = Cardinality({i \in 1..roster.cursor[d] : KindOf[roster.log[i].key] = d})

\* Once an edit read the text, each kind's places are of its declarations that
\* stand, each once, every one of the front before every one of the back and each
\* part in order, and a record says where its entry is.
PlacesInOrder ==
  roster.placed =>
    \A d \in Kinds :
      LET entries == roster.front[d] \o Reverse(roster.back[d])
          held == [p \in DOMAIN entries |-> entries[p].record]
          inFront(p) == p <= Len(roster.front[d])
      IN /\ ToSet(held) = {i \in DOMAIN roster.log : Stands(roster.log[i]) /\ KindOf[roster.log[i].key] = d}
         /\ IsInjective(held)
         /\ \A p \in DOMAIN entries :
              /\ roster.log[held[p]].start = entries[p].start
              /\ roster.log[held[p]].back = ~inFront(p)
         /\ \A p, q \in DOMAIN entries : p < q /\ (inFront(p) = inFront(q) \/ ~roster.hidden)
              => TextStart(roster, held[p]) <= TextStart(roster, held[q])

\* A reopen knows the dead by their count: the records that stand for nothing.
DeadCounted == roster.dead = Cardinality({i \in DOMAIN roster.log : ~Stands(roster.log[i])})

\* The assertion of name_ready: the back of a text no reading is under way in is
\* measured from its end.
BackEndsWithText ==
  edit.phase \in {"idle", "read"} => \A d \in Kinds : roster.back[d] # << >> => roster.end[d] = size

\* The index of every key is what the cursors say was taken of the log, in the
\* order the declarations stand in the text, each with its count.
IndexSound == IndexCounted /\ IndexInOrder

\* The places an edit's zipper holds are those of the declarations that stand,
\* measured from the ends of the text as it is, and the dead are the others.
PlacesSound == PlacesInOrder /\ DeadCounted /\ BackEndsWithText
===============================================================================
