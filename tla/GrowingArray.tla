----------------------------- MODULE GrowingArray -----------------------------
(***************************************************************************)
(* The growing array of core/array.h over core/ahead.h: one contiguous     *)
(* storage that, once half full, takes storage of twice its capacity and   *)
(* copies its elements there from the front, two for each place it gains,  *)
(* so that no growth copies it whole.  When it is full it switches to the  *)
(* storage ahead and moves only what was not copied.  A copy holds while   *)
(* its element stays as it was, so every owner that changes an element in  *)
(* place says so first (unsettle).                                         *)
(*                                                                         *)
(* Storage is modelled by what is live in it: `values' is what the array   *)
(* and the reader it is lent to hold, `next' the copies made ahead.  Bytes *)
(* past them are never read and are left out.                              *)
(***************************************************************************)
EXTENDS Naturals, Sequences

CONSTANTS Elem,     \* the elements
          Batches,  \* the sequences appended or written at once
          Slice,    \* the places gained between two copies (ahead_slice)
          First,    \* MARKDOWN_CORE_AHEAD_FIRST
          Limit     \* SIZE_MAX / 2 / width, the most elements asked for

ASSUME BatchAssumption == Batches \subseteq Seq(Elem)
ASSUME SliceAssumption == Slice \in Nat \ {0}
ASSUME FirstAssumption == First \in Nat \ {0}
ASSUME LimitAssumption == Limit \in Nat /\ First <= 2 * Limit

VARIABLES
  values,    \* the elements in the storage: the array's, then the reader's
  count,     \* the elements the array holds
  room,      \* the count it can reach before it asks to grow
  capacity,  \* ahead.capacity: the places its storage has
  ahead,     \* the places the storage ahead has, 0 when there is none
  next,      \* the copies written to the storage ahead
  moved,     \* ahead.moved: the copies that hold, from the front
  lent,      \* whether a reader writes past the count ("reading"), left its
             \* storage so ("read"), or neither ("no")
  disturbed  \* history: whether an operation other than a push ran since a
             \* push last moved the array

array == <<values, count, room, capacity, ahead, next, moved>>
vars == <<array, lent, disturbed>>

held == Len(values)

-------------------------------------------------------------------------------
(* Sizes.                                                                  *)

\* Mutant of AheadRoom: the end of the slice is not held to the capacity.
AheadRoomUncapped(cap, n) ==
  IF cap <= 2 * Slice THEN cap
  ELSE IF n <= cap \div 2 THEN cap \div 2
  ELSE (n - (n % Slice)) + Slice

\* markdown_core_ahead_room
AheadRoom(cap, n) ==
  IF cap <= 2 * Slice THEN cap
  ELSE IF n <= cap \div 2 THEN cap \div 2
  ELSE LET end == (n - (n % Slice)) + Slice - 1
       IN IF end < cap THEN end ELSE cap

\* The capacities `base' doubled reaches `n' with: the loops of
\* markdown_core_ahead_extend and markdown_core_array_fit.  One element.
Doubled(base, n) ==
  {c \in base..(base + 2 * n) : /\ \E k \in 0..n : c = base * 2^k
                                /\ n <= c
                                /\ c = base \/ c < 2 * n}

\* The capacity markdown_core_ahead_extend doubles from.
Base(n) == IF capacity # 0 THEN capacity ELSE IF n > First THEN n ELSE First

-------------------------------------------------------------------------------
(* Growth: the array as markdown_core_ahead_extend leaves it, when `m' of   *)
(* its copies hold.                                                        *)

\* What the array holds once the copies that hold stand in for their elements.
Merged(n, m) == [i \in 1..n |-> IF i <= m THEN next[i] ELSE values[i]]

Same(m) == [values |-> values, room |-> room, capacity |-> capacity,
            ahead |-> ahead, next |-> next, moved |-> m]

\* Mutant of Pace: one copy for each place gained.
PaceSingle(n) == LET pace == n - capacity \div 2 IN IF pace < held THEN pace ELSE held

\* markdown_core_ahead_copy: where the copies end, and whether it copies.
Pace(n) == LET pace == 2 * (n - capacity \div 2) IN IF pace < held THEN pace ELSE held
Copies(n, m) == Pace(n) > m /\ held > Slice

Copied(n, m) ==
  [values |-> values, room |-> AheadRoom(capacity, n), capacity |-> capacity,
   ahead |-> IF Copies(n, m) THEN 2 * capacity ELSE ahead,
   next |-> IF Copies(n, m) THEN Merged(Pace(n), m) ELSE next,
   moved |-> IF Copies(n, m) THEN Pace(n) ELSE m]

\* markdown_core_ahead_switch
Switched(n, m, larger) ==
  [values |-> Merged(held, m), room |-> AheadRoom(larger, n), capacity |-> larger,
   ahead |-> 0, next |-> << >>, moved |-> 0]

\* The rest of markdown_core_ahead_extend: the array moves whole, and the
\* storage ahead goes (markdown_core_ahead_free).
MovedWhole(n, larger) ==
  [values |-> values, room |-> AheadRoom(larger, n), capacity |-> larger,
   ahead |-> 0, next |-> << >>, moved |-> 0]

Switches(larger) == ahead # 0 /\ larger = 2 * capacity

Extended(n, m) ==
  IF n <= room THEN {Same(m)}
  ELSE IF n <= capacity THEN {c \in {Copied(n, m)} : ahead # 0 \/ ~Copies(n, m) \/ capacity <= Limit}
  ELSE {IF Switches(larger) THEN Switched(n, m, larger) ELSE MovedWhole(n, larger) :
          larger \in {c \in Doubled(Base(n), n) : n <= Limit}}

\* Whether a growth asks the allocator, or for more than it can be asked for.
AsksStorage(n, m) ==
  \/ room < n /\ n <= capacity /\ Copies(n, m) /\ ahead = 0
  \/ capacity < n /\ (n > Limit \/ \E larger \in Doubled(Base(n), n) : ~Switches(larger))

\* markdown_core_array_extend gave NULL: the array stays as it was.
OutOfStorage(n, m) ==
  /\ AsksStorage(n, m)
  /\ moved' = m
  /\ UNCHANGED <<values, count, room, capacity, ahead, next>>

\* The array takes the storage `a' and holds `vals', `n' of them its own, with
\* `m' copies that hold.
Becomes(a, vals, n, m) ==
  /\ values' = vals
  /\ count' = n
  /\ room' = a.room
  /\ capacity' = a.capacity
  /\ ahead' = a.ahead
  /\ next' = a.next
  /\ moved' = m

\* Mutant of Unsettled: the copies are never made void.
UnsettledNever(m, first) == m

\* markdown_core_ahead_unsettle: the copies from `first' on are void.
Unsettled(m, first) == IF m > first THEN first ELSE m

-------------------------------------------------------------------------------
(* The operations of array.h, and session_replace, which edits in place.   *)

Init ==
  /\ values = << >> /\ count = 0
  /\ room = 0 /\ capacity = 0
  /\ ahead = 0 /\ next = << >> /\ moved = 0
  /\ lent = "no"
  /\ disturbed = FALSE

\* An owner that lent its storage takes what was written or empties the array
\* before any other operation (S_settle_end, S_settled_clear of blocks.c).
Owner == lent = "no" /\ UNCHANGED lent

Disturbs == disturbed' = TRUE

\* markdown_core_array_push
Push(e) ==
  /\ Owner
  /\ \/ OutOfStorage(count + 1, moved) /\ UNCHANGED disturbed
     \/ \E a \in Extended(count + 1, moved) :
          /\ Becomes(a, Append(a.values, e), count + 1, a.moved)
          /\ disturbed' = (disturbed /\ a.capacity = capacity)

\* markdown_core_array_append, as session_take appends the text
AppendAll(b) ==
  /\ Owner
  /\ Disturbs
  /\ \/ OutOfStorage(count + Len(b), moved)
     \/ \E a \in Extended(count + Len(b), moved) :
          Becomes(a, a.values \o b, count + Len(b), a.moved)

\* markdown_core_array_reserve
Reserve(n) ==
  /\ Owner
  /\ Disturbs
  /\ \/ OutOfStorage(n, moved)
     \/ \E a \in Extended(n, moved) : Becomes(a, a.values, count, a.moved)

\* markdown_core_array_write, and the assignment through it
Write(i, e) ==
  /\ Owner
  /\ Disturbs
  /\ i \in 1..count
  /\ values' = [values EXCEPT ![i] = e]
  /\ moved' = Unsettled(moved, i - 1)
  /\ UNCHANGED <<count, room, capacity, ahead, next>>

\* Mutant of Replace: the elements after the edit move only when it grows.
ReplaceKeepsTail(from, to, b) ==
  LET total == from + Len(b) + (count - to)
      grows == Len(b) > to - from
  IN /\ Owner
     /\ Disturbs
     /\ \/ OutOfStorage(total, moved)
        \/ \E a \in Extended(total, moved) :
             Becomes(a, IF grows \/ Len(b) = to - from
                        THEN SubSeq(a.values, 1, from) \o b \o SubSeq(a.values, to + 1, count)
                        ELSE SubSeq(a.values, 1, from) \o b \o SubSeq(a.values, from + Len(b) + 1, total),
                     total, Unsettled(a.moved, from))

\* session_replace: the elements from `from' to `to' become `b'
Replace(from, to, b) ==
  LET total == from + Len(b) + (count - to)
  IN /\ Owner
     /\ Disturbs
     /\ \/ OutOfStorage(total, moved)
        \/ \E a \in Extended(total, moved) :
             Becomes(a, SubSeq(a.values, 1, from) \o b \o SubSeq(a.values, to + 1, count),
                     total, Unsettled(a.moved, from))

\* markdown_core_array_truncate.  One that empties the array ends a read.
Truncate(n) ==
  /\ n \in 0..count
  /\ lent = "no" \/ n = 0
  /\ lent' = "no"
  /\ Disturbs
  /\ values' = SubSeq(values, 1, n)
  /\ count' = n
  /\ moved' = Unsettled(moved, n)
  /\ UNCHANGED <<room, capacity, ahead, next>>

-------------------------------------------------------------------------------
(* The reader a paragraph's settled nodes are lent to (blocks.c).          *)

\* S_settled_read: the nodes become the paragraph's children where they lie.
Lend ==
  /\ lent \in {"no", "read"}
  /\ count > 0
  /\ lent' = "reading"
  /\ UNCHANGED <<array, disturbed>>

\* markdown_core_array_reserve_past of S_settle_after, and the elements the
\* reader writes there.  The copies past the count are void before it grows.
WritePast(b) ==
  LET n == held + Len(b)
      void == Unsettled(moved, count)
  IN /\ lent = "reading"
     /\ UNCHANGED lent
     /\ Disturbs
     /\ \/ OutOfStorage(n, void)
        \/ \E a \in Extended(n, void) : Becomes(a, a.values \o b, count, a.moved)

\* The reader writes what it read over: past the count, no copy is unsettled.
RewritePast(i, e) ==
  /\ lent = "reading"
  /\ i \in (count + 1)..held
  /\ values' = [values EXCEPT ![i] = e]
  /\ UNCHANGED <<count, room, capacity, ahead, next, moved, lent, disturbed>>

\* markdown_core_array_take of S_settle_end
Take(n) ==
  /\ lent = "reading"
  /\ n \in (count + 1)..held
  /\ lent' = "no"
  /\ Disturbs
  /\ moved' = Unsettled(moved, count)
  /\ values' = SubSeq(values, 1, n)
  /\ count' = n
  /\ UNCHANGED <<room, capacity, ahead, next>>

\* The read ends and settles nothing: what it wrote is no longer anyone's.
Drop ==
  /\ lent = "reading"
  /\ lent' = "read"
  /\ values' = SubSeq(values, 1, count)
  /\ UNCHANGED <<count, room, capacity, ahead, next, moved, disturbed>>

-------------------------------------------------------------------------------
(* Storage given back.                                                     *)

\* markdown_core_array_shrink: it moves whole to the least capacity, which
\* the allocator may refuse.
Shrink ==
  /\ Owner
  /\ Disturbs
  /\ \E larger \in Doubled(First, count) :
       /\ capacity > larger
       /\ Becomes(MovedWhole(count, larger), values, count, 0)

\* markdown_core_array_free
Free ==
  /\ capacity > 0
  /\ lent' = "no"
  /\ disturbed' = FALSE
  /\ values' = << >> /\ count' = 0
  /\ room' = 0 /\ capacity' = 0
  /\ ahead' = 0 /\ next' = << >> /\ moved' = 0

Next ==
  \/ \E e \in Elem : Push(e)
  \/ \E b \in Batches : AppendAll(b)
  \/ \E n \in 1..Limit : Reserve(n)
  \/ \E i \in 1..count, e \in Elem : Write(i, e)
  \/ \E b \in Batches : \E from \in 0..count : \E to \in from..count : Replace(from, to, b)
  \/ \E n \in 0..count : Truncate(n)
  \/ Lend
  \/ \E b \in Batches : WritePast(b)
  \/ \E i \in 1..held, e \in Elem : RewritePast(i, e)
  \/ \E n \in 1..held : Take(n)
  \/ Drop
  \/ Shrink
  \/ Free

Spec == Init /\ [][Next]_vars

-------------------------------------------------------------------------------
(* What makes the array correct.                                           *)

\* The array's fields keep their types: a count, room or capacity is never negative,
\* and the storage holds elements only.
TypeOK ==
  /\ values \in Seq(Elem)
  /\ count \in Nat
  /\ room \in Nat
  /\ capacity \in Nat
  /\ ahead \in Nat
  /\ next \in Seq(Elem)
  /\ moved \in Nat
  /\ lent \in {"no", "reading", "read"}
  /\ disturbed \in BOOLEAN

\* Nothing lies outside the storage it is written to: what the array and its
\* reader hold is within the room, the room within the storage, the copies
\* within the storage ahead; and the storage ahead is of the capacity the
\* switch will give the array (markdown_core_ahead_switch asserts it).
InBounds ==
  /\ count <= held
  /\ lent # "reading" => held = count
  /\ held <= room
  /\ room <= capacity
  /\ capacity <= 2 * Limit
  /\ ahead \in {0, 2 * capacity}
  /\ moved <= Len(next)
  /\ Len(next) <= ahead
  /\ ahead <= 2 * Limit

\* Every copy the owner did not void holds (the assertion of
\* markdown_core_ahead_switch), and the array never believes in more copies
\* than it has elements, unless it was left so by a reader.
CopiesHold ==
  /\ lent = "no" => moved <= count
  /\ \A i \in 1..count : i <= moved => next[i] = values[i]

\* What markdown_core_ahead_copy asserts of the array when it is called: the
\* growth asked for is past half full of an array of more than two slices.
CopyAsserts ==
  \A n \in (room + 1)..capacity : capacity > 2 * Slice /\ n > capacity \div 2

\* "No growth copies it whole" (ahead.h): of an array that only pushes grew, a
\* push copies two elements for each place of a slice and for its own at most, and
\* the switch of an array of more than two slices moves less than two slices.
CopiesMade == IF capacity' = capacity THEN moved' - moved
              ELSE IF ahead # 0 THEN held - moved ELSE held
PacedPush ==
  [][~disturbed /\ ~disturbed' /\ count' = count + 1 =>
       CopiesMade <= IF capacity' = capacity \/ capacity <= 2 * Slice THEN 2 * (Slice + 1) ELSE 2 * Slice - 1]_vars

\* The array is the sequence its owner put in it, across every copy, switch,
\* move and failed growth.
Plain == INSTANCE PlainArray
ImplementsPlainArray == Plain!Spec
===============================================================================
