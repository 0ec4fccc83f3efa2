--------------------------- MODULE GrowingArrayProof ---------------------------
(***************************************************************************)
(* For every slice, first capacity, limit and set of elements: the growing *)
(* array stays within its storage, its copies hold, and it implements the  *)
(* plain array.  The three invariants are inductive together; the step     *)
(* they turn on is GrowthKeeps, what any outcome of a growth leaves.       *)
(***************************************************************************)
EXTENDS GrowingArray, SequenceTheorems, Groundwork, TLAPS

Inv == TypeOK /\ InBounds /\ CopiesHold /\ CopyAsserts

\* What a growth to `n' elements leaves of the array: the room asked for, within
\* the storage, the elements as they were, and copies that hold.
Kept(a, n) ==
  /\ a.values = values
  /\ a.room \in Nat /\ a.capacity \in Nat /\ a.ahead \in Nat /\ a.moved \in Nat
  /\ a.next \in Seq(Elem)
  /\ n <= a.room /\ held <= a.room
  /\ a.room <= a.capacity /\ a.capacity <= 2 * Limit
  /\ a.ahead \in {0, 2 * a.capacity} /\ a.ahead <= 2 * Limit
  /\ a.moved <= Len(a.next) /\ Len(a.next) <= a.ahead
  /\ a.moved <= held
  /\ \A i \in 1..held : i <= a.moved => a.next[i] = values[i]
  /\ \A k \in (a.room + 1)..a.capacity : a.capacity > 2 * Slice /\ k > a.capacity \div 2

\* markdown_core_ahead_room gives room for the count it is asked for, within
\* the capacity, and all of it to an array of at most two slices.
LEMMA RoomFits ==
  ASSUME NEW cap \in Nat, NEW n \in Nat, n <= cap
  PROVE  /\ AheadRoom(cap, n) \in Nat
         /\ n <= AheadRoom(cap, n)
         /\ AheadRoom(cap, n) <= cap
         /\ cap <= 2 * Slice => AheadRoom(cap, n) = cap
         /\ AheadRoom(cap, n) >= cap \div 2
<1>1. Slice \in Nat /\ Slice > 0
  BY SliceAssumption
<1>2. n % Slice \in 0..(Slice - 1)
  BY <1>1
<1>3. cap \div 2 \in Nat /\ cap \div 2 <= cap
  OBVIOUS
<1>4. n % Slice <= n
  BY <1>1
<1> DEFINE rest == n % Slice
<1> HIDE DEF rest
<1>5. rest \in Nat /\ rest < Slice /\ rest <= n
  BY <1>1, <1>2, <1>4 DEF rest
<1>6. AheadRoom(cap, n) = IF cap <= 2 * Slice THEN cap
                          ELSE IF n <= cap \div 2 THEN cap \div 2
                          ELSE IF (n - rest) + Slice - 1 < cap THEN (n - rest) + Slice - 1 ELSE cap
  BY DEF AheadRoom, rest
<1> QED
  BY <1>1, <1>3, <1>5, <1>6

\* The copies stand in for the elements: what the switch assembles is what the
\* array held.
LEMMA MergedIsValues ==
  ASSUME Inv, NEW m \in Nat, m <= moved, m <= count, NEW n \in 0..held
  PROVE  /\ Merged(n, m) \in Seq(Elem)
         /\ Len(Merged(n, m)) = n
         /\ \A i \in 1..n : Merged(n, m)[i] = values[i]
         /\ n = held => Merged(n, m) = values
<1>1. values \in Seq(Elem) /\ held \in Nat /\ n \in Nat /\ n <= held
  BY DEF Inv, TypeOK, held
<1>2. \A i \in 1..n : values[i] \in Elem
  BY <1>1 DEF held
<1>3. \A i \in 1..n : (IF i <= m THEN next[i] ELSE values[i]) = values[i]
  BY <1>1 DEF Inv, TypeOK, InBounds, CopiesHold, held
<1>4. Merged(n, m) = [i \in 1..n |-> values[i]]
  BY <1>3 DEF Merged
<1>5. Merged(n, m) \in Seq(Elem) /\ Len(Merged(n, m)) = n
  BY <1>1, <1>2, <1>4
<1>6. \A i \in 1..n : Merged(n, m)[i] = values[i]
  BY <1>4
<1>7. n = held => Merged(n, m) = values
  BY <1>1, <1>5, <1>6, SeqEqual DEF held
<1> QED
  BY <1>5, <1>6, <1>7

\* Every outcome of markdown_core_ahead_extend keeps the array and the copies.
LEMMA GrowthKeeps ==
  ASSUME Inv, NEW m \in Nat, m <= moved, m <= count, NEW n \in Nat,
         NEW a \in Extended(n, m)
  PROVE  Kept(a, n)
<1>0. /\ values \in Seq(Elem) /\ next \in Seq(Elem)
      /\ count \in Nat /\ room \in Nat /\ capacity \in Nat /\ ahead \in Nat /\ moved \in Nat
      /\ held \in Nat /\ Len(next) \in Nat /\ Slice \in Nat /\ Limit \in Nat /\ First \in Nat
      /\ Slice > 0 /\ First > 0 /\ First <= 2 * Limit
  BY SliceAssumption, FirstAssumption, LimitAssumption DEF Inv, TypeOK, held
<1>1. /\ count <= held /\ held <= room /\ room <= capacity /\ capacity <= 2 * Limit
      /\ ahead \in {0, 2 * capacity} /\ ahead <= 2 * Limit
      /\ moved <= Len(next) /\ Len(next) <= ahead
      /\ \A i \in 1..count : i <= moved => next[i] = values[i]
      /\ \A k \in (room + 1)..capacity : capacity > 2 * Slice /\ k > capacity \div 2
  BY DEF Inv, InBounds, CopiesHold, CopyAsserts
<1>2. CASE n <= room
  <2>1. a = Same(m)
    BY <1>2 DEF Extended
  <2> QED
    BY <1>0, <1>1, <1>2, <2>1 DEF Same, Kept
<1>3. CASE room < n /\ n <= capacity
  <2>1. a = Copied(n, m) /\ (ahead # 0 \/ ~Copies(n, m) \/ capacity <= Limit)
    BY <1>0, <1>3 DEF Extended
  <2>2. /\ AheadRoom(capacity, n) \in Nat
        /\ n <= AheadRoom(capacity, n) /\ AheadRoom(capacity, n) <= capacity
        /\ capacity <= 2 * Slice => AheadRoom(capacity, n) = capacity
        /\ AheadRoom(capacity, n) >= capacity \div 2
    BY <1>0, <1>3, RoomFits
  <2>3. \A k \in (AheadRoom(capacity, n) + 1)..capacity : capacity > 2 * Slice /\ k > capacity \div 2
    BY <1>0, <2>2
  <2>4. CASE Copies(n, m)
    <3>1. Pace(n) \in 0..held /\ Pace(n) \in Nat
      BY <1>0, <1>1, <1>3, <2>4 DEF Pace, Copies
    <3>2. /\ Merged(Pace(n), m) \in Seq(Elem)
          /\ Len(Merged(Pace(n), m)) = Pace(n)
          /\ \A i \in 1..Pace(n) : Merged(Pace(n), m)[i] = values[i]
      BY <3>1, MergedIsValues
    <3>3. /\ a.values = values /\ a.room = AheadRoom(capacity, n) /\ a.capacity = capacity
          /\ a.ahead = 2 * capacity /\ a.next = Merged(Pace(n), m) /\ a.moved = Pace(n)
      BY <2>1, <2>4 DEF Copied
    <3>4. 2 * capacity <= 2 * Limit
      BY <1>0, <1>1, <2>1, <2>4
    <3> HIDE DEF held
    <3> QED
      BY <1>0, <1>1, <1>3, <2>2, <2>3, <3>1, <3>2, <3>3, <3>4 DEF Kept
  <2>5. CASE ~Copies(n, m)
    <3>1. /\ a.values = values /\ a.room = AheadRoom(capacity, n) /\ a.capacity = capacity
          /\ a.ahead = ahead /\ a.next = next /\ a.moved = m
      BY <2>1, <2>5 DEF Copied
    <3>2. \A i \in 1..held : i <= m => next[i] = values[i]
      BY <1>0, <1>1
    <3>3. m <= held /\ m <= Len(next)
      BY <1>0, <1>1
    <3>4. held <= AheadRoom(capacity, n)
      BY <1>0, <1>1, <1>3, <2>2
    <3> HIDE DEF held
    <3> QED
      BY <1>0, <1>1, <2>2, <2>3, <3>1, <3>2, <3>3, <3>4 DEF Kept
  <2> QED
    BY <2>4, <2>5
<1>4. CASE capacity < n
  <2>1. PICK larger \in Doubled(Base(n), n) :
          n <= Limit /\ a = (IF Switches(larger) THEN Switched(n, m, larger) ELSE MovedWhole(n, larger))
    BY <1>0, <1>1, <1>4 DEF Extended
  <2>2. Base(n) \in Nat /\ Base(n) <= 2 * Limit
    BY <1>0, <1>1, <2>1 DEF Base
  <2>3. larger \in Nat /\ n <= larger /\ larger <= 2 * Limit
    BY <1>0, <2>1, <2>2 DEF Doubled
  <2>4. /\ AheadRoom(larger, n) \in Nat
        /\ n <= AheadRoom(larger, n) /\ AheadRoom(larger, n) <= larger
        /\ larger <= 2 * Slice => AheadRoom(larger, n) = larger
        /\ AheadRoom(larger, n) >= larger \div 2
    BY <2>3, RoomFits
  <2>5. \A k \in (AheadRoom(larger, n) + 1)..larger : larger > 2 * Slice /\ k > larger \div 2
    BY <1>0, <2>3, <2>4
  <2>6. Merged(held, m) = values
    BY <1>0, MergedIsValues
  <2>7. /\ a.values = values /\ a.room = AheadRoom(larger, n) /\ a.capacity = larger
        /\ a.ahead = 0 /\ a.next = << >> /\ a.moved = 0
    BY <2>1, <2>6 DEF Switched, MovedWhole
  <2>8. << >> \in Seq(Elem) /\ Len(<< >>) = 0
    OBVIOUS
  <2> HIDE DEF held
  <2> QED
    BY <1>0, <1>1, <1>4, <2>3, <2>4, <2>5, <2>7, <2>8 DEF Kept
<1> QED
  BY <1>0, <1>2, <1>3, <1>4

\* A step that takes the storage a growth left, keeps the elements whose copies
\* it keeps and fits in the room, keeps the invariant.
LEMMA BecomesKeeps ==
  ASSUME Inv, NEW n \in Nat, NEW a, Kept(a, n),
         NEW vals \in Seq(Elem), NEW c \in Nat, NEW m \in Nat,
         Becomes(a, vals, c, m),
         m <= a.moved, c <= Len(vals), Len(vals) <= a.room,
         \A i \in 1..c : i <= m => i <= held /\ vals[i] = values[i],
         lent' \in {"no", "reading", "read"}, disturbed' \in BOOLEAN,
         lent' # "reading" => Len(vals) = c,
         lent' = "no" => m <= c
  PROVE  Inv'
<1>1. TypeOK'
  BY DEF Becomes, Kept, TypeOK
<1>2. InBounds'
  <2>1. /\ held' = Len(vals) /\ Len(vals) \in Nat /\ Limit \in Nat
        /\ Len(next') = Len(a.next) /\ Len(a.next) \in Nat
    BY LimitAssumption DEF Becomes, Kept, held
  <2> QED
    BY <2>1 DEF Becomes, Kept, InBounds
<1>3. CopiesHold'
  <2>1. SUFFICES ASSUME NEW i \in 1..c, i <= m
                 PROVE  a.next[i] = vals[i]
    BY DEF CopiesHold, Becomes
  <2>2. i \in 1..held /\ i <= a.moved /\ vals[i] = values[i]
    BY <2>1 DEF Kept, Inv, TypeOK, held
  <2> QED
    BY <2>2 DEF Kept
<1>4. CopyAsserts'
  BY DEF Becomes, Kept, CopyAsserts
<1> QED
  BY <1>1, <1>2, <1>3, <1>4 DEF Inv

\* A growth that had no storage leaves the array as it was but for copies it
\* made void first.
LEMMA OutOfStorageKeeps ==
  ASSUME Inv, NEW n, NEW m \in Nat, m <= moved, OutOfStorage(n, m),
         UNCHANGED lent, disturbed' \in BOOLEAN
  PROVE  Inv'
<1>1. /\ values' = values /\ count' = count /\ room' = room /\ capacity' = capacity
      /\ ahead' = ahead /\ next' = next /\ moved' = m /\ lent' = lent
  BY DEF OutOfStorage
<1>2. held' = held
  BY <1>1 DEF held
<1>3. TypeOK'
  BY <1>1 DEF Inv, TypeOK
<1>4. InBounds'
  BY <1>1, <1>2 DEF Inv, TypeOK, InBounds
<1>5. CopiesHold'
  BY <1>1 DEF Inv, TypeOK, CopiesHold
<1>6. CopyAsserts'
  BY <1>1 DEF Inv, CopyAsserts
<1> QED
  BY <1>3, <1>4, <1>5, <1>6 DEF Inv

\* An array that was never grown has no storage and no copies.
LEMMA InitInv == Init => Inv
<1> SUFFICES ASSUME Init PROVE Inv
  OBVIOUS
<1>1. held = 0 /\ Len(next) = 0
  BY DEF Init, held
<1>2. TypeOK
  <2>1. disturbed \in BOOLEAN
    BY Zenon DEF Init
  <2>2. << >> \in Seq(Elem)
    OBVIOUS
  <2> QED
    BY <2>1, <2>2 DEF Init, TypeOK
<1> QED
  BY <1>1, <1>2, LimitAssumption DEF Init, Inv, InBounds, CopiesHold, CopyAsserts

-------------------------------------------------------------------------------
(* One lemma per action: it keeps the invariant, and it is a step of the   *)
(* plain array or leaves the plain array as it was.                        *)

PlainStep == [Plain!Next]_(Plain!vars)

\* markdown_core_array_push keeps the invariant, and appends the element or does nothing.
LEMMA PushStep ==
  ASSUME Inv, NEW e \in Elem, Push(e)
  PROVE  Inv' /\ PlainStep
<1>1. /\ lent = "no" /\ lent' = lent /\ moved <= count /\ held = count
      /\ values \in Seq(Elem) /\ count \in Nat /\ moved \in Nat /\ disturbed \in BOOLEAN
  BY DEF Push, Owner, Inv, TypeOK, InBounds, CopiesHold
<1>2. CASE OutOfStorage(count + 1, moved) /\ UNCHANGED disturbed
  <2>1. Inv'
    BY <1>1, <1>2, OutOfStorageKeeps
  <2>2. UNCHANGED Plain!vars
    BY <1>2 DEF OutOfStorage, Plain!vars
  <2> QED
    BY <2>1, <2>2 DEF PlainStep
<1>3. CASE \E a \in Extended(count + 1, moved) :
             /\ Becomes(a, Append(a.values, e), count + 1, a.moved)
             /\ disturbed' = (disturbed /\ a.capacity = capacity)
  <2>1. PICK a \in Extended(count + 1, moved) :
             /\ Becomes(a, Append(a.values, e), count + 1, a.moved)
             /\ disturbed' = (disturbed /\ a.capacity = capacity)
    BY <1>3
  <2>2. Kept(a, count + 1)
    BY <1>1, GrowthKeeps
  <2>3. a.values = values /\ a.moved \in Nat /\ a.moved <= held /\ count + 1 <= a.room
    BY <2>2 DEF Kept
  <2>4. /\ Append(values, e) \in Seq(Elem) /\ Len(Append(values, e)) = count + 1
        /\ \A i \in 1..count : Append(values, e)[i] = values[i]
    BY <1>1 DEF held
  <2>5. disturbed' \in BOOLEAN
    BY <2>1, Zenon
  <2>6. Inv'
    <3>1. /\ Becomes(a, Append(values, e), count + 1, a.moved)
          /\ a.moved <= a.moved /\ count + 1 \in Nat
          /\ count + 1 <= Len(Append(values, e)) /\ Len(Append(values, e)) <= a.room
          /\ a.moved <= count + 1
      BY <1>1, <2>1, <2>3, <2>4
    <3>2. \A i \in 1..(count + 1) : i <= a.moved => i <= held /\ Append(values, e)[i] = values[i]
      BY <1>1, <2>3, <2>4
    <3>3. lent' \in {"no", "reading", "read"}
      BY <1>1
    <3> QED
      BY <2>2, <2>3, <2>4, <2>5, <3>1, <3>2, <3>3, BecomesKeeps
  <2>7. Plain!Push(e)
    BY <1>1, <2>1, <2>3 DEF Becomes, Plain!Push, Plain!Owned, held
  <2> QED
    BY <2>6, <2>7 DEF PlainStep, Plain!Next
<1> QED
  BY <1>2, <1>3 DEF Push

\* markdown_core_array_append keeps the invariant, and appends all of a batch or none of it.
LEMMA AppendAllStep ==
  ASSUME Inv, NEW b \in Batches, AppendAll(b)
  PROVE  Inv' /\ PlainStep
<1>1. /\ lent = "no" /\ lent' = lent /\ moved <= count /\ held = count
      /\ values \in Seq(Elem) /\ count \in Nat /\ moved \in Nat
  BY DEF AppendAll, Owner, Inv, TypeOK, InBounds, CopiesHold
<1>2. disturbed' \in BOOLEAN
  BY Zenon DEF AppendAll, Disturbs
<1>3. b \in Seq(Elem) /\ Len(b) \in Nat
  BY BatchAssumption
<1>4. CASE OutOfStorage(count + Len(b), moved)
  <2>1. Inv'
    BY <1>1, <1>2, <1>4, OutOfStorageKeeps
  <2>2. UNCHANGED Plain!vars
    BY <1>4 DEF OutOfStorage, Plain!vars
  <2> QED
    BY <2>1, <2>2 DEF PlainStep
<1>5. CASE \E a \in Extended(count + Len(b), moved) :
             Becomes(a, a.values \o b, count + Len(b), a.moved)
  <2>1. PICK a \in Extended(count + Len(b), moved) :
             Becomes(a, a.values \o b, count + Len(b), a.moved)
    BY <1>5
  <2>2. Kept(a, count + Len(b))
    BY <1>1, <1>3, GrowthKeeps
  <2>3. a.values = values /\ a.moved \in Nat /\ a.moved <= held /\ count + Len(b) <= a.room
    BY <2>2 DEF Kept
  <2>4. /\ values \o b \in Seq(Elem) /\ Len(values \o b) = count + Len(b)
        /\ \A i \in 1..count : (values \o b)[i] = values[i]
    <3>1. /\ values \o b \in Seq(Elem) /\ Len(values \o b) = Len(values) + Len(b)
          /\ \A i \in 1..(Len(values) + Len(b)) :
                (values \o b)[i] = IF i <= Len(values) THEN values[i] ELSE b[i - Len(values)]
      BY <1>1, <1>3, ConcatProperties
    <3> QED
      BY <1>1, <1>3, <3>1 DEF held
  <2>5. Inv'
    <3>1. /\ Becomes(a, values \o b, count + Len(b), a.moved)
          /\ a.moved <= a.moved /\ count + Len(b) \in Nat
          /\ count + Len(b) <= Len(values \o b) /\ Len(values \o b) <= a.room
          /\ a.moved <= count + Len(b)
      BY <1>1, <1>3, <2>1, <2>3, <2>4
    <3>2. \A i \in 1..(count + Len(b)) : i <= a.moved => i <= held /\ (values \o b)[i] = values[i]
      BY <1>1, <1>3, <2>3, <2>4
    <3>3. lent' \in {"no", "reading", "read"}
      BY <1>1
    <3> QED
      BY <1>2, <2>2, <2>3, <2>4, <3>1, <3>2, <3>3, BecomesKeeps
  <2>6. Plain!AppendAll(b)
    BY <1>1, <2>1, <2>3 DEF Becomes, Plain!AppendAll, Plain!Owned, held
  <2> QED
    BY <2>5, <2>6 DEF PlainStep, Plain!Next
<1> QED
  BY <1>4, <1>5 DEF AppendAll

\* markdown_core_array_reserve keeps the invariant, and its owner sees no change.
LEMMA ReserveStep ==
  ASSUME Inv, NEW n \in 1..Limit, Reserve(n)
  PROVE  Inv' /\ PlainStep
<1>1. /\ lent = "no" /\ lent' = lent /\ moved <= count /\ held = count
      /\ values \in Seq(Elem) /\ count \in Nat /\ moved \in Nat /\ n \in Nat
  BY LimitAssumption DEF Reserve, Owner, Inv, TypeOK, InBounds, CopiesHold
<1>2. disturbed' \in BOOLEAN
  BY Zenon DEF Reserve, Disturbs
<1>3. CASE OutOfStorage(n, moved)
  <2>1. Inv'
    BY <1>1, <1>2, <1>3, OutOfStorageKeeps
  <2>2. UNCHANGED Plain!vars
    BY <1>3 DEF OutOfStorage, Plain!vars
  <2> QED
    BY <2>1, <2>2 DEF PlainStep
<1>4. CASE \E a \in Extended(n, moved) : Becomes(a, a.values, count, a.moved)
  <2>1. PICK a \in Extended(n, moved) : Becomes(a, a.values, count, a.moved)
    BY <1>4
  <2>2. Kept(a, n)
    BY <1>1, GrowthKeeps
  <2>3. a.values = values /\ a.moved \in Nat /\ a.moved <= held /\ held <= a.room
    BY <2>2 DEF Kept
  <2>4. Inv'
    BY <1>1, <1>2, <2>1, <2>2, <2>3, BecomesKeeps DEF held
  <2>5. UNCHANGED Plain!vars
    BY <2>1, <2>3 DEF Becomes, Plain!vars
  <2> QED
    BY <2>4, <2>5 DEF PlainStep
<1> QED
  BY <1>3, <1>4 DEF Reserve

\* A step in the storage the array has, which makes void the copies of what it
\* changes, keeps the invariant.
LEMMA InPlaceKeeps ==
  ASSUME Inv, UNCHANGED <<room, capacity, ahead, next>>,
         values' \in Seq(Elem), count' \in Nat, moved' \in Nat,
         moved' <= moved, count' <= Len(values'), Len(values') <= held,
         \A i \in 1..count' : i <= moved' => i <= count /\ values'[i] = values[i],
         lent' \in {"no", "reading", "read"}, disturbed' \in BOOLEAN,
         lent' # "reading" => Len(values') = count',
         lent' = "no" => moved' <= count'
  PROVE  Inv'
<1>1. TypeOK'
  BY DEF Inv, TypeOK
<1>2. InBounds'
  <2>1. held' = Len(values') /\ held' \in Nat /\ held \in Nat /\ Len(next') = Len(next) /\ Len(next) \in Nat
    BY DEF held, Inv, TypeOK
  <2> QED
    BY <2>1 DEF Inv, TypeOK, InBounds
<1>3. CopiesHold'
  <2>1. SUFFICES ASSUME NEW i \in 1..count', i <= moved'
                 PROVE  next[i] = values'[i]
    BY DEF CopiesHold
  <2> QED
    BY <2>1 DEF Inv, TypeOK, CopiesHold
<1>4. CopyAsserts'
  BY DEF Inv, CopyAsserts
<1> QED
  BY <1>1, <1>2, <1>3, <1>4 DEF Inv

\* The first `n' elements of the array, n at most what it holds.
LEMMA Prefix ==
  ASSUME Inv, NEW n \in 0..held
  PROVE  /\ SubSeq(values, 1, n) \in Seq(Elem)
         /\ Len(SubSeq(values, 1, n)) = n
         /\ \A i \in 1..n : SubSeq(values, 1, n)[i] = values[i]
<1>1. values \in Seq(Elem) /\ held \in Nat
  BY DEF Inv, TypeOK, held
<1>2. \A i \in 1..n : values[i] \in Elem
  BY <1>1 DEF held
<1>3. /\ SubSeq(values, 1, n) \in Seq(Elem)
      /\ Len(SubSeq(values, 1, n)) = IF 1 <= n THEN n - 1 + 1 ELSE 0
      /\ \A i \in 1..(n - 1 + 1) : SubSeq(values, 1, n)[i] = values[1 + i - 1]
  BY <1>2, SubSeqProperties
<1> QED
  BY <1>1, <1>3

\* An element rewritten in place, its copies made void first, keeps the invariant.
LEMMA WriteStep ==
  ASSUME Inv, NEW i \in 1..count, NEW e \in Elem, Write(i, e)
  PROVE  Inv' /\ PlainStep
<1>1. /\ lent = "no" /\ lent' = lent /\ moved <= count /\ held = count
      /\ values \in Seq(Elem) /\ count \in Nat /\ moved \in Nat /\ held \in Nat
  BY DEF Write, Owner, Inv, TypeOK, InBounds, CopiesHold, held
<1>2. disturbed' \in BOOLEAN
  BY Zenon DEF Write, Disturbs
<1>3. /\ values' \in Seq(Elem) /\ Len(values') = Len(values)
      /\ \A j \in 1..Len(values) : values'[j] = IF j = i THEN e ELSE values[j]
  BY <1>1, ExceptSeq DEF Write, held
<1>4. /\ count' = count /\ moved' \in Nat /\ moved' <= moved /\ moved' <= i - 1
      /\ UNCHANGED <<room, capacity, ahead, next>>
  BY <1>1 DEF Write, Unsettled
<1>5. \A j \in 1..count' : j <= moved' => j <= count /\ values'[j] = values[j]
  BY <1>1, <1>3, <1>4 DEF held
<1>6. Inv'
  BY <1>1, <1>2, <1>3, <1>4, <1>5, InPlaceKeeps DEF held
<1>7. Plain!Write(i, e)
  BY <1>1, <1>4 DEF Write, Plain!Write, Plain!Owned, held
<1>8. i \in 1..Len(values)
  BY <1>1 DEF held
<1> QED
  BY <1>6, <1>7, <1>8 DEF PlainStep, Plain!Next

\* markdown_core_array_truncate keeps the invariant: what copies are left are of what is left.
LEMMA TruncateStep ==
  ASSUME Inv, NEW n \in 0..count, Truncate(n)
  PROVE  Inv' /\ PlainStep
<1>1. /\ lent' = "no" /\ count \in Nat /\ moved \in Nat /\ held \in Nat /\ count <= held
      /\ values' = SubSeq(values, 1, n) /\ count' = n
      /\ moved' \in Nat /\ moved' <= moved /\ moved' <= n
      /\ UNCHANGED <<room, capacity, ahead, next>>
  BY DEF Truncate, Unsettled, Inv, TypeOK, InBounds, held
<1>2. disturbed' \in BOOLEAN
  BY Zenon DEF Truncate, Disturbs
<1>3. n \in 0..held /\ n \in Nat
  BY <1>1
<1>4. /\ values' \in Seq(Elem) /\ Len(values') = n
      /\ \A i \in 1..n : values'[i] = values[i]
  BY <1>1, <1>3, Prefix
<1>5. \A i \in 1..count' : i <= moved' => i <= count /\ values'[i] = values[i]
  BY <1>1, <1>4
<1>6. Inv'
  BY <1>1, <1>2, <1>3, <1>4, <1>5, InPlaceKeeps
<1>7. Plain!Truncate(n)
  BY <1>1 DEF Plain!Truncate
<1>8. n \in 0..Len(values)
  BY <1>3 DEF held
<1> QED
  BY <1>6, <1>7, <1>8 DEF PlainStep, Plain!Next

\* Lending the storage to a reader changes nothing the owner has.
LEMMA LendStep ==
  ASSUME Inv, Lend
  PROVE  Inv' /\ PlainStep
<1>1. UNCHANGED <<room, capacity, ahead, next, values, count, moved, disturbed>> /\ lent' = "reading"
  BY DEF Lend, array
<1>2. TypeOK'
  BY <1>1 DEF Inv, TypeOK
<1>3. held' = held
  BY <1>1 DEF held
<1>4. InBounds'
  BY <1>1, <1>3 DEF Inv, InBounds
<1>5. CopiesHold' /\ CopyAsserts'
  BY <1>1 DEF Inv, CopiesHold, CopyAsserts
<1> QED
  BY <1>1, <1>2, <1>4, <1>5 DEF Inv, PlainStep, Plain!vars

\* What a reader writes past the count keeps the invariant, the room it grows included.
LEMMA WritePastStep ==
  ASSUME Inv, NEW b \in Batches, WritePast(b)
  PROVE  Inv' /\ PlainStep
<1> DEFINE n == held + Len(b)
           void == Unsettled(moved, count)
<1>1. /\ lent = "reading" /\ lent' = lent /\ held \in Nat /\ count <= held
      /\ values \in Seq(Elem) /\ count \in Nat /\ moved \in Nat
  BY DEF WritePast, Inv, TypeOK, InBounds, held
<1>2. disturbed' \in BOOLEAN
  BY Zenon DEF WritePast, Disturbs
<1>3. b \in Seq(Elem) /\ Len(b) \in Nat /\ n \in Nat
  BY <1>1, BatchAssumption
<1>4. void \in Nat /\ void <= moved /\ void <= count
  BY <1>1 DEF Unsettled
<1>5. \/ OutOfStorage(n, void)
      \/ \E a \in Extended(n, void) : Becomes(a, a.values \o b, count, a.moved)
  BY DEF WritePast
<1> HIDE DEF n, void
<1>6. CASE OutOfStorage(n, void)
  <2>1. Inv'
    BY <1>1, <1>2, <1>4, <1>6, OutOfStorageKeeps
  <2>2. UNCHANGED Plain!vars
    BY <1>6 DEF OutOfStorage, Plain!vars
  <2> QED
    BY <2>1, <2>2 DEF PlainStep
<1>7. CASE \E a \in Extended(n, void) : Becomes(a, a.values \o b, count, a.moved)
  <2>1. PICK a \in Extended(n, void) : Becomes(a, a.values \o b, count, a.moved)
    BY <1>7
  <2>2. Kept(a, n)
    BY <1>3, <1>4, GrowthKeeps
  <2>3. a.values = values /\ a.moved \in Nat /\ a.moved <= held /\ held + Len(b) <= a.room
    BY <2>2 DEF Kept, n
  <2>4. /\ values \o b \in Seq(Elem) /\ Len(values \o b) = held + Len(b)
        /\ \A i \in 1..(held + Len(b)) :
              (values \o b)[i] = IF i <= held THEN values[i] ELSE b[i - held]
    BY <1>1, <1>3, ConcatProperties DEF held
  <2>5. Inv'
    <3>1. /\ Becomes(a, values \o b, count, a.moved)
          /\ a.moved <= a.moved /\ count <= Len(values \o b) /\ Len(values \o b) <= a.room
      BY <1>1, <1>3, <2>1, <2>3, <2>4
    <3>2. \A i \in 1..count : i <= a.moved => i <= held /\ (values \o b)[i] = values[i]
      BY <1>1, <1>3, <2>4
    <3>3. lent' \in {"no", "reading", "read"}
      BY <1>1
    <3> QED
      BY <1>1, <1>2, <1>3, <2>2, <2>3, <2>4, <3>1, <3>2, <3>3, BecomesKeeps
  <2>6. Plain!WritePast(b)
    BY <2>1, <2>3 DEF Becomes, Plain!WritePast
  <2> QED
    BY <2>5, <2>6 DEF PlainStep, Plain!Next
<1> QED
  BY <1>5, <1>6, <1>7

\* What a reader rewrites of what it wrote keeps the invariant.
LEMMA RewritePastStep ==
  ASSUME Inv, NEW i \in 1..held, NEW e \in Elem, RewritePast(i, e)
  PROVE  Inv' /\ PlainStep
<1>1. /\ lent = "reading" /\ lent' = lent /\ count \in Nat /\ held \in Nat /\ count <= held
      /\ values \in Seq(Elem) /\ moved \in Nat /\ moved' = moved /\ count' = count
      /\ disturbed' \in BOOLEAN /\ i > count
      /\ UNCHANGED <<room, capacity, ahead, next>>
  BY DEF RewritePast, Inv, TypeOK, InBounds, held
<1>2. /\ values' \in Seq(Elem) /\ Len(values') = Len(values)
      /\ \A j \in 1..Len(values) : values'[j] = IF j = i THEN e ELSE values[j]
  BY <1>1, ExceptSeq DEF RewritePast, held
<1>3. \A j \in 1..count' : j <= moved' => j <= count /\ values'[j] = values[j]
  BY <1>1, <1>2 DEF held
<1>4. Inv'
  BY <1>1, <1>2, <1>3, InPlaceKeeps DEF held
<1>5. i \in 1..Len(values) /\ Plain!RewritePast(i, e)
  BY <1>1 DEF RewritePast, Plain!RewritePast, held
<1> QED
  BY <1>4, <1>5 DEF PlainStep, Plain!Next

\* The owner's taking of what its reader wrote keeps the invariant.
LEMMA TakeStep ==
  ASSUME Inv, NEW n \in 1..held, Take(n)
  PROVE  Inv' /\ PlainStep
<1>1. /\ lent' = "no" /\ count \in Nat /\ moved \in Nat /\ held \in Nat /\ n > count
      /\ values' = SubSeq(values, 1, n) /\ count' = n
      /\ moved' \in Nat /\ moved' <= moved /\ moved' <= count
      /\ UNCHANGED <<room, capacity, ahead, next>>
  BY DEF Take, Unsettled, Inv, TypeOK, InBounds, held
<1>2. disturbed' \in BOOLEAN
  BY Zenon DEF Take, Disturbs
<1>3. n \in 0..held /\ n \in Nat
  BY <1>1
<1>4. /\ values' \in Seq(Elem) /\ Len(values') = n
      /\ \A i \in 1..n : values'[i] = values[i]
  BY <1>1, <1>3, Prefix
<1>5. \A i \in 1..count' : i <= moved' => i <= count /\ values'[i] = values[i]
  BY <1>1, <1>4
<1>6. Inv'
  BY <1>1, <1>2, <1>3, <1>4, <1>5, InPlaceKeeps
<1>7. n \in 0..Len(values) /\ Plain!Take(n)
  BY <1>1, <1>3 DEF Plain!Take, held
<1> QED
  BY <1>6, <1>7 DEF PlainStep, Plain!Next

\* The owner's dropping of what its reader wrote keeps the invariant.
LEMMA DropStep ==
  ASSUME Inv, Drop
  PROVE  Inv' /\ PlainStep
<1>1. /\ lent' = "read" /\ count \in Nat /\ moved \in Nat /\ held \in Nat /\ count <= held
      /\ values' = SubSeq(values, 1, count) /\ count' = count /\ moved' = moved
      /\ disturbed' \in BOOLEAN
      /\ UNCHANGED <<room, capacity, ahead, next>>
  BY DEF Drop, Inv, TypeOK, InBounds, held
<1>2. count \in 0..held
  BY <1>1
<1>3. /\ values' \in Seq(Elem) /\ Len(values') = count
      /\ \A i \in 1..count : values'[i] = values[i]
  BY <1>1, <1>2, Prefix
<1>4. Inv'
  BY <1>1, <1>3, InPlaceKeeps
<1>5. Plain!Drop
  BY <1>1 DEF Plain!Drop, Plain!Own
<1> QED
  BY <1>4, <1>5 DEF PlainStep, Plain!Next

\* Giving back the storage past the count keeps the elements and the invariant.
LEMMA ShrinkStep ==
  ASSUME Inv, Shrink
  PROVE  Inv' /\ PlainStep
<1>1. /\ lent = "no" /\ lent' = lent /\ held = count /\ held \in Nat
      /\ values \in Seq(Elem) /\ count \in Nat /\ capacity \in Nat /\ capacity <= 2 * Limit
      /\ Limit \in Nat /\ First \in Nat /\ Slice \in Nat
  BY SliceAssumption, FirstAssumption, LimitAssumption
  DEF Shrink, Owner, Inv, TypeOK, InBounds, held
<1>2. disturbed' \in BOOLEAN
  BY Zenon DEF Shrink, Disturbs
<1>3. PICK larger \in Doubled(First, count) :
        capacity > larger /\ Becomes(MovedWhole(count, larger), values, count, 0)
  BY DEF Shrink
<1>4. larger \in Nat /\ count <= larger
  BY <1>1, <1>3 DEF Doubled
<1>5. /\ AheadRoom(larger, count) \in Nat
      /\ count <= AheadRoom(larger, count) /\ AheadRoom(larger, count) <= larger
      /\ larger <= 2 * Slice => AheadRoom(larger, count) = larger
      /\ AheadRoom(larger, count) >= larger \div 2
  BY <1>1, <1>4, RoomFits
<1>6. \A k \in (AheadRoom(larger, count) + 1)..larger : larger > 2 * Slice /\ k > larger \div 2
  BY <1>1, <1>4, <1>5
<1>7. << >> \in Seq(Elem) /\ Len(<< >>) = 0
  OBVIOUS
<1>8. Kept(MovedWhole(count, larger), count)
  <2> HIDE DEF held
  <2> QED
    BY <1>1, <1>3, <1>4, <1>5, <1>6, <1>7 DEF Kept, MovedWhole
<1>9. Inv'
  <2>1. /\ 0 <= MovedWhole(count, larger).moved /\ 0 \in Nat
        /\ count <= Len(values) /\ Len(values) <= MovedWhole(count, larger).room
        /\ Len(values) = count /\ 0 <= count
    BY <1>1, <1>5 DEF MovedWhole, held
  <2>2. \A i \in 1..count : i <= 0 => i <= held /\ values[i] = values[i]
    BY <1>1
  <2>3. lent' \in {"no", "reading", "read"}
    BY <1>1
  <2> QED
    BY <1>1, <1>2, <1>3, <1>8, <2>1, <2>2, <2>3, BecomesKeeps
<1>10. UNCHANGED Plain!vars
  BY <1>3 DEF Becomes, Plain!vars
<1> QED
  BY <1>9, <1>10 DEF PlainStep

\* A freed array is an empty one that was never grown.
LEMMA FreeStep ==
  ASSUME Inv, Free
  PROVE  Inv' /\ PlainStep
<1>1. Init'
  BY DEF Free, Init
<1>2. Inv'
  <2>1. disturbed' \in BOOLEAN
    BY Zenon DEF Free
  <2>2. held' = 0 /\ Len(next') = 0 /\ << >> \in Seq(Elem)
    BY DEF Free, held
  <2>3. TypeOK'
    BY <2>1, <2>2 DEF Free, TypeOK
  <2> QED
    BY <2>2, <2>3, LimitAssumption DEF Free, Inv, InBounds, CopiesHold, CopyAsserts
<1>3. count \in Nat /\ Len(values) \in Nat
  BY DEF Inv, TypeOK
<1>4. 0 \in 0..Len(values) /\ Plain!Truncate(0)
  BY <1>3, SubSeqEmpty DEF Free, Plain!Truncate
<1> QED
  BY <1>2, <1>4 DEF PlainStep, Plain!Next

\* Replacing a part of the array by a batch keeps the invariant, though it moves what
\* follows, and does all of it or nothing.
LEMMA ReplaceStep ==
  ASSUME Inv, NEW b \in Batches, NEW from \in 0..count, NEW to \in from..count, Replace(from, to, b)
  PROVE  Inv' /\ PlainStep
<1> DEFINE total == from + Len(b) + (count - to)
           edited == SubSeq(values, 1, from) \o b \o SubSeq(values, to + 1, count)
<1>1. /\ lent = "no" /\ lent' = lent /\ moved <= count /\ held = count /\ held \in Nat
      /\ values \in Seq(Elem) /\ count \in Nat /\ moved \in Nat
  BY DEF Replace, Owner, Inv, TypeOK, InBounds, CopiesHold, held
<1>2. disturbed' \in BOOLEAN
  BY Zenon DEF Replace, Disturbs
<1>3. /\ b \in Seq(Elem) /\ Len(b) \in Nat /\ from \in Nat /\ to \in Nat /\ from <= to /\ to <= count
      /\ total \in Nat /\ from <= total
  BY <1>1, BatchAssumption
<1>4. /\ edited \in Seq(Elem) /\ Len(edited) = total
      /\ \A i \in 1..from : edited[i] = values[i]
  <2>1. /\ SubSeq(values, 1, from) \in Seq(Elem) /\ Len(SubSeq(values, 1, from)) = from
        /\ \A i \in 1..from : SubSeq(values, 1, from)[i] = values[i]
    BY <1>1, <1>3, Prefix
  <2>2. \A i \in (to + 1)..count : values[i] \in Elem
    BY <1>1, <1>3 DEF held
  <2>3. /\ SubSeq(values, to + 1, count) \in Seq(Elem)
        /\ Len(SubSeq(values, to + 1, count)) = IF to + 1 <= count THEN count - (to + 1) + 1 ELSE 0
    BY <1>1, <1>3, <2>2, SubSeqProperties
  <2>4. Len(SubSeq(values, to + 1, count)) = count - to
    BY <1>1, <1>3, <2>3
  <2> DEFINE front == SubSeq(values, 1, from)
             back == SubSeq(values, to + 1, count)
  <2> HIDE DEF front, back
  <2>5. /\ front \in Seq(Elem) /\ Len(front) = from /\ back \in Seq(Elem) /\ Len(back) = count - to
        /\ \A i \in 1..from : front[i] = values[i]
    BY <2>1, <2>3, <2>4 DEF front, back
  <2>6. /\ front \o b \in Seq(Elem) /\ Len(front \o b) = from + Len(b)
        /\ \A i \in 1..(from + Len(b)) : (front \o b)[i] = IF i <= from THEN front[i] ELSE b[i - from]
    BY <1>3, <2>5, ConcatProperties
  <2>7. /\ (front \o b) \o back \in Seq(Elem) /\ Len((front \o b) \o back) = total
        /\ \A i \in 1..total : ((front \o b) \o back)[i] =
              IF i <= from + Len(b) THEN (front \o b)[i] ELSE back[i - (from + Len(b))]
    <3> DEFINE start == front \o b
    <3> HIDE DEF start
    <3>1. start \in Seq(Elem) /\ Len(start) = from + Len(b)
      BY <2>6 DEF start
    <3>2. /\ start \o back \in Seq(Elem) /\ Len(start \o back) = Len(start) + Len(back)
          /\ \A i \in 1..(Len(start) + Len(back)) : (start \o back)[i] =
                IF i <= Len(start) THEN start[i] ELSE back[i - Len(start)]
      BY <2>5, <3>1, ConcatProperties
    <3>3. Len(start) + Len(back) = total
      BY <1>1, <1>3, <2>5, <3>1
    <3> HIDE DEF total
    <3>4. /\ start \o back \in Seq(Elem) /\ Len(start \o back) = total
          /\ \A i \in 1..total : (start \o back)[i] =
                IF i <= from + Len(b) THEN start[i] ELSE back[i - (from + Len(b))]
      BY <3>1, <3>2, <3>3
    <3> QED
      BY <3>4 DEF start
  <2>8. edited = (front \o b) \o back
    BY DEF front, back
  <2> HIDE DEF edited, total
  <2>9. \A i \in 1..from : edited[i] = values[i]
    <3>1. SUFFICES ASSUME NEW i \in 1..from PROVE edited[i] = values[i]
      OBVIOUS
    <3>2. i \in 1..(from + Len(b)) /\ i \in 1..total /\ i <= from + Len(b) /\ i <= from
      BY <1>3, <3>1
    <3> QED
      BY <2>5, <2>6, <2>7, <2>8, <3>1, <3>2
  <2> QED
    BY <2>7, <2>8, <2>9
<1>5. CASE OutOfStorage(total, moved)
  <2>1. Inv'
    BY <1>1, <1>2, <1>5, OutOfStorageKeeps
  <2>2. UNCHANGED Plain!vars
    BY <1>5 DEF OutOfStorage, Plain!vars
  <2> QED
    BY <2>1, <2>2 DEF PlainStep
<1>6. CASE \E a \in Extended(total, moved) :
             Becomes(a, SubSeq(a.values, 1, from) \o b \o SubSeq(a.values, to + 1, count),
                     total, Unsettled(a.moved, from))
  <2>1. PICK a \in Extended(total, moved) :
             Becomes(a, SubSeq(a.values, 1, from) \o b \o SubSeq(a.values, to + 1, count),
                     total, Unsettled(a.moved, from))
    BY <1>6
  <2>2. Kept(a, total)
    BY <1>1, <1>3, GrowthKeeps
  <2>3. a.values = values /\ a.moved \in Nat /\ total <= a.room
    BY <2>2 DEF Kept
  <2>4. Becomes(a, edited, total, Unsettled(a.moved, from))
    BY <2>1, <2>3
  <2> DEFINE m == Unsettled(a.moved, from)
  <2>5. m \in Nat /\ m <= a.moved /\ m <= from
    BY <1>3, <2>3 DEF Unsettled
  <2> HIDE DEF edited, total, m
  <2>6. Inv'
    <3>1. Becomes(a, edited, total, m)
      BY <2>4 DEF m
    <3>2. \A i \in 1..total : i <= m => i <= held /\ edited[i] = values[i]
      BY <1>1, <1>3, <1>4, <2>5
    <3>3. lent' \in {"no", "reading", "read"} /\ m <= total /\ total <= Len(edited) /\ Len(edited) <= a.room
      BY <1>1, <1>3, <1>4, <2>3, <2>5
    <3> QED
      BY <1>2, <1>3, <1>4, <2>2, <2>5, <3>1, <3>2, <3>3, BecomesKeeps
  <2>7. Plain!Replace(from, to, b)
    BY <1>1, <2>4 DEF Becomes, Plain!Replace, Plain!Owned, held, edited, total
  <2> QED
    BY <2>6, <2>7 DEF PlainStep, Plain!Next
<1> QED
  BY <1>5, <1>6 DEF Replace

-------------------------------------------------------------------------------
(* The theorems.                                                           *)

\* Every step keeps the invariant and is a step of the plain array, or a stutter.
LEMMA NextStep ==
  ASSUME Inv, [Next]_vars
  PROVE  Inv' /\ PlainStep
<1>1. CASE UNCHANGED vars
  <2>1. UNCHANGED <<room, capacity, ahead, next, values, count, moved, lent, disturbed>>
    BY <1>1 DEF vars, array
  <2>2. held' = held
    BY <2>1 DEF held
  <2>3. TypeOK' /\ InBounds' /\ CopiesHold' /\ CopyAsserts'
    BY <2>1, <2>2 DEF Inv, TypeOK, InBounds, CopiesHold, CopyAsserts
  <2> QED
    BY <2>1, <2>3 DEF Inv, PlainStep, Plain!vars
<1>2. CASE \E e \in Elem : Push(e)
  BY <1>2, PushStep
<1>3. CASE \E b \in Batches : AppendAll(b)
  BY <1>3, AppendAllStep
<1>4. CASE \E n \in 1..Limit : Reserve(n)
  BY <1>4, ReserveStep
<1>5. CASE \E i \in 1..count, e \in Elem : Write(i, e)
  BY <1>5, WriteStep
<1>6. CASE \E b \in Batches : \E from \in 0..count : \E to \in from..count : Replace(from, to, b)
  BY <1>6, ReplaceStep
<1>7. CASE \E n \in 0..count : Truncate(n)
  BY <1>7, TruncateStep
<1>8. CASE Lend
  BY <1>8, LendStep
<1>9. CASE \E b \in Batches : WritePast(b)
  BY <1>9, WritePastStep
<1>10. CASE \E i \in 1..held, e \in Elem : RewritePast(i, e)
  BY <1>10, RewritePastStep
<1>11. CASE \E n \in 1..held : Take(n)
  BY <1>11, TakeStep
<1>12. CASE Drop
  BY <1>12, DropStep
<1>13. CASE Shrink
  BY <1>13, ShrinkStep
<1>14. CASE Free
  BY <1>14, FreeStep
<1> QED
  BY <1>1, <1>2, <1>3, <1>4, <1>5, <1>6, <1>7, <1>8, <1>9, <1>10, <1>11, <1>12, <1>13, <1>14
  DEF Next

\* The array is always well typed, within its storage, with copies that hold and the
\* assertions of markdown_core_ahead_copy true.
THEOREM Invariance == Spec => []Inv
<1>1. Init => Inv
  BY InitInv
<1>2. Inv /\ [Next]_vars => Inv'
  BY NextStep
<1> QED
  BY <1>1, <1>2, PTL DEF Spec

\* The growing array's variables keep their types (array.h, ahead.h).
THEOREM TypeCorrect == Spec => []TypeOK
<1>1. Inv => TypeOK
  BY DEF Inv
<1> QED
  BY <1>1, Invariance, PTL

\* No operation of array.h, whatever growth failed before it, writes or counts
\* past the storage it has or the storage ahead, nor asks for more than the
\* allocator can be asked for.
THEOREM StorageSafe == Spec => []InBounds
<1>1. Inv => InBounds
  BY DEF Inv
<1> QED
  BY <1>1, Invariance, PTL

\* The assertion of markdown_core_ahead_switch: every copy the owner did not
\* void equals its element, so the switch gives the array back unchanged.
THEOREM CopiesAlwaysHold == Spec => []CopiesHold
<1>1. Inv => CopiesHold
  BY DEF Inv
<1> QED
  BY <1>1, Invariance, PTL

\* The assertions at the head of markdown_core_ahead_copy never fail.
THEOREM CopyAssertsHold == Spec => []CopyAsserts
<1>1. Inv => CopyAsserts
  BY DEF Inv
<1> QED
  BY <1>1, Invariance, PTL

\* The growing array implements the plain array: its owner cannot tell where
\* its storage lies, when it moved, or that a growth failed.
THEOREM Refinement == Spec => ImplementsPlainArray
<1>1. Init => Plain!Init
  BY DEF Init, Plain!Init
<1>2. Inv /\ [Next]_vars => [Plain!Next]_(Plain!vars)
  BY NextStep DEF PlainStep
<1> QED
  BY <1>1, <1>2, Invariance, PTL DEF Spec, ImplementsPlainArray, Plain!Spec

-------------------------------------------------------------------------------
(* The pace of the copies.                                                 *)

\* A full array takes storage of twice its capacity, and an empty one the first.
LEMMA DoublesOnce ==
  ASSUME NEW cap \in Nat, cap > 0, NEW larger \in Doubled(cap, cap + 1)
  PROVE  larger = 2 * cap
<1>1. PICK k \in 0..(cap + 1) : larger = cap * 2^k
  BY DEF Doubled
<1>2. cap + 1 <= larger /\ (larger = cap \/ larger < 2 * (cap + 1)) /\ larger \in Nat
  BY DEF Doubled
<1>3. CASE k = 0
  BY <1>1, <1>2, <1>3
<1>4. CASE k = 1
  BY <1>1, <1>4
<1>5. CASE k >= 2
  <2> DEFINE j == k - 2
  <2>1. j \in Nat /\ j + 1 \in Nat /\ (j + 1) + 1 = k
    BY <1>5
  <2> HIDE DEF j
  <2>2. 2^j \in Nat /\ 2^j >= 1 /\ 2^k = 2 * (2 * 2^j)
    BY <2>1, TwoExp
  <2> DEFINE p == 2^j
  <2>3. larger = cap * (2 * (2 * p)) /\ p \in Nat /\ p >= 1
    BY <1>1, <2>2
  <2> HIDE DEF p
  <2>4. cap * p >= cap /\ cap * p \in Nat
    BY <2>3
  <2>5. larger = 4 * (cap * p)
    BY <2>3
  <2>6. QED
    BY <1>2, <2>4, <2>5
<1>6. QED
  BY <1>3, <1>4, <1>5

LEMMA FirstOnce ==
  ASSUME NEW larger \in Doubled(First, 1)
  PROVE  larger = First
<1>1. First \in Nat /\ First >= 1
  BY FirstAssumption
<1>2. larger \in First..(First + 2) /\ (larger = First \/ larger < 2 * 1)
  BY DEF Doubled
<1>3. QED
  BY <1>1, <1>2

\* The end of the slice `n' is in: a slice past it at most, and the whole
\* capacity only when `n' is in the last slice.
LEMMA RoomEnds ==
  ASSUME NEW cap \in Nat, cap > 2 * Slice, NEW n \in Nat, n <= cap, n > cap \div 2
  PROVE  /\ AheadRoom(cap, n) + 1 <= n + Slice
         /\ AheadRoom(cap, n) = cap => cap - n + 1 <= Slice
<1>1. Slice \in Nat /\ Slice > 0
  BY SliceAssumption
<1> DEFINE rest == n % Slice
           half == cap \div 2
<1>2. rest \in Nat /\ rest < Slice
  BY <1>1
<1>3. half \in Nat
  OBVIOUS
<1>4. AheadRoom(cap, n) = IF (n - rest) + Slice - 1 < cap THEN (n - rest) + Slice - 1 ELSE cap
  BY <1>1 DEF AheadRoom
<1> HIDE DEF rest
<1>5. QED
  BY <1>1, <1>2, <1>4

\* How far the copies are at least, of an array of more than two slices that only
\* pushes grew, whose last growth asked for `n' elements.
PaceAt(n) == IF 2 * (n - capacity \div 2) < n - 1 THEN 2 * (n - capacity \div 2) ELSE n - 1

LastGrowth(n) ==
  /\ n > capacity \div 2 /\ n <= count
  /\ room = AheadRoom(capacity, n)
  /\ n = capacity \div 2 + 1 \/ moved >= PaceAt(n)

Paced ==
  ~disturbed => /\ held = count
                /\ capacity > 2 * Slice => room = capacity \div 2 \/ \E n \in Nat : LastGrowth(n)

\* What PacedPush says of one step.
PacedStep ==
  ~disturbed /\ ~disturbed' /\ count' = count + 1 =>
    CopiesMade <= IF capacity' = capacity \/ capacity <= 2 * Slice THEN 2 * (Slice + 1) ELSE 2 * Slice - 1

\* A push within the room.
LEMMA PushInRoom ==
  ASSUME Inv, Paced, NEW e \in Elem, lent = "no", count + 1 <= room,
         Becomes(Same(moved), Append(values, e), count + 1, moved), disturbed' = disturbed
  PROVE  Paced' /\ PacedStep
<1>1. /\ capacity' = capacity /\ room' = room /\ moved' = moved /\ count' = count + 1
      /\ values' = Append(values, e)
  BY DEF Becomes, Same
<1>2. /\ count \in Nat /\ moved \in Nat /\ capacity \in Nat /\ room \in Nat
      /\ held = count /\ values \in Seq(Elem) /\ Slice \in Nat
  BY SliceAssumption DEF Inv, TypeOK, InBounds
<1>3. held' = count'
  BY <1>1, <1>2 DEF held
<1>4. ASSUME NEW n \in Nat, LastGrowth(n)
      PROVE  LastGrowth(n)'
  BY <1>1, <1>2, <1>4 DEF LastGrowth, PaceAt, AheadRoom
<1>5. Paced'
  BY <1>1, <1>3, <1>4 DEF Paced
<1>6. PacedStep
  BY <1>1, <1>2 DEF PacedStep, CopiesMade
<1> QED
  BY <1>5, <1>6

\* A push past the room and within the capacity: it copies ahead.
LEMMA PushCopies ==
  ASSUME Inv, Paced, NEW e \in Elem, lent = "no", room < count + 1, count + 1 <= capacity,
         Becomes(Copied(count + 1, moved), Append(values, e), count + 1, Copied(count + 1, moved).moved),
         disturbed' = disturbed
  PROVE  Paced' /\ PacedStep
<1> DEFINE half == capacity \div 2
<1>0. PICK n \in Nat : n = count + 1
  BY DEF Inv, TypeOK
<1>1. /\ capacity' = capacity /\ room' = AheadRoom(capacity, n) /\ count' = n
      /\ moved' = IF Copies(n, moved) THEN Pace(n) ELSE moved
      /\ values' = Append(values, e)
  BY <1>0 DEF Becomes, Copied
<1>2. /\ count \in Nat /\ moved \in Nat /\ capacity \in Nat /\ room \in Nat
      /\ held = count /\ values \in Seq(Elem) /\ count <= room /\ half \in Nat
  BY DEF Inv, TypeOK, InBounds
<1>3. Slice \in Nat /\ Slice > 0
  BY SliceAssumption
<1>4. capacity > 2 * Slice /\ n > half
  <2>1. n \in (room + 1)..capacity
    BY <1>0, <1>2
  <2> QED
    BY <2>1 DEF Inv, CopyAsserts
<1>5. n = room + 1
  BY <1>0, <1>2
<1>6. Pace(n) = PaceAt(n)
  BY <1>0, <1>2 DEF Pace, PaceAt
<1>7. n = half + 1 \/ moved' >= PaceAt(n)
  <2>1. CASE held > Slice
    BY <1>0, <1>1, <1>2, <1>6, <2>1 DEF Copies, PaceAt
  <2>2. CASE ~(held > Slice)
    BY <1>0, <1>2, <1>3, <1>4, <2>2
  <2> QED
    BY <2>1, <2>2
<1>8. LastGrowth(n)'
  BY <1>1, <1>4, <1>7 DEF LastGrowth, PaceAt
<1>9. held' = count'
  BY <1>0, <1>1, <1>2 DEF held
<1>10. Paced'
  BY <1>2, <1>8, <1>9 DEF Paced
<1>11. ASSUME ~disturbed
       PROVE  moved' - moved <= 2 * (Slice + 1)
  <2>1. CASE ~Copies(n, moved)
    BY <1>1, <1>2, <1>3, <2>1
  <2>2. CASE room = half
    <3>1. PaceAt(n) <= 2 /\ PaceAt(n) \in Int
      BY <1>2, <1>5, <2>2 DEF PaceAt
    <3> QED
      BY <1>1, <1>2, <1>3, <1>6, <3>1
  <2>3. CASE \E k \in Nat : LastGrowth(k)
    <3>1. PICK k \in Nat : LastGrowth(k)
      BY <2>3
    <3>2. k > half /\ k <= capacity /\ n <= k + Slice
      BY <1>2, <1>3, <1>4, <1>5, <3>1, RoomEnds DEF LastGrowth
    <3>3. CASE k = half + 1
      <4>1. PaceAt(n) <= 2 * (Slice + 1)
        BY <1>2, <1>3, <3>2, <3>3 DEF PaceAt
      <4> QED
        BY <1>1, <1>2, <1>3, <1>6, <4>1 DEF PaceAt
    <3>4. CASE moved >= PaceAt(k)
      <4>1. PaceAt(n) - PaceAt(k) <= 2 * Slice
        BY <1>2, <1>3, <3>2 DEF PaceAt
      <4>2. PaceAt(n) \in Int /\ PaceAt(k) \in Int
        BY <1>2 DEF PaceAt
      <4> QED
        BY <1>1, <1>2, <1>3, <1>6, <3>4, <4>1, <4>2
    <3> QED
      BY <3>1, <3>3, <3>4 DEF LastGrowth
  <2> QED
    BY <1>4, <1>11, <2>1, <2>2, <2>3 DEF Paced
<1>12. PacedStep
  BY <1>1, <1>11 DEF PacedStep, CopiesMade
<1> QED
  BY <1>10, <1>12

\* A push past the capacity: it moves the array, most of it copied before.
LEMMA PushMoves ==
  ASSUME Inv, Paced, lent = "no", capacity < count + 1, NEW e \in Elem, NEW vals \in Seq(Elem),
         Len(vals) = held, NEW larger \in Doubled(Base(count + 1), count + 1),
         values' = Append(vals, e), count' = count + 1, moved' = 0,
         capacity' = larger, room' = AheadRoom(larger, count + 1)
  PROVE  Paced' /\ PacedStep
<1> DEFINE half == capacity \div 2
<1>0. PICK n \in Nat : n = count + 1
  BY DEF Inv, TypeOK
<1>1. /\ count \in Nat /\ moved \in Nat /\ capacity \in Nat /\ room \in Nat /\ ahead \in Nat
      /\ held = count /\ count = capacity /\ room = capacity /\ moved <= ahead /\ half \in Nat
  <2>1. /\ count \in Nat /\ moved \in Nat /\ capacity \in Nat /\ room \in Nat /\ ahead \in Nat
        /\ held = count /\ held <= room /\ room <= capacity /\ next \in Seq(Elem)
        /\ moved <= Len(next) /\ Len(next) <= ahead
    BY DEF Inv, TypeOK, InBounds
  <2> QED
    BY <2>1
<1>2. Slice \in Nat /\ Slice > 0 /\ First \in Nat /\ First > 0
  BY SliceAssumption, FirstAssumption
<1>3. held' = count'
  BY <1>1 DEF held
<1>4. CASE capacity = 0
  <2>1. Base(n) = First
    BY <1>0, <1>1, <1>2, <1>4 DEF Base
  <2>2. larger = First
    BY <1>0, <1>1, <1>4, <2>1, FirstOnce
  <2>3. ASSUME First > 2 * Slice
        PROVE  room' = capacity' \div 2
    BY <1>1, <1>2, <1>4, <2>2, <2>3 DEF AheadRoom
  <2>4. Paced'
    BY <1>3, <2>2, <2>3 DEF Paced
  <2>5. PacedStep
    BY <1>1, <1>2, <1>4, <2>2 DEF PacedStep, CopiesMade
  <2> QED
    BY <2>4, <2>5
<1>5. CASE capacity > 0
  <2>1. Base(n) = capacity
    BY <1>0, <1>1, <1>5 DEF Base
  <2>2. larger = 2 * capacity
    BY <1>0, <1>1, <1>5, <2>1, DoublesOnce
  <2>3. capacity' \div 2 = capacity
    BY <1>1, <2>2
  <2>4. ASSUME capacity' > 2 * Slice
        PROVE  LastGrowth(n)'
    BY <1>0, <1>1, <2>2, <2>3 DEF LastGrowth
  <2>5. Paced'
    BY <1>1, <1>3, <2>4 DEF Paced
  <2>6. ASSUME capacity <= 2 * Slice
        PROVE  CopiesMade <= 2 * (Slice + 1)
    BY <1>1, <1>2, <1>5, <2>2, <2>6 DEF CopiesMade
  <2>7. ASSUME capacity > 2 * Slice, ~disturbed
        PROVE  CopiesMade <= 2 * Slice - 1
    <3>1. PICK k \in Nat : LastGrowth(k)
      BY <1>1, <1>2, <2>7 DEF Paced
    <3>2. k > half /\ k <= capacity /\ capacity - k + 1 <= Slice
      BY <1>1, <1>2, <2>7, <3>1, RoomEnds DEF LastGrowth
    <3>3. moved >= PaceAt(k)
      <4>1. k # half + 1
        BY <1>1, <1>2, <2>7, <3>2
      <4> QED
        BY <3>1, <4>1 DEF LastGrowth
    <3>4. PaceAt(k) \in Int /\ PaceAt(k) >= 1 /\ capacity - PaceAt(k) <= 2 * Slice - 1
      BY <1>1, <1>2, <2>7, <3>2 DEF PaceAt
    <3>5. ahead # 0 /\ capacity' # capacity
      BY <1>1, <1>5, <2>2, <3>3, <3>4
    <3>6. CopiesMade = held - moved
      BY <3>5 DEF CopiesMade
    <3> QED
      BY <1>1, <1>2, <3>3, <3>4, <3>6
  <2>8. PacedStep
    BY <1>1, <1>2, <1>5, <2>2, <2>6, <2>7 DEF PacedStep
  <2> QED
    BY <2>5, <2>8
<1> QED
  BY <1>1, <1>4, <1>5

LEMMA PushPaced ==
  ASSUME Inv, Paced, NEW e \in Elem, Push(e)
  PROVE  Paced' /\ PacedStep
<1>1. lent = "no" /\ lent' = "no"
  BY DEF Push, Owner
<1>2. /\ count \in Nat /\ room \in Nat /\ capacity \in Nat /\ moved \in Nat
      /\ values \in Seq(Elem) /\ held = count /\ room <= capacity /\ held \in Nat
  BY <1>1 DEF Inv, TypeOK, InBounds
<1>3. CASE OutOfStorage(count + 1, moved) /\ UNCHANGED disturbed
  <2>1. UNCHANGED <<values, count, room, capacity, ahead, next, moved, disturbed>>
    BY <1>3 DEF OutOfStorage
  <2>2. Paced'
    BY <2>1 DEF Paced, LastGrowth, PaceAt, held
  <2> QED
    BY <1>2, <2>1, <2>2 DEF PacedStep
<1>4. ASSUME NEW a \in Extended(count + 1, moved),
             Becomes(a, Append(a.values, e), count + 1, a.moved),
             disturbed' = (disturbed /\ a.capacity = capacity)
      PROVE  Paced' /\ PacedStep
  <2>1. CASE count + 1 <= room
    <3>1. a = Same(moved)
      BY <2>1 DEF Extended
    <3>2. a.values = values /\ a.moved = moved /\ a.capacity = capacity
      BY <3>1 DEF Same
    <3>3. disturbed' = disturbed
      BY <1>4, <3>2 DEF Inv, TypeOK
    <3> QED
      BY <1>1, <1>4, <2>1, <3>1, <3>2, <3>3, PushInRoom
  <2>2. CASE room < count + 1 /\ count + 1 <= capacity
    <3>1. a = Copied(count + 1, moved)
      BY <1>2, <2>2 DEF Extended
    <3>2. a.values = values /\ a.capacity = capacity
      BY <3>1 DEF Copied
    <3>3. disturbed' = disturbed
      BY <1>4, <3>2 DEF Inv, TypeOK
    <3> QED
      BY <1>1, <1>4, <2>2, <3>1, <3>2, <3>3, PushCopies
  <2>3. CASE capacity < count + 1
    <3>1. PICK larger \in Doubled(Base(count + 1), count + 1) :
            a = IF Switches(larger) THEN Switched(count + 1, moved, larger) ELSE MovedWhole(count + 1, larger)
      BY <1>2, <2>3 DEF Extended
    <3>2. a.capacity = larger /\ a.room = AheadRoom(larger, count + 1) /\ a.moved = 0
      BY <3>1 DEF Switched, MovedWhole
    <3>3. a.values \in Seq(Elem) /\ Len(a.values) = held
      <4>1. a.values = Merged(held, moved) \/ a.values = values
        BY <3>1 DEF Switched, MovedWhole
      <4>2. Merged(held, moved) = values
        <5>1. moved <= count /\ held \in 0..held
          BY <1>1, <1>2 DEF Inv, CopiesHold
        <5> QED
          BY <1>2, <5>1, MergedIsValues
      <4> QED
        BY <1>2, <4>1, <4>2 DEF held
    <3>4. /\ values' = Append(a.values, e) /\ count' = count + 1 /\ moved' = 0
          /\ capacity' = larger /\ room' = AheadRoom(larger, count + 1)
      BY <1>4, <3>2 DEF Becomes
    <3> QED
      BY <1>1, <2>3, <3>3, <3>4, PushMoves
  <2> QED
    BY <1>2, <2>1, <2>2, <2>3
<1> QED
  BY <1>3, <1>4 DEF Push

\* No step but a push both grows the array by one and leaves it undisturbed, and
\* none loses the pace.
LEMMA PacedNext ==
  ASSUME Inv, Paced, [Next]_vars
  PROVE  Paced' /\ PacedStep
<1>1. /\ count \in Nat /\ values \in Seq(Elem) /\ count <= held /\ held \in Nat
      /\ capacity \in Nat
  BY DEF Inv, TypeOK, InBounds, held
<1>2. CASE disturbed'
  BY <1>2 DEF Paced, PacedStep
<1>3. CASE UNCHANGED <<values, count, room, capacity, moved, disturbed>>
  <2>1. Paced'
    BY <1>3 DEF Paced, LastGrowth, PaceAt, held
  <2> QED
    BY <1>1, <1>3, <2>1 DEF PacedStep
<1>4. CASE UNCHANGED vars
  BY <1>3, <1>4 DEF vars, array
<1>5. CASE \E e \in Elem : Push(e)
  BY <1>5, PushPaced
<1>6. CASE \E b \in Batches : AppendAll(b)
  BY <1>2, <1>6 DEF AppendAll, Disturbs
<1>7. CASE \E n \in 1..Limit : Reserve(n)
  BY <1>2, <1>7 DEF Reserve, Disturbs
<1>8. CASE \E i \in 1..count, e \in Elem : Write(i, e)
  BY <1>2, <1>8 DEF Write, Disturbs
<1>9. CASE \E b \in Batches : \E from \in 0..count : \E to \in from..count : Replace(from, to, b)
  BY <1>2, <1>9 DEF Replace, Disturbs
<1>10. CASE \E n \in 0..count : Truncate(n)
  BY <1>2, <1>10 DEF Truncate, Disturbs
<1>11. CASE Lend
  BY <1>3, <1>11 DEF Lend, array
<1>12. CASE \E b \in Batches : WritePast(b)
  BY <1>2, <1>12 DEF WritePast, Disturbs
<1>13. CASE \E i \in 1..held, e \in Elem : RewritePast(i, e)
  <2>1. UNCHANGED <<count, room, capacity, moved, disturbed>> /\ held > count
    BY <1>1, <1>13 DEF RewritePast
  <2> QED
    BY <1>1, <1>2, <2>1 DEF Paced, PacedStep, Inv, TypeOK
<1>14. CASE \E n \in 1..held : Take(n)
  BY <1>2, <1>14 DEF Take, Disturbs
<1>15. CASE Drop
  <2>1. UNCHANGED <<count, room, capacity, moved, disturbed>> /\ values' = SubSeq(values, 1, count)
    BY <1>15 DEF Drop
  <2>2. CASE held = count
    <3>1. values' = values
      BY <1>1, <2>1, <2>2 DEF held
    <3> QED
      BY <1>3, <2>1, <3>1
  <2>3. CASE held # count
    BY <1>1, <1>2, <2>1, <2>3 DEF Paced, PacedStep, Inv, TypeOK
  <2> QED
    BY <2>2, <2>3
<1>16. CASE Shrink
  BY <1>2, <1>16 DEF Shrink, Disturbs
<1>17. CASE Free
  <2>1. count' = 0 /\ capacity' = 0 /\ held' = 0
    BY <1>17 DEF Free, held
  <2>2. Slice \in Nat
    BY SliceAssumption
  <2> QED
    BY <1>1, <2>1, <2>2 DEF Paced, PacedStep
<1> QED
  BY <1>4, <1>5, <1>6, <1>7, <1>8, <1>9, <1>10, <1>11, <1>12, <1>13, <1>14, <1>15, <1>16, <1>17
  DEF Next

\* "No growth copies it whole" (ahead.h): of an array that only pushes grew, no push
\* copies more than two elements for each place of a slice and its own, and the
\* switch moves less than two slices, for every width and first capacity.
THEOREM PushesAlwaysPaced == Spec => PacedPush
<1>1. Init => Paced
  <2>1. Slice \in Nat
    BY SliceAssumption
  <2> QED
    BY <2>1 DEF Init, Paced, held
<1>2. Inv /\ Paced /\ [Next]_vars => Paced'
  BY PacedNext
<1>3. Inv /\ Paced /\ [Next]_vars => [PacedStep]_vars
  BY PacedNext
<1> QED
  BY <1>1, <1>2, <1>3, Invariance, PTL DEF Spec, PacedPush, PacedStep
===============================================================================
