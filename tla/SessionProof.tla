----------------------------- MODULE SessionProof -----------------------------
(***************************************************************************)
(* The safety of a session for every alphabet, capacity and set of texts.  *)
(*                                                                         *)
(* The properties are inductive together with one fact more: before the    *)
(* flush there are no widths, so the flush and the appends, which publish  *)
(* other documents, leave none behind.  That a reading again makes the     *)
(* document rests on what the widths answer once they measure the text:    *)
(* the child a line starts, and a rest point where a child starts.         *)
(***************************************************************************)
EXTENDS Session, Groundwork, TLAPS

StreamingUnmade == ~flushed => ~made

IInv ==
  /\ TypeOK
  /\ ContextIsCurrent
  /\ WidthsMeasure
  /\ HolesBounded
  /\ LinesOfDocument
  /\ StreamingUnmade
  /\ ~WidthsScarce => DocumentIsOfText

USE SessionAssumption

-------------------------------------------------------------------------------
(* The texts.                                                              *)

\* session_replace leaves a text of what stood before the edit, what it brings
\* and what stood after it.
LEMMA ReplacedIsText ==
  ASSUME text \in Seq(Bytes), NEW from \in Nat, NEW to \in Nat, NEW with \in Seq(Bytes), InBounds(from, to)
  PROVE  /\ Replaced(from, to, with) \in Seq(Bytes)
         /\ Len(Replaced(from, to, with)) = from + Len(with) + (Len(text) - to)
<1> DEFINE before == SubSeq(text, 1, from)
           after == SubSeq(text, to + 1, Len(text))
<1>0. Len(text) \in Nat /\ Len(with) \in Nat
  BY LenProperties
<1>1. from \in 0..Len(text) /\ to \in 0..Len(text)
  BY <1>0 DEF InBounds
<1>2. before \in Seq(Bytes) /\ Len(before) = from
  <2>1. 1 \in 1..(Len(text) + 1) /\ from \in (1 - 1)..Len(text)
    BY <1>0, <1>1
  <2>2. before \in Seq(Bytes) /\ Len(before) = from - 1 + 1
    BY <2>1, SubSeqProperties
  <2>3. QED  BY <2>2, <1>1
<1>3. after \in Seq(Bytes) /\ Len(after) = Len(text) - to
  BY <1>0, <1>1, SubSeqProperties
<1>4. before \o with \in Seq(Bytes) /\ Len(before \o with) = from + Len(with)
  BY <1>2, ConcatProperties
<1>5. (before \o with) \o after \in Seq(Bytes) /\ Len((before \o with) \o after) = Len(before \o with) + Len(after)
  BY <1>3, <1>4, ConcatProperties
<1>6. Replaced(from, to, with) = (before \o with) \o after
  BY DEF Replaced
<1>7. QED
  BY <1>0, <1>1, <1>3, <1>4, <1>5, <1>6

\* session_take leaves the text, or the text and what was appended to it.
LEMMA TakenIsText ==
  ASSUME TypeOK, NEW more \in Inserts, Len(more) <= Capacity - Len(text)
  PROVE  /\ Taken(more) \in Seq(Bytes)
         /\ Len(Taken(more)) = Len(text) + Len(more)
         /\ Len(more) \in Nat /\ Len(text) \in Nat
<1>1. more \in Seq(Bytes) /\ text \in Seq(Bytes)
  BY DEF TypeOK, SessionAssumption
<1>2. Len(more) \in Nat /\ Len(text) \in Nat /\ Capacity \in Nat
  BY <1>1, LenProperties DEF SessionAssumption
<1>3. Taken(more) = text \o more
  BY <1>2 DEF Taken
<1>4. QED  BY <1>1, <1>2, <1>3, ConcatProperties

\* Highest is a length of a text, and no shorter than the text or the peak.
LEMMA HighestBounds ==
  ASSUME TypeOK
  PROVE  Highest \in Nat /\ Len(text) \in Nat /\ Highest \in {Len(text), peak}
BY LenProperties DEF Highest, TypeOK

-------------------------------------------------------------------------------
(* The widths, when they measure the text they are asked about.            *)

\* The lines of a text that come before the line `i' and start a child.
Before(t, i) == {j \in Starts(t) : j < i}

\* A text has finitely many lines that start a child, so they can be counted.
LEMMA StartsFacts ==
  ASSUME NEW t \in Seq(Bytes), NEW i \in Int
  PROVE  /\ Len(t) \in Nat /\ Starts(t) \subseteq 0..(Len(t) - 1)
         /\ IsFiniteSet(Before(t, i)) /\ Number(t, i) = Cardinality(Before(t, i)) /\ Number(t, i) \in Nat
<1>1. Len(t) \in Nat
  BY LenProperties
<1>2. Starts(t) \subseteq 0..(Len(t) - 1)
  BY <1>1 DEF Starts
<1>3. IsFiniteSet(0..(Len(t) - 1))
  BY <1>1, FS_Interval
<1>4. Before(t, i) \subseteq 0..(Len(t) - 1)
  BY <1>2 DEF Before
<1>5. QED
  BY <1>1, <1>2, <1>3, <1>4, FS_Subset, FS_CardinalityType DEF Number, Before

\* Every line that starts a child is one more than the lines before it.
LEMMA NumberRises ==
  ASSUME NEW t \in Seq(Bytes), NEW i \in Nat
  PROVE  Number(t, i + 1) = IF i \in Starts(t) THEN Number(t, i) + 1 ELSE Number(t, i)
<1>1. /\ Starts(t) \subseteq 0..(Len(t) - 1) /\ Len(t) \in Nat
      /\ IsFiniteSet(Before(t, i)) /\ Number(t, i) = Cardinality(Before(t, i))
      /\ Number(t, i + 1) = Cardinality(Before(t, i + 1))
  BY StartsFacts
<1>2. CASE i \in Starts(t)
  <2>1. Before(t, i + 1) = Before(t, i) \cup {i} /\ i \notin Before(t, i)
    BY <1>1, <1>2 DEF Before
  <2>2. QED
    BY <1>1, <1>2, <2>1, FS_AddElement
<1>3. CASE i \notin Starts(t)
  <2>1. Before(t, i + 1) = Before(t, i)
    BY <1>1, <1>3 DEF Before
  <2>2. QED
    BY <1>1, <1>3, <2>1
<1>4. QED
  BY <1>2, <1>3

\* More lines start no fewer children, and one more past the start of a child.
LEMMA NumberGrows ==
  ASSUME NEW t \in Seq(Bytes), NEW i \in Nat, NEW k \in Nat, i <= k
  PROVE  /\ Number(t, i) <= Number(t, k)
         /\ i \in Starts(t) /\ i < k => Number(t, i) < Number(t, k)
<1>1. /\ IsFiniteSet(Before(t, k)) /\ Number(t, k) = Cardinality(Before(t, k))
      /\ Starts(t) \subseteq 0..(Len(t) - 1) /\ Len(t) \in Nat
      /\ \A n \in Nat : Number(t, n) = Cardinality(Before(t, n)) /\ Number(t, n) \in Nat
  BY StartsFacts
<1>2. ASSUME NEW n \in Nat, n <= k PROVE Number(t, n) <= Number(t, k)
  <2>1. Before(t, n) \subseteq Before(t, k)
    BY <1>1, <1>2 DEF Before
  <2>2. QED
    BY <1>1, <2>1, FS_Subset
<1>3. ASSUME i \in Starts(t), i < k PROVE Number(t, i) < Number(t, k)
  <2>1. Number(t, i + 1) = Number(t, i) + 1
    BY <1>3, NumberRises
  <2>2. QED
    BY <1>1, <1>2, <1>3, <2>1
<1>4. QED
  BY <1>2, <1>3

\* Every number of a child is the one of a line that starts it.
LEMMA PlaceIs ==
  ASSUME NEW t \in Seq(Bytes), NEW n \in Nat
  PROVE  /\ Count(t) \in Nat
         /\ n < Count(t) => Place(t, n) \in Starts(t) /\ Number(t, Place(t, n)) = n
         /\ n >= Count(t) => Place(t, n) = Len(t)
<1>1. /\ Len(t) \in Nat /\ Count(t) = Number(t, Len(t)) /\ Count(t) \in Nat
      /\ \A i \in Nat : Number(t, i) \in Nat
  BY StartsFacts DEF Count
<1>2. CASE n < Count(t)
  <2> DEFINE Later == {i \in Nat : Number(t, i) > n}
  <2>1. Len(t) \in Later
    BY <1>1, <1>2
  <2>2. PICK m \in Later : \A k \in Later : m <= k
    <3>1. Later \in SUBSET Nat /\ Later # {}
      BY <2>1
    <3> HIDE DEF Later
    <3>2. QED
      BY <3>1, LeastNatural
  <2>3. m # 0
    <3>1. Before(t, 0) = {}
      <4>1. Starts(t) \subseteq 0..(Len(t) - 1) /\ Len(t) \in Nat
        BY StartsFacts
      <4>2. QED
        BY <4>1 DEF Before
    <3>2. Number(t, 0) = 0
      BY <3>1, StartsFacts, FS_EmptySet
    <3>3. QED
      BY <2>2, <3>2
  <2>4. m - 1 \in Nat /\ ~(Number(t, m - 1) > n) /\ Number(t, m) > n
    BY <2>2, <2>3
  <2>5. m - 1 \in Starts(t) /\ Number(t, m - 1) = n
    <3>1. Number(t, (m - 1) + 1) = IF m - 1 \in Starts(t) THEN Number(t, m - 1) + 1 ELSE Number(t, m - 1)
      BY <2>4, NumberRises
    <3>2. (m - 1) + 1 = m
      BY <2>2
    <3>3. Number(t, m - 1) \in Nat /\ Number(t, m) \in Nat
      BY <1>1, <2>2, <2>4
    <3>4. Number(t, m) = IF m - 1 \in Starts(t) THEN Number(t, m - 1) + 1 ELSE Number(t, m - 1)
      BY <3>1, <3>2
    <3> HIDE DEF Later
    <3>5. QED
      BY <2>4, <3>3, <3>4
  <2>6. Place(t, n) = CHOOSE i \in Starts(t) : Number(t, i) = n
    BY <1>2 DEF Place
  <2>7. Place(t, n) \in Starts(t) /\ Number(t, Place(t, n)) = n
    BY <2>5, <2>6
  <2>8. QED
    BY <1>1, <1>2, <2>7
<1>3. CASE ~(n < Count(t))
  BY <1>1, <1>3 DEF Place
<1>4. QED
  BY <1>1, <1>2, <1>3

\* The children are in the order of their numbers, the first at the text's start.
LEMMA PlaceGrows ==
  ASSUME NEW t \in Seq(Bytes), NEW n \in Nat
  PROVE  /\ Place(t, n) \in 0..Len(t) /\ Len(t) \in Nat /\ Count(t) \in Nat
         /\ n < Count(t) <=> Place(t, n) < Len(t)
         /\ Place(t, n) <= Place(t, n + 1)
         /\ Place(t, 0) = 0
<1>1. Len(t) \in Nat /\ Starts(t) \subseteq 0..(Len(t) - 1)
  BY StartsFacts
<1>2. /\ Count(t) \in Nat
      /\ \A k \in Nat : /\ k < Count(t) => Place(t, k) \in Starts(t) /\ Number(t, Place(t, k)) = k
                        /\ k >= Count(t) => Place(t, k) = Len(t)
  BY PlaceIs
<1>3. Place(t, n) <= Place(t, n + 1)
  <2>1. CASE n + 1 < Count(t)
    <3>1. Place(t, n) \in Nat /\ Place(t, n + 1) \in Nat /\ Number(t, Place(t, n)) = n /\ Number(t, Place(t, n + 1)) = n + 1
      BY <1>1, <1>2, <2>1
    <3>2. Place(t, n + 1) <= Place(t, n) => n + 1 <= n
      BY <3>1, NumberGrows
    <3>3. QED
      BY <3>1, <3>2
  <2>2. CASE ~(n + 1 < Count(t))
    BY <1>1, <1>2, <2>2
  <2>3. QED
    BY <2>1, <2>2
<1>4. Place(t, 0) = 0
  <2>1. CASE Len(t) = 0
    BY <1>1, <1>2, <2>1
  <2>2. CASE Len(t) # 0
    <3>1. 0 \in Starts(t)
      BY <1>1, <2>2 DEF Starts
    <3>2. Number(t, 0) < Number(t, Len(t)) /\ Number(t, 0) \in Nat
      BY <1>1, <2>2, <3>1, NumberGrows, StartsFacts
    <3>3. 0 < Count(t)
      BY <1>2, <3>2 DEF Count
    <3>4. Place(t, 0) \in Nat /\ Number(t, Place(t, 0)) = 0
      BY <1>1, <1>2, <3>3
    <3>5. ~(0 < Place(t, 0))
      BY <3>1, <3>2, <3>4, NumberGrows
    <3>6. QED
      BY <3>4, <3>5
  <2>3. QED
    BY <2>1, <2>2
<1>5. QED
  BY <1>1, <1>2, <1>3, <1>4

\* The chunks hold every child, so a sum past the last chunk's is not asked for.
LEMMA ChunksHold ==
  ASSUME NEW t \in Seq(Bytes)
  PROVE  /\ Chunks(t) \in Nat /\ Count(t) \in Nat /\ Chunks(t) * Chunk >= Count(t)
         /\ \A n \in Nat : n < Count(t) => n \div Chunk <= Chunks(t)
<1>1. Count(t) \in Nat /\ Chunk \in Nat /\ Chunk > 0
  BY PlaceGrows DEF SessionAssumption
<1>2. ASSUME NEW n \in Nat
      PROVE  /\ n \div Chunk \in Nat /\ (n \div Chunk) * Chunk <= n
             /\ n < (n \div Chunk) * Chunk + Chunk
  BY <1>1
<1>3. Count(t) + Chunk - 1 \in Nat /\ Chunks(t) = (Count(t) + Chunk - 1) \div Chunk
  BY <1>1 DEF Chunks
<1>4. Chunks(t) \in Nat /\ Count(t) + Chunk - 1 < Chunks(t) * Chunk + Chunk
  BY <1>2, <1>3
<1>5. ASSUME NEW c \in Nat, NEW d \in Nat, c > d PROVE c * Chunk >= d * Chunk + Chunk
  <2>1. c * Chunk = (c - d) * Chunk + d * Chunk /\ c - d >= 1
    BY <1>1, <1>5
  <2>2. (c - d) * Chunk >= Chunk
    BY <1>1, <2>1
  <2>3. QED
    BY <1>1, <2>1, <2>2
<1>6. Chunks(t) * Chunk >= Count(t)
  <2>1. Chunks(t) * Chunk \in Nat
    BY <1>1, <1>4
  <2>2. QED
    BY <1>1, <1>4, <2>1
<1>7. ASSUME NEW n \in Nat, n < Count(t) PROVE n \div Chunk <= Chunks(t)
  <2>1. /\ n \div Chunk \in Nat /\ (n \div Chunk) * Chunk <= n
        /\ (n \div Chunk) * Chunk \in Nat /\ Chunks(t) * Chunk \in Nat
    BY <1>1, <1>2, <1>4
  <2>2. n \div Chunk > Chunks(t) => (n \div Chunk) * Chunk >= Chunks(t) * Chunk + Chunk
    BY <1>4, <1>5, <2>1
  <2> DEFINE c == n \div Chunk
             held == Chunks(t) * Chunk
             reached == c * Chunk
  <2> HIDE DEF c, held, reached
  <2>3. QED
    BY <1>1, <1>4, <1>6, <1>7, <2>1, <2>2 DEF c, held, reached
<1>8. QED
  BY <1>1, <1>4, <1>6, <1>7

\* A set of numbers up to `n' that is not empty has a greatest.
LEMMA GreatestUpTo ==
  ASSUME NEW n \in Nat, NEW S \in SUBSET (0..n), S # {}
  PROVE  \E m \in S : \A k \in S : k <= m
<1> DEFINE Below == {n - k : k \in S}
<1>1. Below \in SUBSET Nat /\ Below # {}
  <2>1. \A k \in S : n - k \in Nat
    OBVIOUS
  <2>2. QED
    BY <2>1
<1>2. PICK b \in Below : \A k \in Below : b <= k
  <2> HIDE DEF Below
  <2>1. QED
    BY <1>1, LeastNatural
<1>3. PICK m \in S : b = n - m
  BY <1>2
<1>4. \A k \in S : n - m <= n - k
  BY <1>2, <1>3
<1>5. QED
  BY <1>4

\* Widths that measure the text find the child that starts at `use', or the one before.
LEMMA ChildFound ==
  ASSUME NEW t \in Seq(Bytes), NEW use \in Starts(t)
  PROVE  /\ widths_child(t, t, use) \in Nat
         /\ widths_child(t, t, use) < Count(t)
         /\ Place(t, widths_child(t, t, use)) <= use
<1> DEFINE held == {c \in 0..Chunks(t) : widths_before(t, c) <= use}
           chunk == CHOOSE c \in held : \A d \in held : d <= c
           first == chunk * Chunk
           end(n) == widths_before(t, chunk) + (Place(t, n + 1) - Place(t, first))
           past == {n \in first..(Count(t) - 1) : end(n) > use}
<1>1. /\ use \in Nat /\ use < Len(t) /\ Len(t) \in Nat
      /\ Chunk \in Nat /\ Chunks(t) \in Nat /\ Count(t) \in Nat
  <2>1. Starts(t) \subseteq 0..(Len(t) - 1) /\ Len(t) \in Nat
    BY StartsFacts
  <2>2. QED
    BY <2>1, ChunksHold DEF SessionAssumption
<1>2. \A n \in Nat : /\ Place(t, n) \in Nat
                     /\ n < Count(t) <=> Place(t, n) < Len(t)
                     /\ Place(t, n) <= Place(t, n + 1)
  <2> TAKE n \in Nat
  <2>1. /\ Place(t, n) \in 0..Len(t) /\ Len(t) \in Nat
        /\ n < Count(t) <=> Place(t, n) < Len(t)
        /\ Place(t, n) <= Place(t, n + 1)
    BY PlaceGrows
  <2>2. QED
    BY <2>1
<1>3. Place(t, 0) = 0 /\ \A c \in Nat : c * Chunk \in Nat
  BY <1>1, PlaceGrows
<1>4. chunk \in held
  <2>1. 0 * Chunk = 0
    BY <1>1
  <2>2. 0 \in held
    BY <1>1, <1>3, <2>1 DEF widths_before
  <2>3. held \in SUBSET (0..Chunks(t))
    OBVIOUS
  <2> HIDE DEF held
  <2>4. QED
    BY <1>1, <2>2, <2>3, GreatestUpTo
<1>5. /\ chunk \in Nat /\ first \in Nat
      /\ widths_before(t, chunk) = Place(t, first)
      /\ Place(t, first) <= use
  <2> HIDE DEF chunk
  <2>1. QED
    BY <1>1, <1>3, <1>4 DEF widths_before
<1> HIDE DEF held, chunk, first
<1>6. first < Count(t) /\ chunk # Chunks(t)
  <2>1. Place(t, first) \in Nat /\ (first < Count(t) <=> Place(t, first) < Len(t))
    BY <1>2, <1>5
  <2>2. first < Count(t)
    BY <1>1, <1>5, <2>1
  <2>3. QED
    BY <1>5, <2>2, <1>1, ChunksHold DEF first
<1>7. \A n \in Nat : end(n) = Place(t, n + 1)
  BY <1>2, <1>5
<1>8. past = {n \in first..(Count(t) - 1) : Place(t, n + 1) > use}
  BY <1>5, <1>7, <1>1
<1> HIDE DEF past
<1>9. PICK p \in past : \A q \in past : p <= q
  <2>1. Count(t) - 1 \in past
    <3>1. Count(t) - 1 \in first..(Count(t) - 1) /\ (Count(t) - 1) + 1 = Count(t)
      BY <1>1, <1>5, <1>6
    <3>2. Place(t, Count(t)) = Len(t)
      BY <1>1, PlaceIs
    <3>3. QED
      BY <1>1, <1>8, <3>1, <3>2
  <2>2. past \in SUBSET Nat /\ past # {}
    BY <1>1, <1>5, <1>8, <2>1
  <2>3. QED
    BY <2>2, LeastNatural
<1>10. (CHOOSE n \in past : \A q \in past : n <= q) = p
  <2>1. past \in SUBSET Nat
    BY <1>5, <1>8
  <2>2. \A n \in past : (\A q \in past : n <= q) => n = p
    BY <1>9, <2>1
  <2>3. QED
    BY <1>9, <2>2
<1>11. widths_child(t, t, use) = IF p = 0 THEN 0 ELSE p - 1
  BY <1>6, <1>9, <1>10 DEF widths_child, past, chunk, held, first
<1>12. p \in Nat /\ p < Count(t) /\ p >= first
  BY <1>1, <1>5, <1>8, <1>9
<1>13. Place(t, p) <= use
  <2>1. CASE p = first
    BY <1>5, <2>1
  <2>2. CASE p > first
    <3>1. p - 1 \in (first)..(Count(t) - 1) /\ p - 1 \notin past
      BY <1>1, <1>5, <1>9, <1>12, <2>2
    <3>2. ~(Place(t, (p - 1) + 1) > use) /\ (p - 1) + 1 = p
      BY <1>8, <1>12, <3>1
    <3>3. QED
      BY <1>1, <1>2, <1>12, <3>2
  <2>3. QED
    BY <1>5, <1>12, <2>1, <2>2
<1>14. CASE p = 0
  BY <1>11, <1>12, <1>13, <1>14
<1>15. CASE p # 0
  <2>1. p - 1 \in Nat /\ (p - 1) + 1 = p
    BY <1>12, <1>15
  <2>2. Place(t, p - 1) <= Place(t, p) /\ Place(t, p - 1) \in Nat /\ Place(t, p) \in Nat
    BY <1>2, <1>12, <2>1
  <2>3. QED
    BY <1>1, <1>11, <1>12, <1>13, <1>15, <2>1, <2>2
<1>16. QED
  BY <1>14, <1>15

\* Widths that measure the text tell where each of its children starts and ends.
LEMMA WidthsTell ==
  ASSUME NEW t \in Seq(Bytes), NEW n \in Nat
  PROVE  /\ widths_start(t, t, n) = Place(t, n)
         /\ widths_end(t, t, n) = Place(t, n + 1)
<1>1. \A k \in Nat : Place(t, k) \in Int
  BY PlaceGrows
<1>2. n \div Chunk \in Nat /\ (n \div Chunk) * Chunk \in Nat
  BY DEF SessionAssumption
<1> DEFINE first == (n \div Chunk) * Chunk
<1>3. widths_start(t, t, n) = Place(t, first) + (Place(t, n) - Place(t, first))
  BY DEF widths_start, widths_before
<1> HIDE DEF first
<1>4. Place(t, first) \in Int /\ Place(t, n) \in Int /\ Place(t, n + 1) \in Int
  BY <1>1, <1>2 DEF first
<1>5. QED
  BY <1>3, <1>4 DEF widths_end

\* A reading again that finds its rest point by widths that measure the text reads
\* the child it is for, from where a child starts.
LEMMA ReadingsFound ==
  ASSUME NEW t \in Seq(Bytes), NEW use \in Starts(t)
  PROVE  Readings(t, t, use) = {TRUE}
<1> DEFINE child == widths_child(t, t, use)
           rests == {n \in 0..child : n = 0 \/ widths_end(t, t, n - 1) <= LineOf(t, widths_start(t, t, n))}
<1>1. child \in Nat /\ child < Count(t) /\ Place(t, child) <= use
  BY ChildFound
<1> HIDE DEF child
<1>2. ASSUME NEW n \in Nat, n < Count(t)
      PROVE  /\ Place(t, n) \in Nat
             /\ LineOf(t, widths_start(t, t, n)) = Place(t, n)
             /\ n # 0 => widths_end(t, t, n - 1) = Place(t, n)
  <2>1. Place(t, n) \in 0..Len(t) /\ Len(t) \in Nat /\ (n < Count(t) <=> Place(t, n) < Len(t))
    BY PlaceGrows
  <2>2. LineOf(t, widths_start(t, t, n)) = Place(t, n)
    BY <1>2, <2>1, WidthsTell DEF LineOf
  <2>3. ASSUME n # 0 PROVE widths_end(t, t, n - 1) = Place(t, n)
    <3>1. n - 1 \in Nat /\ (n - 1) + 1 = n
      BY <2>3
    <3>2. widths_end(t, t, n - 1) = Place(t, (n - 1) + 1)
      BY <3>1, WidthsTell
    <3>3. QED
      BY <3>1, <3>2
  <2>4. QED
    BY <2>1, <2>2, <2>3
<1>3. rests = 0..child
  <2>1. Count(t) \in Nat
    BY PlaceGrows
  <2>2. ASSUME NEW n \in 0..child
        PROVE  n = 0 \/ widths_end(t, t, n - 1) <= LineOf(t, widths_start(t, t, n))
    <3>1. n \in Nat /\ n < Count(t)
      BY <1>1, <2>1
    <3>2. QED
      BY <1>2, <3>1
  <2>3. QED
    BY <2>2
<1>4. session_rest_root(t, t, use) = child
  <2>1. session_rest_root(t, t, use) = CHOOSE n \in rests : \A q \in rests : q <= n
    BY DEF session_rest_root, child
  <2> HIDE DEF rests
  <2>2. \A n \in 0..child : (\A q \in 0..child : q <= n) <=> n = child
    BY <1>1
  <2>3. QED
    BY <1>1, <1>3, <2>1, <2>2
<1>5. ~(child \div Chunk > Chunks(t))
  <2>1. child \div Chunk <= Chunks(t) /\ Chunks(t) \in Nat
    BY <1>1, ChunksHold
  <2>2. child \div Chunk \in Nat
    BY <1>1 DEF SessionAssumption
  <2>3. QED
    BY <2>1, <2>2
<1>6. QED
  BY <1>1, <1>2, <1>4, <1>5 DEF Readings, child

-------------------------------------------------------------------------------
(* The invariant, step by step.                                            *)

\* A session as markdown_core_session_new makes it is sound.
LEMMA InitInv == Init => IInv
<1> SUFFICES ASSUME Init PROVE IInv
  OBVIOUS
<1>1. TypeOK
  BY EmptySeq, LenProperties DEF Init, TypeOK, SessionAssumption
<1>2. ContextIsCurrent /\ WidthsMeasure /\ LinesOfDocument /\ StreamingUnmade /\ DocumentIsOfText
  BY DEF Init, ContextIsCurrent, WidthsMeasure, LinesOfDocument, StreamingUnmade, DocumentIsOfText
<1>3. HolesBounded
  BY <1>1, LenProperties DEF Init, HolesBounded, TypeOK
<1>4. QED  BY <1>1, <1>2, <1>3 DEF IInv

\* An append, taken or refused or failed in its parse, keeps the session sound.
LEMMA AppendStep ==
  ASSUME IInv, NEW more \in Inserts, AppendText(more)
  PROVE  IInv'
<1>1. UNCHANGED <<open, flushed, kept, made, measured, peak, lined>>
  BY DEF AppendText, edits
<1>2. CASE flushed
  <2>1. UNCHANGED <<text, root, failed, located, context>>
    BY <1>2 DEF AppendText
  <2>2. QED
    BY <1>1, <2>1 DEF IInv, TypeOK, ContextIsCurrent, WidthsMeasure, HolesBounded, LinesOfDocument,
                      StreamingUnmade, DocumentIsOfText
<1>3. CASE ~flushed
  <2>1. ContextIsCurrent' /\ located' \in BOOLEAN
    BY <1>3 DEF AppendText, Forget, ContextIsCurrent, NoContext, None
  <2>2. WidthsMeasure' /\ LinesOfDocument' /\ StreamingUnmade'
    BY <1>1, <1>3 DEF IInv, WidthsMeasure, LinesOfDocument, StreamingUnmade
  <2>3. CASE UNCHANGED <<text, root, failed>>
    BY <1>1, <1>3, <2>1, <2>2, <2>3 DEF IInv, TypeOK, HolesBounded, DocumentIsOfText
  <2>4. CASE /\ Len(more) <= Capacity - Len(text)
             /\ text' = Taken(more)
             /\ \/ ~failed /\ root' = Snapshot(text') /\ UNCHANGED failed
                \/ root' = Torn /\ failed' = TRUE
    <3>1. /\ text' \in Seq(Bytes) /\ Len(text') = Len(text) + Len(more)
          /\ Len(text) \in Nat /\ Len(more) \in Nat
      BY <2>4, TakenIsText DEF IInv
    <3>2. TypeOK'
      <4>1. Len(text') <= Capacity
        BY <2>4, <3>1 DEF SessionAssumption
      <4>2. failed' \in BOOLEAN
        BY <2>4 DEF IInv, TypeOK
      <4>3. QED  BY <1>1, <2>1, <3>1, <4>1, <4>2 DEF IInv, TypeOK
    <3>3. HolesBounded'
      BY <1>1, <3>1 DEF IInv, TypeOK, HolesBounded
    <3>4. DocumentIsOfText'
      BY <1>1, <1>3, <2>4 DEF DocumentIsOfText, Snapshot
    <3>5. QED  BY <2>1, <2>2, <3>2, <3>3, <3>4 DEF IInv
  <2>5. QED  BY <1>3, <2>3, <2>4 DEF AppendText
<1>4. QED  BY <1>2, <1>3

\* The flush publishes the final document, or lets the document go, and leaves
\* no widths of the one before.
LEMMA FlushStep ==
  ASSUME IInv, Flush
  PROVE  IInv'
<1>1. UNCHANGED <<open, text, failed, kept, made, measured, peak>>
  BY DEF Flush, edits
<1>2. CASE flushed
  <2>1. UNCHANGED <<root, flushed, located, context, lined>>
    BY <1>2 DEF Flush
  <2>2. QED
    BY <1>1, <2>1 DEF IInv, TypeOK, ContextIsCurrent, WidthsMeasure, HolesBounded, LinesOfDocument,
                      StreamingUnmade, DocumentIsOfText
<1>3. CASE ~flushed
  <2>1. /\ flushed' = TRUE /\ located' = FALSE /\ context' = NoContext
        /\ \/ root' = Final(text) /\ lined' = text
           \/ root' = None /\ UNCHANGED lined
    BY <1>3 DEF Flush, Forget
  <2>2. TypeOK' /\ HolesBounded'
    BY <1>1, <2>1 DEF IInv, TypeOK, HolesBounded
  <2>3. ContextIsCurrent' /\ StreamingUnmade' /\ LinesOfDocument'
    BY <1>1, <2>1 DEF ContextIsCurrent, StreamingUnmade, LinesOfDocument
  <2>4. WidthsMeasure'
    BY <1>1, <1>3 DEF IInv, WidthsMeasure, StreamingUnmade
  <2>5. DocumentIsOfText'
    BY <1>1, <2>1 DEF DocumentIsOfText
  <2>6. QED  BY <2>2, <2>3, <2>4, <2>5 DEF IInv
<1>4. QED  BY <1>2, <1>3

\* An edit that is refused changes nothing of a session.
LEMMA EditRefusedStep ==
  ASSUME IInv, EditRefused
  PROVE  IInv'
BY DEF EditRefused, edits, IInv, TypeOK, ContextIsCurrent, WidthsMeasure, HolesBounded, LinesOfDocument,
       StreamingUnmade, DocumentIsOfText

\* The widths made for an edit or a locate measure the document; widths that
\* could not be had leave those that were.
LEMMA PreparedMeasures ==
  ASSUME IInv, flushed, UNCHANGED <<root, flushed>>, Prepared \/ Unprepared
  PROVE  WidthsMeasure' /\ StreamingUnmade' /\ kept' \in BOOLEAN /\ made' \in BOOLEAN
<1>1. CASE Prepared
  BY <1>1 DEF Prepared, IInv, WidthsMeasure, StreamingUnmade
<1>2. CASE Unprepared
  <2>1. made' = made /\ measured' = measured /\ kept' \in {kept, TRUE}
    BY <1>2 DEF Unprepared
  <2>2. QED  BY <2>1 DEF IInv, TypeOK, WidthsMeasure, StreamingUnmade
<1>3. QED  BY <1>1, <1>2

\* An edit out of storage before its text is replaced keeps the session sound.
LEMMA EditOutOfStorageStep ==
  ASSUME IInv, NEW from \in Places, NEW to \in Places, NEW with \in Inserts, EditOutOfStorage(from, to, with)
  PROVE  IInv'
<1>1. /\ flushed /\ UNCHANGED <<open, text, root, failed, flushed, lined>>
      /\ \/ Unprepared /\ UNCHANGED <<located, context, peak>>
         \/ Prepared /\ Forget /\ peak' \in {peak, Highest}
  BY DEF EditOutOfStorage, Editable
<1>2. WidthsMeasure' /\ StreamingUnmade' /\ kept' \in BOOLEAN /\ made' \in BOOLEAN
  BY <1>1, PreparedMeasures
<1>3. ContextIsCurrent' /\ located' \in BOOLEAN
  <2>1. CASE UNCHANGED <<located, context>>
    BY <1>1, <2>1 DEF IInv, TypeOK, ContextIsCurrent
  <2>2. CASE Forget
    BY <2>2 DEF ContextIsCurrent, Forget
  <2>3. QED  BY <1>1, <2>1, <2>2
<1>4. peak' \in {peak, Len(text)} /\ Len(text) \in Nat /\ peak \in Nat
  BY <1>1, HighestBounds DEF IInv, TypeOK
<1>5. TypeOK'
  BY <1>1, <1>2, <1>3, <1>4 DEF IInv, TypeOK
<1>6. HolesBounded'
  BY <1>1, <1>4 DEF IInv, HolesBounded
<1>7. LinesOfDocument' /\ (~WidthsScarce => DocumentIsOfText')
  BY <1>1 DEF IInv, LinesOfDocument, DocumentIsOfText
<1>8. QED  BY <1>2, <1>3, <1>5, <1>6, <1>7 DEF IInv

\* A text an edit made that fits is a text of the session.
LEMMA EditedText ==
  ASSUME TypeOK, NEW from \in Places, NEW to \in Places, NEW with \in Inserts, InBounds(from, to), Fits(from, to, with)
  PROVE  /\ Replaced(from, to, with) \in Seq(Bytes)
         /\ Len(Replaced(from, to, with)) \in Nat
         /\ Len(Replaced(from, to, with)) <= Capacity
<1>1. from \in Nat /\ to \in Nat /\ Capacity \in Nat
  BY DEF Places, SessionAssumption
<1>2. with \in Seq(Bytes) /\ text \in Seq(Bytes)
  BY DEF TypeOK, SessionAssumption
<1>3. Len(with) \in Nat /\ Len(text) \in Nat
  BY <1>2, LenProperties
<1>4. /\ Replaced(from, to, with) \in Seq(Bytes)
      /\ Len(Replaced(from, to, with)) = from + Len(with) + (Len(text) - to)
  BY <1>1, <1>2, ReplacedIsText
<1>5. QED  BY <1>1, <1>3, <1>4 DEF InBounds, Fits

\* The compaction bounds what the arenas keep by the text the edit left.
LEMMA PeakBounds ==
  ASSUME TypeOK, NEW new, Len(new) \in Nat
  PROVE  PeakAfter(new) \in Nat /\ Len(new) >= PeakAfter(new) \div 2
<1>1. Highest \in Nat
  BY HighestBounds
<1>2. CASE Compacts(new)
  BY <1>2 DEF PeakAfter
<1>3. CASE ~Compacts(new)
  <2>1. Highest \div 2 \in Nat
    BY <1>1
  <2>2. QED  BY <1>1, <1>3, <2>1 DEF PeakAfter, Compacts
<1>4. QED  BY <1>2, <1>3

\* A mend has its storage or not, and has it unless the widths' may be refused.
LEMMA MendsTell ==
  ASSUME NEW new, NEW mend \in Mends(new)
  PROVE  mend.done \in BOOLEAN /\ (~WidthsScarce => mend.done = TRUE)
<1> DEFINE refused == {r \in Refused(RoomMade, new) : WidthsScarce}
           given == Roomed(RoomMade, new)
<1>1. mend \in {[done |-> TRUE, room |-> given]} \cup {[done |-> FALSE, room |-> had] : had \in refused}
  BY DEF Mends
<1>2. \A had \in refused : WidthsScarce
  OBVIOUS
<1> HIDE DEF refused, given
<1>3. CASE mend = [done |-> TRUE, room |-> given]
  BY <1>3
<1>4. ASSUME NEW had \in refused, mend = [done |-> FALSE, room |-> had]
      PROVE  mend.done \in BOOLEAN /\ (~WidthsScarce => mend.done = TRUE)
  <2>1. mend.done = FALSE /\ WidthsScarce
    BY <1>2, <1>4
  <2>2. QED  BY <2>1
<1>5. QED
  BY <1>1, <1>3, <1>4

\* An edit's readings keep the session sound, whether the document is read or
\* let go; that the document is the one of the new text needs the widths' mends
\* not to fail.
LEMMA EditReadsStep ==
  ASSUME IInv, NEW from \in Places, NEW to \in Places, NEW with \in Inserts, EditReads(from, to, with)
  PROVE  IInv'
<1> DEFINE new == Replaced(from, to, with)
<1>1. /\ open /\ flushed /\ root # None /\ InBounds(from, to) /\ Fits(from, to, with)
      /\ text' = new /\ kept' = TRUE /\ peak' = PeakAfter(new)
      /\ located' = FALSE /\ context' = NoContext
      /\ UNCHANGED <<open, failed, flushed>>
  BY DEF EditReads, Editable, Forget
<1> DEFINE again == Again(from, to, with)
<1>2. (\E mend \in Mends(new) : ReadTo(new, again, mend)) \/ Released(new)
  BY DEF EditReads
<1>3. new \in Seq(Bytes) /\ Len(new) \in Nat /\ Len(new) <= Capacity
  BY <1>1, EditedText DEF IInv
<1>4. HolesBounded' /\ peak' \in Nat
  <2> HIDE DEF new
  <2> QED  BY <1>1, <1>3, PeakBounds DEF IInv, HolesBounded
<1>5. ContextIsCurrent' /\ StreamingUnmade'
  BY <1>1 DEF ContextIsCurrent, StreamingUnmade
<1>6. /\ made' \in BOOLEAN /\ lined' \in Seq(Bytes)
      /\ WidthsMeasure' /\ LinesOfDocument'
      /\ ~WidthsScarce => DocumentIsOfText'
  <2>0. again \subseteq Starts(new)
    BY DEF Again
  <2>1. ~WidthsScarce /\ root # Final(text) => ~(flushed /\ open /\ root # None)
    BY DEF IInv, DocumentIsOfText
  <2> HIDE DEF new, again
  <2>2. ASSUME Released(new)
        PROVE  made' \in BOOLEAN /\ lined' \in {lined, << >>, new} /\ root' = None
    <3>1. CASE made' = TRUE /\ room' = RoomMade /\ UNCHANGED lined
      BY <2>2, <3>1 DEF Released
    <3>2. ASSUME NEW mend \in {[done |-> FALSE, room |-> RoomMade]} \cup Mends(new),
                 made' \in {FALSE, mend.done}, lined' \in {<< >>, new}
          PROVE  made' \in BOOLEAN /\ lined' \in {lined, << >>, new}
      <4>1. mend.done \in BOOLEAN
        <5>1. CASE mend \in Mends(new)
          BY <5>1, MendsTell
        <5>2. CASE mend = [done |-> FALSE, room |-> RoomMade]
          BY <5>2
        <5>3. QED  BY <3>2, <5>1, <5>2
      <4>2. QED  BY <3>2, <4>1
    <3>3. QED  BY <2>2, <3>1, <3>2 DEF Released
  <2>3. CASE \E mend \in Mends(new) : ReadTo(new, again, mend)
    <3>0. PICK mend \in Mends(new) : ReadTo(new, again, mend)
      BY <2>3
    <3>1. /\ made' \in BOOLEAN /\ lined' = new
          /\ made' => measured' = root'
      BY <3>0, MendsTell DEF ReadTo, ReadBy
    <3>2. ASSUME ~WidthsScarce PROVE root' = Final(new)
      <4>1. mend.done
        BY <3>2, MendsTell
      <4>2. PICK right \in [again -> BOOLEAN] :
              /\ \A use \in again : right[use] \in Readings(new, new, use)
              /\ IF root # Final(text) /\ ~Compacts(new) THEN root' \in {Final(new), Torn}
                 ELSE root' = IF \A use \in again : right[use] THEN Final(new) ELSE Torn
        BY <3>0, <4>1 DEF ReadTo, ReadBy
      <4>3. \A use \in again : right[use]
        BY <1>3, <2>0, <4>2, ReadingsFound
      <4>4. QED  BY <1>1, <2>1, <3>2, <4>2, <4>3
    <3>3. QED  BY <1>1, <1>3, <3>1, <3>2 DEF WidthsMeasure, LinesOfDocument, DocumentIsOfText
  <2>4. CASE Released(new)
    <3>1. lined' \in Seq(Bytes)
      BY <1>3, <2>2, <2>4, EmptySeq DEF IInv, TypeOK
    <3>2. QED  BY <1>1, <2>2, <2>4, <3>1 DEF WidthsMeasure, LinesOfDocument, DocumentIsOfText
  <2>5. QED  BY <1>2, <2>3, <2>4
<1>7. TypeOK'
  BY <1>1, <1>3, <1>4, <1>6 DEF IInv, TypeOK
<1>8. QED  BY <1>4, <1>5, <1>6, <1>7 DEF IInv

\* A locate changes the context and what an edit keeps, and neither wrongly.
LEMMA LocateStep ==
  ASSUME IInv, Locate
  PROVE  IInv'
<1>1. UNCHANGED <<open, text, root, failed, flushed, lined, peak>>
  BY DEF Locate, edits
<1>2. WidthsMeasure' /\ StreamingUnmade' /\ kept' \in BOOLEAN /\ made' \in BOOLEAN
  <2>1. CASE flushed /\ (Prepared \/ Unprepared)
    BY <1>1, <2>1, PreparedMeasures
  <2>2. CASE UNCHANGED edits
    BY <1>1, <2>2 DEF edits, IInv, TypeOK, WidthsMeasure, StreamingUnmade
  <2>3. QED  BY <2>1, <2>2 DEF Locate
<1>3. ContextIsCurrent' /\ located' \in BOOLEAN
  <2>1. \/ UNCHANGED <<located, context>>
        \/ located' = TRUE /\ context' = [text |-> text, root |-> root]
    BY DEF Locate, LocateAnswers, LocateFails
  <2>2. CASE UNCHANGED <<located, context>>
    BY <1>1, <2>2 DEF IInv, TypeOK, ContextIsCurrent
  <2>3. CASE located' = TRUE /\ context' = [text |-> text, root |-> root]
    BY <1>1, <2>3 DEF ContextIsCurrent
  <2>4. QED  BY <2>1, <2>2, <2>3
<1>4. TypeOK' /\ HolesBounded' /\ LinesOfDocument' /\ (~WidthsScarce => DocumentIsOfText')
  BY <1>1, <1>2, <1>3 DEF IInv, TypeOK, HolesBounded, LinesOfDocument, DocumentIsOfText
<1>5. QED  BY <1>2, <1>3, <1>4 DEF IInv

\* The close lets the document and the context go.
LEMMA CloseStep ==
  ASSUME IInv, Close
  PROVE  IInv'
BY DEF Close, Forget, edits, IInv, TypeOK, ContextIsCurrent, WidthsMeasure, HolesBounded, LinesOfDocument,
       StreamingUnmade, DocumentIsOfText

\* Every step keeps the invariant.
LEMMA NextStep == IInv /\ [Next]_vars => IInv'
<1> SUFFICES ASSUME IInv, [Next]_vars PROVE IInv'
  OBVIOUS
<1>1. CASE \E more \in Inserts : AppendText(more)
  BY <1>1, AppendStep
<1>2. CASE Flush
  BY <1>2, FlushStep
<1>3. CASE EditRefused
  BY <1>3, EditRefusedStep
<1>4. CASE \E from, to \in Places, with \in Inserts : EditOutOfStorage(from, to, with)
  BY <1>4, EditOutOfStorageStep
<1>5. CASE \E from, to \in Places, with \in Inserts : EditReads(from, to, with)
  BY <1>5, EditReadsStep
<1>6. CASE Locate
  BY <1>6, LocateStep
<1>7. CASE Close
  BY <1>7, CloseStep
<1>8. CASE UNCHANGED vars
  BY <1>8 DEF vars, edits, IInv, TypeOK, ContextIsCurrent, WidthsMeasure, HolesBounded, LinesOfDocument,
              StreamingUnmade, DocumentIsOfText
<1>9. QED  BY <1>1, <1>2, <1>3, <1>4, <1>5, <1>6, <1>7, <1>8 DEF Next

-------------------------------------------------------------------------------
(* What holds of every session.                                            *)

\* The invariant of session.c: every call leaves a sound session.
THEOREM Invariance == Spec => []IInv
BY InitInv, NextStep, PTL DEF Spec

\* The session's variables keep their types and its text the capacity.
THEOREM TypeCorrect == Spec => []TypeOK
<1>1. IInv => TypeOK
  BY DEF IInv
<1>2. QED  BY <1>1, Invariance, PTL

\* No call of session.c leaves a context that was read before it.
THEOREM ContextAlwaysCurrent == Spec => []ContextIsCurrent
<1>1. IInv => ContextIsCurrent
  BY DEF IInv
<1>2. QED  BY <1>1, Invariance, PTL

\* The widths, while made, measure the document that stands, whatever edits
\* failed before: what widths_check asserts.
THEOREM WidthsAlwaysMeasure == Spec => []WidthsMeasure
<1>1. IInv => WidthsMeasure
  BY DEF IInv
<1>2. QED  BY <1>1, Invariance, PTL

\* The compaction keeps the text at half of the most held since the last reading
\* of all of it.
THEOREM HolesAlwaysBounded == Spec => []HolesBounded
<1>1. IInv => HolesBounded
  BY DEF IInv
<1>2. QED  BY <1>1, Invariance, PTL

\* The line table a flushed session with a document lends is of its text.
THEOREM LinesAlwaysOfDocument == Spec => []LinesOfDocument
<1>1. IInv => LinesOfDocument
  BY DEF IInv
<1>2. QED  BY <1>1, Invariance, PTL

\* When the widths' mends have their storage, the document a session has is the
\* parse of its text, whatever other allocation failed.
THEOREM DocumentAlwaysOfText ==
  ASSUME ~WidthsScarce
  PROVE  Spec => []DocumentIsOfText
<1>1. IInv => DocumentIsOfText
  BY DEF IInv
<1>2. QED  BY <1>1, Invariance, PTL

\* A flushed session without a document stays so, its text too: no handler of
\* session.c brings it back.
THEOREM GoneAlwaysGone == Spec => GoneStaysGone
<1>1. [Next]_vars => [flushed /\ root = None => root' = None /\ text' = text]_vars
  <2> SUFFICES ASSUME Next, flushed, root = None
               PROVE  root' = None /\ text' = text
    OBVIOUS
  <2>1. CASE \E more \in Inserts : AppendText(more)
    BY <2>1 DEF AppendText
  <2>2. CASE Flush
    BY <2>2 DEF Flush
  <2>3. CASE EditRefused
    BY <2>3 DEF EditRefused
  <2>4. CASE \E from, to \in Places, with \in Inserts : EditOutOfStorage(from, to, with) \/ EditReads(from, to, with)
    BY <2>4 DEF EditOutOfStorage, EditReads, Editable
  <2>5. CASE Locate
    BY <2>5 DEF Locate
  <2>6. CASE Close
    BY <2>6 DEF Close
  <2>7. QED  BY <2>1, <2>2, <2>3, <2>4, <2>5, <2>6 DEF Next
<1>2. QED  BY <1>1, PTL DEF Spec, GoneStaysGone
===============================================================================
