------------------------------ MODULE RereadProof ------------------------------
(***************************************************************************)
(* Theorems about Reread: every child of the root starts a line, whatever  *)
(* edits made the document, so that the rest point an edit finds is the    *)
(* start of a line no reading kept before it read past.                    *)
(***************************************************************************)
EXTENDS Reread, SequenceTheorems, Groundwork, TLAPS

-------------------------------------------------------------------------------
(* What a document and a reading hold.                                     *)

BlockKinds == {"para", "code", "comment", "quote", "ref"}
Blocks == [kind : BlockKinds, lines : Seq(LineKinds), blank : BOOLEAN, named : BOOLEAN, linked : BOOLEAN]
Entries == [is : Blocks, lead : Nat, span : Nat]
Reaches == SUBSET (Nat \X Int)

\* A document whose children each start a line.
DocOK(d) == d \in Seq(Entries) /\ \A i \in 1..Len(d) : Start(d, i) % Width = 0

-------------------------------------------------------------------------------
(* Where the children lie (widths_start, widths_end).                      *)

LEMMA EntryFacts ==
  ASSUME NEW d \in Seq(Entries)
  PROVE  Len(d) \in Nat /\ \A i \in 1..Len(d) : d[i].lead \in Nat /\ d[i].span \in Nat /\ d[i].is \in Blocks
<1>1. \A i \in 1..Len(d) : d[i] \in Entries
  OBVIOUS
<1> QED
  BY <1>1 DEF Entries

\* `Ends' sums the leads and the spans.
LEMMA EndsSum ==
  ASSUME NEW d \in Seq(Entries)
  PROVE  /\ Ends(d) \in [0..Len(d) -> Nat]
         /\ Ends(d)[0] = 0
         /\ \A i \in 1..Len(d) : Ends(d)[i] = Ends(d)[i - 1] + d[i].lead + d[i].span
<1> DEFINE n == Len(d)
           F == [i \in 1..n |-> [x \in Nat |-> x + d[i].lead + d[i].span]]
           Eq(f) == f = [i \in 0..n |-> IF i = 0 THEN 0 ELSE f[i - 1] + d[i].lead + d[i].span]
<1>1. n \in Nat /\ \A i \in 1..n : d[i].lead \in Nat /\ d[i].span \in Nat
  BY EntryFacts
<1>2. F \in [1..n -> [Nat -> Nat]]
  BY <1>1
<1>3. PICK g \in [0..n -> Nat] : g[0] = 0 /\ \A i \in 1..n : g[i] = F[i][g[i - 1]]
  <2> HIDE DEF F, n
  <2>1. Runs(Nat, n, 0, F)
    BY <1>1, <1>2, Iterated
  <2> QED
    BY <2>1 DEF Runs
<1>4. Eq(g)
  <2>1. \A i \in 1..n : g[i - 1] \in Nat
    BY <1>1
  <2>2. \A i \in 1..n : g[i] = g[i - 1] + d[i].lead + d[i].span
    BY <1>3, <2>1
  <2>3. \A i \in 0..n : g[i] = IF i = 0 THEN 0 ELSE g[i - 1] + d[i].lead + d[i].span
    BY <1>1, <1>3, <2>2
  <2> QED
    BY <2>3
<1>5. Ends(d) = CHOOSE f : Eq(f)
  BY DEF Ends
<1> DEFINE e == Ends(d)
<1>6. Eq(e)
  BY <1>4, <1>5, Zenon
<1> HIDE DEF e
<1>7. e[0] = 0 /\ \A i \in 1..n : e[i] = e[i - 1] + d[i].lead + d[i].span
  <2>1. \A i \in 0..n : e[i] = IF i = 0 THEN 0 ELSE e[i - 1] + d[i].lead + d[i].span
    BY <1>6
  <2> QED
    BY <1>1, <2>1
<1>8. \A i \in 0..n : e[i] \in Nat
  <2> DEFINE G == {i \in 0..n : e[i] \in Nat}
  <2>1. 0 \in G
    BY <1>1, <1>7
  <2>2. ASSUME NEW i \in 0..(n - 1), i \in G PROVE i + 1 \in G
    <3>1. i + 1 \in 1..n /\ (i + 1) - 1 = i
      BY <1>1
    <3> DEFINE k == i + 1
    <3>2. e[k] = e[i] + d[k].lead + d[k].span
      BY <1>7, <3>1
    <3> QED
      BY <1>1, <2>2, <3>1, <3>2
  <2> HIDE DEF G
  <2>3. 0..n \subseteq G
    BY <1>1, <2>1, <2>2, UpTo
  <2> QED
    BY <2>3 DEF G
<1>9. e \in [0..n -> Nat]
  <2>1. DOMAIN e = 0..n /\ e = [i \in 0..n |-> e[i]]
    BY <1>6
  <2> QED
    BY <1>8, <2>1
<1> QED
  BY <1>7, <1>9 DEF e

\* Any sums of the leads and the spans are where the children end.
LEMMA EndsUnique ==
  ASSUME NEW d \in Seq(Entries), NEW f, NEW m \in 0..Len(d), NEW c \in Int, f[0] = Ends(d)[m] + c,
         \A i \in 1..(Len(d) - m) : f[i] = f[i - 1] + d[m + i].lead + d[m + i].span
  PROVE  \A i \in 0..(Len(d) - m) : Ends(d)[m + i] + c = f[i]
<1> DEFINE n == Len(d) - m
           G == {i \in 0..n : Ends(d)[m + i] + c = f[i]}
<1>1. n \in Nat /\ Len(d) \in Nat
  OBVIOUS
<1>2. 0 \in G
  BY <1>1
<1>3. ASSUME NEW i \in 0..(n - 1), i \in G PROVE i + 1 \in G
  <2> DEFINE k == i + 1
             j == m + k
  <2>1. k \in 1..n /\ k - 1 = i /\ j \in 1..Len(d) /\ j - 1 = m + i /\ m + i \in 0..Len(d)
    BY <1>1
  <2>2. f[k] = f[i] + d[j].lead + d[j].span
    BY <2>1
  <2>3. Ends(d)[j] = Ends(d)[m + i] + d[j].lead + d[j].span
    <3>1. Ends(d)[j] = Ends(d)[j - 1] + d[j].lead + d[j].span
      BY <2>1, EndsSum
    <3> QED
      BY <2>1, <3>1
  <2>4. Ends(d)[m + i] \in Nat /\ d[j].lead \in Nat /\ d[j].span \in Nat
    <3> HIDE DEF j, k, n
    <3> QED
      BY <2>1, EndsSum, EntryFacts
  <2>5. Ends(d)[m + i] + c = f[i]
    BY <1>3
  <2>6. Ends(d)[j] + c = f[k]
    <3> HIDE DEF j, k
    <3>1. PICK a \in Nat : a = Ends(d)[m + i]
      BY <2>4
    <3>2. PICK x \in Nat : x = d[j].lead
      BY <2>4
    <3>3. PICK y \in Nat : y = d[j].span
      BY <2>4
    <3>4. f[i] = a + c
      BY <2>5, <3>1
    <3>5. f[k] = a + c + x + y
      BY <2>2, <3>2, <3>3, <3>4
    <3>6. Ends(d)[j] = a + x + y
      BY <2>3, <3>1, <3>2, <3>3
    <3> QED
      BY <3>5, <3>6
  <2> QED
    BY <2>1, <2>6
<1> HIDE DEF G
<1>4. 0..n \subseteq G
  BY <1>1, <1>2, <1>3, UpTo
<1> QED
  BY <1>4 DEF G

\* A child ends past every child before it and past where it starts.
LEMMA EndsRise ==
  ASSUME NEW d \in Seq(Entries)
  PROVE  /\ \A i \in 1..Len(d) : Start(d, i) \in Nat /\ Ends(d)[i - 1] <= Start(d, i) /\ Start(d, i) <= Ends(d)[i]
         /\ \A i, j \in 0..Len(d) : i <= j => Ends(d)[i] <= Ends(d)[j]
<1> DEFINE n == Len(d)
           e == Ends(d)
<1>1. /\ n \in Nat /\ e \in [0..n -> Nat]
      /\ \A i \in 1..n : /\ e[i] = e[i - 1] + d[i].lead + d[i].span /\ e[i - 1] \in Nat
                         /\ d[i].lead \in Nat /\ d[i].span \in Nat
  <2>1. /\ n \in Nat /\ e \in [0..n -> Nat]
        /\ \A i \in 1..n : e[i] = e[i - 1] + d[i].lead + d[i].span
        /\ \A i \in 1..n : d[i].lead \in Nat /\ d[i].span \in Nat
    BY EndsSum, EntryFacts
  <2>2. \A i \in 1..n : i - 1 \in 0..n
    BY <2>1
  <2> HIDE DEF e, n
  <2> QED
    BY <2>1, <2>2
<1>2. ASSUME NEW i \in 1..n
      PROVE  Start(d, i) \in Nat /\ e[i - 1] <= Start(d, i) /\ Start(d, i) <= e[i]
  BY <1>1 DEF Start
<1> HIDE DEF e
<1>3. ASSUME NEW i \in 0..n
      PROVE  \A j \in 0..n : i <= j => e[i] <= e[j]
  <2> DEFINE G == {j \in 0..n : i <= j => e[i] <= e[j]}
  <2>1. 0 \in G
    BY <1>1
  <2>2. ASSUME NEW j \in 0..(n - 1), j \in G PROVE j + 1 \in G
    <3> DEFINE k == j + 1
    <3>1. k \in 1..n /\ k - 1 = j /\ j \in 0..n /\ k \in 0..n /\ k = j + 1
      BY <1>1
    <3> HIDE DEF k
    <3>2. e[j] <= e[k]
      <4>1. e[k] = e[k - 1] + d[k].lead + d[k].span /\ d[k].lead \in Nat /\ d[k].span \in Nat /\ e[k - 1] \in Nat
        BY <1>1, <3>1
      <4> QED
        BY <3>1, <4>1
    <3>3. e[j] \in Nat /\ e[k] \in Nat /\ e[i] \in Nat
      BY <1>1, <3>1
    <3>4. k \in G
      BY <2>2, <3>1, <3>2, <3>3
    <3> QED
      BY <3>1, <3>4
  <2> HIDE DEF G
  <2>3. 0..n \subseteq G
    BY <1>1, <2>1, <2>2, UpTo
  <2> QED
    BY <2>3 DEF G
<1> QED
  BY <1>2, <1>3 DEF e

-------------------------------------------------------------------------------
(* The rest point (session_rest_root).                                     *)

\* Steps back that end: from `i' a walk goes to W[i], which is before it, until it
\* is at one of `Stop' or at 0.
Descent(f, n, Stop, W) == f[0] = 0 /\ \A i \in 1..n : f[i] = IF i \in Stop THEN i ELSE f[W[i]]

LEMMA DescentExists ==
  ASSUME NEW n \in Nat, NEW Stop, NEW W \in [1..n -> Nat], \A i \in 1..n : W[i] < i
  PROVE  \E f \in [0..n -> Nat] : Descent(f, n, Stop, W)
<1> DEFINE Good == {k \in 0..n : \E f \in [0..k -> Nat] : Descent(f, k, Stop, W)}
<1>1. 0 \in Good
  <2> DEFINE f == [i \in 0..0 |-> 0]
  <2>1. f \in [0..0 -> Nat] /\ f[0] = 0
    OBVIOUS
  <2> HIDE DEF f
  <2>2. Descent(f, 0, Stop, W)
    BY <2>1 DEF Descent
  <2> QED
    BY <2>1, <2>2
<1>2. ASSUME NEW k \in 0..(n - 1), k \in Good PROVE k + 1 \in Good
  <2>1. PICK g \in [0..k -> Nat] : Descent(g, k, Stop, W)
    BY <1>2
  <2> DEFINE m == k + 1
             f == [i \in 0..m |-> IF i # m THEN g[i] ELSE IF m \in Stop THEN m ELSE g[W[m]]]
  <2>2. m \in 1..n /\ W[m] \in 0..k /\ m \in 0..n
    BY <1>2
  <2>3. f \in [0..m -> Nat] /\ \A i \in 0..k : f[i] = g[i]
    BY <2>2
  <2>4. f[m] = IF m \in Stop THEN m ELSE f[W[m]]
    BY <2>2, <2>3
  <2> HIDE DEF f
  <2>5. Descent(f, m, Stop, W)
    <3>1. f[0] = 0
      BY <2>1, <2>3 DEF Descent
    <3>2. ASSUME NEW i \in 1..m PROVE f[i] = IF i \in Stop THEN i ELSE f[W[i]]
      <4>1. CASE i = m
        BY <2>4, <4>1
      <4>2. CASE i # m
        <5>1. i \in 1..k /\ W[i] \in 0..k
          BY <2>2, <3>2, <4>2
        <5> QED
          BY <2>1, <2>3, <5>1 DEF Descent
      <4> QED
        BY <4>1, <4>2
    <3> QED
      BY <3>1, <3>2 DEF Descent
  <2> QED
    BY <2>2, <2>3, <2>5
<1> HIDE DEF Good
<1>3. 0..n \subseteq Good
  BY <1>1, <1>2, UpTo
<1>4. n \in Good
  BY <1>3
<1> QED
  BY <1>4 DEF Good

LEMMA DescentEnds ==
  ASSUME NEW n \in Nat, NEW Stop, NEW W \in [1..n -> Nat], \A i \in 1..n : W[i] < i,
         NEW f, Descent(f, n, Stop, W)
  PROVE  \A i \in 0..n : f[i] \in 0..i /\ (f[i] = 0 \/ f[i] \in Stop)
<1> DEFINE Ok(i) == f[i] \in 0..i /\ (f[i] = 0 \/ f[i] \in Stop)
           Bad == {i \in 0..n : ~Ok(i)}
<1>1. SUFFICES ASSUME Bad # {} PROVE FALSE
  OBVIOUS
<1>2. PICK m \in Bad : \A k \in Bad : m <= k
  <2>1. Bad \in SUBSET Nat
    OBVIOUS
  <2> HIDE DEF Bad
  <2> QED
    BY <1>1, <2>1, LeastNatural
<1>3. m \in 0..n /\ ~Ok(m)
  BY <1>2
<1>4. CASE m = 0
  BY <1>3, <1>4 DEF Descent
<1>5. CASE m # 0 /\ m \in Stop
  <2>1. m \in 1..n
    BY <1>3, <1>5
  <2>2. f[m] = m
    BY <1>5, <2>1 DEF Descent
  <2> QED
    BY <1>3, <1>5, <2>2
<1>6. CASE m # 0 /\ m \notin Stop
  <2>1. m \in 1..n
    BY <1>3, <1>6
  <2>2. W[m] \in 0..n /\ W[m] < m
    BY <2>1
  <2>3. f[m] = f[W[m]]
    BY <1>6, <2>1 DEF Descent
  <2>4. Ok(W[m])
    BY <1>2, <2>2
  <2> QED
    BY <1>3, <2>2, <2>3, <2>4
<1> QED
  BY <1>4, <1>5, <1>6

\* The child an offset rests before is one of the document's, and before any child
\* that starts past the offset.
LEMMA WidthsChild ==
  ASSUME NEW d \in Seq(Entries), NEW offset
  PROVE  /\ widths_child(d, offset) \in Nat
         /\ Len(d) > 0 => widths_child(d, offset) < Len(d)
         /\ Len(d) = 0 => widths_child(d, offset) = 0
         /\ \A at \in 1..(Len(d) - 1) :
              offset \in Nat /\ offset < Start(d, at + 1) => widths_child(d, offset) < at
<1> DEFINE n == Len(d)
           S == {i \in DOMAIN d : Ends(d)[i] <= offset}
<1>1. n \in Nat /\ DOMAIN d = 1..n
  OBVIOUS
<1>2. \A k \in Nat : IsFiniteSet(1..k) /\ Cardinality(1..k) = k
  <2> TAKE k \in Nat
  <2>1. 1 \in Int /\ k \in Int
    OBVIOUS
  <2> QED
    BY <2>1, FS_Interval
<1>3. ASSUME NEW k \in Nat, S \subseteq 1..k
      PROVE  Cardinality(S) \in Nat /\ Cardinality(S) <= k
  <2> HIDE DEF S
  <2>1. IsFiniteSet(S) /\ Cardinality(S) <= Cardinality(1..k)
    BY <1>2, <1>3, FS_Subset
  <2> QED
    BY <1>2, <2>1, FS_CardinalityType
<1>4. widths_child(d, offset) = IF Cardinality(S) = 0 THEN 0 ELSE Cardinality(S) - 1
  BY DEF widths_child
<1>5. S \subseteq 1..n
  BY <1>1
<1>6. ASSUME NEW at \in 1..(n - 1), offset \in Nat, offset < Start(d, at + 1)
      PROVE  S \subseteq 1..at
  <2> DEFINE k == at + 1
  <2>1. k \in 1..n
    BY <1>1
  <2>2. Start(d, k) \in Nat /\ Start(d, k) <= Ends(d)[k] /\ Ends(d)[k] \in Nat
    BY <2>1, EndsRise, EndsSum
  <2>3. ASSUME NEW i \in S PROVE i \in 1..at
    <3>1. i \in 1..n /\ Ends(d)[i] <= offset /\ Ends(d)[i] \in Nat
      BY <1>1, EndsSum
    <3>2. k <= i => Ends(d)[k] <= Ends(d)[i]
      BY <1>1, <2>1, <3>1, EndsRise
    <3> QED
      BY <1>6, <2>1, <2>2, <3>1, <3>2
  <2> QED
    BY <2>3
<1> HIDE DEF S
<1>7. /\ widths_child(d, offset) \in Nat
      /\ n > 0 => widths_child(d, offset) < n
      /\ n = 0 => widths_child(d, offset) = 0
  BY <1>1, <1>3, <1>4, <1>5
<1>8. ASSUME NEW at \in 1..(n - 1), offset \in Nat, offset < Start(d, at + 1)
      PROVE  widths_child(d, offset) < at
  BY <1>3, <1>4, <1>6, <1>8
<1> QED
  BY <1>7, <1>8

LEMMA FirstIsLeast ==
  ASSUME NEW S \in SUBSET Nat, S # {}
  PROVE  First(S) \in S
<1>1. \E s \in S : \A s2 \in S : s <= s2
  BY LeastNatural
<1> QED
  BY <1>1 DEF First

\* The rest point: no reading that was noted spans it.
LEMMA RestRoot ==
  ASSUME NEW d \in Seq(Entries), NEW noted \in Reaches, NEW offset
  PROVE  LET rest == session_rest_root(d, noted, offset)
         IN  /\ rest \in 0..Len(d)
             /\ rest # 0 => rest < Len(d) /\ Spans(noted, Start(d, rest + 1)) = {}
<1> DEFINE n == Len(d)
           starts(at) == Spans(noted, Start(d, at + 1))
           Stop == {at \in 1..n : starts(at) = {} /\ ~(Ends(d)[at] > Start(d, at + 1))}
           W == [at \in 1..n |-> IF starts(at) # {} THEN widths_child(d, First(starts(at))) ELSE at - 1]
           Eq(f) == f = [at \in 0..n |->
                          IF at = 0 THEN 0
                          ELSE IF starts(at) # {} THEN f[widths_child(d, First(starts(at)))]
                          ELSE IF Ends(d)[at] > Start(d, at + 1) THEN f[at - 1] ELSE at]
<1>1. n \in Nat
  OBVIOUS
<1>2. ASSUME NEW at \in 1..n PROVE W[at] \in Nat /\ W[at] < at
  <2>1. CASE starts(at) = {}
    BY <2>1
  <2>2. CASE starts(at) # {}
    <3> DEFINE s == First(starts(at))
    <3>1. starts(at) \subseteq Nat /\ \A x \in starts(at) : x < Start(d, at + 1)
      BY DEF Spans, Reaches
    <3>2. s \in starts(at)
      <4> HIDE DEF starts
      <4> QED
        BY <2>2, <3>1, FirstIsLeast
    <3>3. s \in Nat /\ s < Start(d, at + 1)
      BY <3>1, <3>2
    <3> HIDE DEF s
    <3>4. W[at] = widths_child(d, s)
      BY <2>2 DEF s
    <3> HIDE DEF W
    <3>5. CASE at = n
      BY <1>1, <3>4, <3>5, WidthsChild
    <3>6. CASE at # n
      <4>1. at \in 1..(n - 1)
        BY <1>1, <3>6
      <4> QED
        BY <3>3, <3>4, <4>1, WidthsChild
    <3> QED
      BY <3>5, <3>6
  <2> QED
    BY <2>1, <2>2
<1>3. W \in [1..n -> Nat] /\ \A at \in 1..n : W[at] < at
  BY <1>2
<1>4. ASSUME NEW f
      PROVE  Eq(f) => Descent(f, n, Stop, W)
  <2>1. HAVE Eq(f)
  <2>2. f[0] = 0
    BY <1>1, <2>1
  <2>3. ASSUME NEW i \in 1..n PROVE f[i] = IF i \in Stop THEN i ELSE f[W[i]]
    <3>1. f[i] = IF starts(i) # {} THEN f[widths_child(d, First(starts(i)))]
                 ELSE IF Ends(d)[i] > Start(d, i + 1) THEN f[i - 1] ELSE i
      <4>1. i \in 0..n /\ i # 0
        BY <1>1
      <4> HIDE DEF starts
      <4>2. f[i] = IF i = 0 THEN 0
                   ELSE IF starts(i) # {} THEN f[widths_child(d, First(starts(i)))]
                   ELSE IF Ends(d)[i] > Start(d, i + 1) THEN f[i - 1] ELSE i
        BY <2>1, <4>1, Zenon
      <4> QED
        BY <4>1, <4>2
    <3>2. W[i] = IF starts(i) # {} THEN widths_child(d, First(starts(i))) ELSE i - 1
      OBVIOUS
    <3>3. i \in Stop <=> starts(i) = {} /\ ~(Ends(d)[i] > Start(d, i + 1))
      OBVIOUS
    <3> HIDE DEF W, Stop, starts
    <3> QED
      BY <3>1, <3>2, <3>3
  <2> HIDE DEF W, Stop, starts
  <2> QED
    BY <2>2, <2>3 DEF Descent
<1>5. \E f : Eq(f)
  <2>1. PICK f \in [0..n -> Nat] : Descent(f, n, Stop, W)
    <3> HIDE DEF W, Stop
    <3> QED
      BY <1>1, <1>3, DescentExists
  <2>2. ASSUME NEW i \in 0..n
        PROVE  f[i] = IF i = 0 THEN 0
                      ELSE IF starts(i) # {} THEN f[widths_child(d, First(starts(i)))]
                      ELSE IF Ends(d)[i] > Start(d, i + 1) THEN f[i - 1] ELSE i
    <3>1. CASE i = 0
      BY <2>1, <3>1 DEF Descent
    <3>2. CASE i # 0
      <4>1. i \in 1..n
        BY <3>2
      <4>2. f[i] = IF i \in Stop THEN i ELSE f[W[i]]
        <5> HIDE DEF W, Stop
        <5> QED
          BY <2>1, <4>1 DEF Descent
      <4>3. W[i] = IF starts(i) # {} THEN widths_child(d, First(starts(i))) ELSE i - 1
        BY <4>1
      <4>4. i \in Stop <=> starts(i) = {} /\ ~(Ends(d)[i] > Start(d, i + 1))
        BY <4>1
      <4> HIDE DEF W, Stop, starts
      <4> QED
        BY <3>2, <4>2, <4>3, <4>4
    <3> QED
      BY <3>1, <3>2
  <2>3. Eq(f)
    <3> HIDE DEF starts
    <3> QED
      BY <2>1, <2>2
  <2> QED
    BY <2>3
<1> DEFINE walk == CHOOSE f : Eq(f)
<1>6. session_rest_root(d, noted, offset) = walk[widths_child(d, offset)]
  BY DEF session_rest_root
<1>7. Eq(walk)
  <2> HIDE DEF Eq
  <2> QED
    BY <1>5
<1>8. Descent(walk, n, Stop, W)
  BY <1>4, <1>7, Zenon
<1> DEFINE from == widths_child(d, offset)
<1>9. from \in 0..n /\ (n > 0 => from < n)
  BY <1>1, WidthsChild
<1>10. walk[from] \in 0..from /\ (walk[from] = 0 \/ walk[from] \in Stop)
  <2> HIDE DEF walk, from, Stop, W
  <2> QED
    BY <1>1, <1>3, <1>8, <1>9, DescentEnds
<1> DEFINE rest == walk[from]
<1> HIDE DEF walk, from
<1>11. rest \in 0..n /\ (rest # 0 => rest < n)
  BY <1>1, <1>9, <1>10
<1>12. rest # 0 => starts(rest) = {}
  BY <1>10
<1> QED
  BY <1>6, <1>11, <1>12 DEF from
-------------------------------------------------------------------------------
(* A reading.  Its children lie apart, each starting a line, and end before *)
(* the line it reads; the one that is open is of every line from its first. *)

Children == [is : Blocks, start : Nat, end : Nat]
Readers == [line : Nat, children : Seq(Children), open : BOOLEAN, pending : BOOLEAN, reach : Reaches]

Apart(c) ==
  \A i \in 1..Len(c) : /\ c[i].start % Width = 0 /\ c[i].start <= c[i].end
                       /\ i > 1 => c[i - 1].end <= c[i].start

\* Children that lie apart up to `b'.
Laid(c, b) == c \in Seq(Children) /\ Apart(c) /\ (Len(c) > 0 => c[Len(c)].end <= b)

Filled(p, b) == p.end + 1 = b /\ p.start + Width * Len(p.is.lines) = b

Reader(r, b) ==
  /\ r \in Readers /\ Laid(r.children, b)
  /\ r.open => Len(r.children) > 0 /\ Filled(r.children[Len(r.children)], b)
  /\ r.pending => Len(r.children) > 0

LEMMA LaidFacts ==
  ASSUME NEW c, NEW b, Laid(c, b)
  PROVE  /\ Len(c) \in Nat
         /\ \A i \in 1..Len(c) :
              /\ c[i] \in Children /\ c[i].start \in Nat /\ c[i].end \in Nat /\ c[i].is \in Blocks
              /\ c[i].start % Width = 0 /\ c[i].start <= c[i].end
              /\ i > 1 => c[i - 1].end <= c[i].start
<1>1. c \in Seq(Children) /\ Apart(c)
  BY DEF Laid
<1>2. Len(c) \in Nat /\ \A i \in 1..Len(c) : c[i] \in Children
  BY <1>1
<1>3. \A x \in Children : x.start \in Nat /\ x.end \in Nat /\ x.is \in Blocks
  BY DEF Children
<1> QED
  BY <1>1, <1>2, <1>3 DEF Apart

LEMMA LaidAppend ==
  ASSUME NEW c, NEW a \in Nat, Laid(c, a), NEW b \in Nat, NEW x \in Children,
         x.start % Width = 0, a <= x.start, x.start <= x.end, x.end <= b
  PROVE  Laid(Append(c, x), b)
<1> DEFINE d == Append(c, x)
           n == Len(c)
<1>1. /\ c \in Seq(Children) /\ n \in Nat /\ d \in Seq(Children) /\ Len(d) = n + 1
      /\ \A i \in 1..n : d[i] = c[i]
      /\ d[n + 1] = x
  BY DEF Laid
<1>2. x.start \in Nat /\ x.end \in Nat
  BY DEF Children
<1> HIDE DEF d
<1>3. ASSUME NEW i \in 1..Len(d)
      PROVE  d[i].start % Width = 0 /\ d[i].start <= d[i].end /\ (i > 1 => d[i - 1].end <= d[i].start)
  <2>1. CASE i \in 1..n
    <3>1. i > 1 => i - 1 \in 1..n
      BY <1>1
    <3>2. c[i].start % Width = 0 /\ c[i].start <= c[i].end /\ (i > 1 => c[i - 1].end <= c[i].start)
      BY <2>1, LaidFacts
    <3> QED
      BY <1>1, <2>1, <3>1, <3>2
  <2>2. CASE i = n + 1
    <3>1. i > 1 => n \in 1..n /\ c[n].end \in Nat /\ c[n].end <= a /\ d[n] = c[n] /\ i - 1 = n
      BY <1>1, <2>2, LaidFacts DEF Laid
    <3>2. d[i] = x
      BY <1>1, <2>2
    <3> QED
      BY <1>2, <3>1, <3>2
  <2> QED
    BY <1>1, <2>1, <2>2
<1>4. d[Len(d)].end <= b
  BY <1>1
<1> QED
  BY <1>1, <1>3, <1>4 DEF Laid, Apart, d

\* Children with others after them.
LEMMA LaidConcat ==
  ASSUME NEW c, NEW a \in Nat, Laid(c, a), NEW d, NEW b \in Nat, Laid(d, b), a <= b,
         Len(d) > 0 => a <= d[1].start
  PROVE  Laid(c \o d, b)
<1> DEFINE e == c \o d
           n == Len(c)
           m == Len(d)
<1>1. /\ c \in Seq(Children) /\ d \in Seq(Children) /\ n \in Nat /\ m \in Nat
      /\ e \in Seq(Children) /\ Len(e) = n + m
      /\ \A i \in 1..n : e[i] = c[i]
      /\ \A i \in 1..(n + m) : i > n => e[i] = d[i - n]
  BY DEF Laid
<1> HIDE DEF e
<1>2. ASSUME NEW i \in 1..(n + m)
      PROVE  e[i].start % Width = 0 /\ e[i].start <= e[i].end /\ (i > 1 => e[i - 1].end <= e[i].start)
  <2>1. CASE i \in 1..n
    <3>1. i > 1 => i - 1 \in 1..n
      BY <1>1, <2>1
    <3>2. c[i].start % Width = 0 /\ c[i].start <= c[i].end /\ (i > 1 => c[i - 1].end <= c[i].start)
      BY <2>1, LaidFacts
    <3> QED
      BY <1>1, <2>1, <3>1, <3>2
  <2>2. CASE i > n
    <3> DEFINE j == i - n
    <3>1. j \in 1..m /\ e[i] = d[j]
      BY <1>1, <2>2
    <3>2. d[j].start % Width = 0 /\ d[j].start <= d[j].end /\ (j > 1 => d[j - 1].end <= d[j].start)
      BY <3>1, LaidFacts
    <3>3. CASE j > 1
      <4>1. i - 1 \in 1..(n + m) /\ i - 1 > n /\ (i - 1) - n = j - 1
        BY <1>1, <2>2, <3>3
      <4>2. e[i - 1] = d[j - 1]
        BY <1>1, <4>1
      <4> QED
        BY <3>1, <3>2, <3>3, <4>2
    <3>4. CASE j = 1 /\ i > 1
      <4>1. i - 1 = n /\ n \in 1..n /\ m > 0
        BY <1>1, <2>2, <3>1, <3>4
      <4>2. e[n] = c[n] /\ c[n].end <= a /\ c[n].end \in Nat
        BY <1>1, <4>1, LaidFacts DEF Laid
      <4>3. a <= d[j].start /\ d[j].start \in Nat
        BY <3>1, <3>4, <4>1, LaidFacts
      <4>4. e[i - 1].end <= e[i].start
        BY <3>1, <4>1, <4>2, <4>3
      <4> QED
        BY <3>1, <3>2, <4>4
    <3> QED
      BY <1>1, <3>1, <3>2, <3>3, <3>4
  <2> QED
    BY <1>1, <2>1, <2>2
<1>3. n + m > 0 => e[n + m].end <= b
  <2>1. CASE m = 0 /\ n > 0
    <3>1. n + m = n /\ n \in 1..n
      BY <1>1, <2>1
    <3>2. e[n] = c[n] /\ c[n].end <= a /\ c[n].end \in Nat
      BY <1>1, <2>1, <3>1, LaidFacts DEF Laid
    <3> QED
      BY <3>1, <3>2
  <2>2. CASE m > 0
    <3>1. n + m \in 1..(n + m) /\ n + m > n /\ (n + m) - n = m
      BY <1>1, <2>2
    <3>2. e[n + m] = d[m]
      BY <1>1, <3>1
    <3> QED
      BY <2>2, <3>2 DEF Laid
  <2> QED
    BY <1>1, <2>1, <2>2
<1> QED
  BY <1>1, <1>2, <1>3 DEF Laid, Apart, e

\* The last child changed, from where it starts.
LEMMA LaidLast ==
  ASSUME NEW c, NEW a, Laid(c, a), Len(c) > 0, NEW b \in Nat, NEW x \in Children,
         x.start = c[Len(c)].start, x.start <= x.end, x.end <= b
  PROVE  Laid([c EXCEPT ![Len(c)] = x], b)
<1> DEFINE d == [c EXCEPT ![Len(c)] = x]
           n == Len(c)
<1>1. /\ c \in Seq(Children) /\ n \in Nat /\ n \in 1..n /\ d \in Seq(Children) /\ Len(d) = n
      /\ \A i \in 1..n : d[i] = IF i = n THEN x ELSE c[i]
  BY DEF Laid
<1> HIDE DEF d
<1>2. ASSUME NEW i \in 1..n
      PROVE  d[i].start % Width = 0 /\ d[i].start <= d[i].end /\ (i > 1 => d[i - 1].end <= d[i].start)
  <2>1. c[i].start % Width = 0 /\ c[i].start <= c[i].end /\ (i > 1 => c[i - 1].end <= c[i].start)
    BY LaidFacts
  <2>2. i > 1 => i - 1 \in 1..n /\ i - 1 # n
    BY <1>1
  <2>3. i > 1 => d[i - 1] = c[i - 1]
    BY <1>1, <2>2
  <2> QED
    BY <1>1, <2>1, <2>3
<1> QED
  BY <1>1, <1>2 DEF Laid, Apart, d

LEMMA LaidFront ==
  ASSUME NEW c, NEW a, Laid(c, a), Len(c) > 0
  PROVE  Laid(Front(c), c[Len(c)].start)
<1> DEFINE d == Front(c)
           n == Len(c)
<1>1. c \in Seq(Children) /\ n \in Nat /\ n > 0
  BY DEF Laid
<1>2. d \in Seq(Children) /\ Len(d) = n - 1 /\ \A i \in 1..(n - 1) : d[i] = c[i]
  <2>1. d = SubSeq(c, 1, n - 1)
    BY DEF Front
  <2> HIDE DEF d
  <2>2. n - 1 \in Int /\ 1 \in Int /\ \A i \in 1..(n - 1) : c[i] \in Children
    BY <1>1
  <2> DEFINE m == n - 1
  <2>3. m \in Nat /\ m = n - 1
    BY <1>1
  <2> HIDE DEF m
  <2>4. SubSeq(c, 1, m) \in Seq(Children) /\ Len(SubSeq(c, 1, m)) = (IF 1 <= m THEN m - 1 + 1 ELSE 0)
        /\ \A i \in 1..(m - 1 + 1) : SubSeq(c, 1, m)[i] = c[1 + i - 1]
    BY <2>2, <2>3, SubSeqProperties
  <2>5. \A i \in 1..m : 1 + i - 1 = i
    BY <2>3
  <2>6. m - 1 + 1 = m
    BY <2>3
  <2> QED
    BY <2>1, <2>3, <2>4, <2>5, <2>6
<1> HIDE DEF d
<1>3. ASSUME NEW i \in 1..(n - 1)
      PROVE  d[i].start % Width = 0 /\ d[i].start <= d[i].end /\ (i > 1 => d[i - 1].end <= d[i].start)
  <2>1. i \in 1..n /\ (i > 1 => i - 1 \in 1..(n - 1))
    BY <1>1
  <2>2. c[i].start % Width = 0 /\ c[i].start <= c[i].end /\ (i > 1 => c[i - 1].end <= c[i].start)
    BY <2>1, LaidFacts
  <2> QED
    BY <1>2, <2>1, <2>2
<1>4. n - 1 > 0 => d[n - 1].end <= c[n].start
  <2>1. n - 1 > 0 => n \in 1..n /\ n > 1 /\ n - 1 \in 1..(n - 1)
    BY <1>1
  <2> QED
    BY <1>2, <2>1, LaidFacts
<1> QED
  BY <1>2, <1>3, <1>4 DEF Laid, Apart, d

LEMMA LaidMore ==
  ASSUME NEW c, NEW a \in Nat, Laid(c, a), NEW b \in Nat, a <= b
  PROVE  Laid(c, b)
<1>1. Len(c) > 0 => c[Len(c)].end \in Nat
  BY LaidFacts
<1> QED
  BY <1>1 DEF Laid
LEMMA ReaderFacts ==
  ASSUME NEW r, NEW b, Reader(r, b)
  PROVE  /\ r.line \in Nat /\ r.children \in Seq(Children) /\ Len(r.children) \in Nat
         /\ r.open \in BOOLEAN /\ r.pending \in BOOLEAN /\ r.reach \in Reaches
         /\ Laid(r.children, b)
         /\ Len(r.children) > 0 =>
              LET p == r.children[Len(r.children)]
              IN p \in Children /\ p.start \in Nat /\ p.end \in Nat /\ p.is \in Blocks /\ p.start <= p.end
<1>1. r \in Readers /\ Laid(r.children, b)
  BY DEF Reader
<1>2. /\ r.line \in Nat /\ r.children \in Seq(Children)
      /\ r.open \in BOOLEAN /\ r.pending \in BOOLEAN /\ r.reach \in Reaches
  BY <1>1 DEF Readers
<1>3. Len(r.children) \in Nat
  BY <1>2
<1>4. Len(r.children) > 0 => Len(r.children) \in 1..Len(r.children)
  BY <1>3
<1> QED
  BY <1>1, <1>2, <1>3, <1>4, LaidFacts

LEMMA NoteKeeps ==
  ASSUME NEW r, NEW b, Reader(r, b), NEW start \in Nat, NEW end \in Int
  PROVE  LET s == Note(r, start, end)
         IN  /\ Reader(s, b)
             /\ s.line = r.line /\ s.children = r.children /\ s.open = r.open /\ s.pending = r.pending
<1> DEFINE s == Note(r, start, end)
<1>1. r \in Readers
  BY DEF Reader
<1>2. r.reach \cup {<<start, end>>} \in Reaches
  BY <1>1 DEF Readers, Reaches
<1>3. /\ s \in Readers
      /\ s.line = r.line /\ s.children = r.children /\ s.open = r.open /\ s.pending = r.pending
  <2> HIDE DEF Reader
  <2> QED
    BY <1>1, <1>2 DEF Readers, Note
<1> HIDE DEF s
<1> QED
  BY <1>3 DEF Reader, s

LEMMA LookedKeeps ==
  ASSUME NEW r, NEW b, Reader(r, b), NEW from \in Nat, NEW last \in Int
  PROVE  LET s == Looked(r, from, last)
         IN  /\ Reader(s, b)
             /\ s.line = r.line /\ s.children = r.children /\ s.open = r.open /\ s.pending = r.pending
<1>1. LineStart(last + 1) \in Int
  BY DEF LineStart, Width
<1>2. CASE last > r.line + 1
  BY <1>1, <1>2, NoteKeeps DEF Looked
<1>3. CASE ~(last > r.line + 1)
  BY <1>3 DEF Looked
<1> QED
  BY <1>2, <1>3

LEMMA AheadIs ==
  ASSUME NEW t \in Seq(LineKinds), NEW from \in Nat, NEW kinds
  PROVE  Ahead(t, from, kinds) \in Int
<1> DEFINE S == {n \in from..(Len(t) - 1) : t[n + 1] \in kinds}
<1>1. S \in SUBSET Nat /\ S \subseteq Int /\ Len(t) - 1 \in Int
  OBVIOUS
<1>2. Ahead(t, from, kinds) = IF S = {} THEN Len(t) - 1 ELSE CHOOSE n \in S : \A m \in S : n <= m
  BY DEF Ahead
<1> HIDE DEF S
<1>3. S # {} => \E n \in S : \A m \in S : n <= m
  BY <1>1, LeastNatural
<1>4. S # {} => (CHOOSE n \in S : \A m \in S : n <= m) \in S
  BY <1>3
<1>5. S # {} => (CHOOSE n \in S : \A m \in S : n <= m) \in Int
  <2> DEFINE x == CHOOSE n \in S : \A m \in S : n <= m
  <2>1. S # {} => x \in S
    BY <1>4
  <2> HIDE DEF x
  <2>2. S # {} => x \in Int
    BY <1>1, <2>1
  <2> QED
    BY <2>2 DEF x
<1> QED
  BY <1>1, <1>2, <1>5

\* The start of a line.
LEMMA FourParts ==
  ASSUME NEW x \in Nat, x % 4 = 0
  PROVE  x \div 4 \in Nat /\ x = 4 * (x \div 4)
OBVIOUS

LEMMA FourTimes ==
  ASSUME NEW k \in Nat
  PROVE  (4 * k) % 4 = 0
OBVIOUS

\* What a paragraph yields lies where it lay: its definitions, then what is left.
LEMMA ResolvedLies ==
  ASSUME NEW p \in Children, NEW b \in Nat, p.start % Width = 0, Filled(p, b)
  PROVE  LET y == Resolved(p)
         IN  /\ y.left \in BOOLEAN /\ y.refs \in Seq(Children) /\ y.rest \in Children /\ y.rest.start \in Nat
             /\ Laid(y.refs \o (IF y.left THEN <<y.rest>> ELSE << >>), b)
             /\ LET c == y.refs \o (IF y.left THEN <<y.rest>> ELSE << >>)
                IN  Len(c) > 0 => p.start <= c[1].start
             /\ y.left => Len(y.refs \o (IF y.left THEN <<y.rest>> ELSE << >>)) > 0
<1> DEFINE n == Len(p.is.lines)
           Is(d) == (d = n \/ p.is.lines[d + 1] # "def") /\ \A i \in 1..d : p.is.lines[i] = "def"
           S == {d \in 0..n : d = n \/ p.is.lines[d + 1] # "def"}
           defs == CHOOSE d \in 0..n : Is(d)
<1>1. /\ p.start \in Nat /\ p.end \in Nat /\ p.is \in Blocks /\ p.is.lines \in Seq(LineKinds) /\ n \in Nat
      /\ p.end + 1 = b /\ p.start + 4 * n = b
  BY DEF Children, Blocks, Filled, Width
<1>2. \E d \in 0..n : Is(d)
  <2>1. S \in SUBSET Nat /\ S # {}
    <3>1. n \in S
      BY <1>1
    <3>2. S \subseteq 0..n
      OBVIOUS
    <3> HIDE DEF S
    <3> QED
      BY <1>1, <3>1, <3>2
  <2>2. PICK d \in S : \A k \in S : d <= k
    <3> HIDE DEF S
    <3> QED
      BY <2>1, LeastNatural
  <2>3. d \in 0..n /\ (d = n \/ p.is.lines[d + 1] # "def")
    OBVIOUS
  <2>4. ASSUME NEW i \in 1..d PROVE p.is.lines[i] = "def"
    <3>1. i - 1 \in 0..n /\ i - 1 < d /\ (i - 1) + 1 = i
      BY <1>1, <2>3
    <3> DEFINE j == i - 1
    <3>2. j \in 0..n /\ j < d /\ j + 1 = i /\ j # n
      BY <1>1, <2>3, <3>1
    <3> HIDE DEF j
    <3>3. j \notin S
      <4> HIDE DEF S
      <4> QED
        BY <1>1, <2>2, <2>3, <3>2
    <3> QED
      BY <3>2, <3>3
  <2> QED
    BY <2>3, <2>4
<1>3. defs \in 0..n
  BY <1>2
<1>4. PICK line \in Nat : line = p.start \div Width /\ p.start = 4 * line
  <2>1. PICK x \in Nat : x = p.start
    BY <1>1
  <2>2. x % 4 = 0
    BY <2>1 DEF Width
  <2>3. x \div 4 \in Nat /\ x = 4 * (x \div 4)
    BY <2>2, FourParts
  <2> QED
    BY <2>1, <2>3 DEF Width
<1> DEFINE ref(i) == [is |-> What("ref", "def"), start |-> LineStart(line + i - 1), end |-> LineEnd(line + i - 1)]
           refs == [i \in 1..defs |-> ref(i)]
           rest == [p EXCEPT !.is.lines = SubSeq(@, defs + 1, n), !.start = @ + LineStart(defs)]
           y == Resolved(p)
<1>5. y.refs = refs /\ (y.left <=> defs < n) /\ y.rest = rest
  BY <1>4 DEF Resolved
<1>13. y.left \in BOOLEAN
  BY DEF Resolved
<1> HIDE DEF defs
<1>6. refs \in Seq(Children) /\ Len(refs) = defs
  <2>1. ASSUME NEW i \in 1..defs PROVE ref(i) \in Children
    <3>1. What("ref", "def") \in Blocks
      <4>1. <<"def">> \in Seq(LineKinds)
        BY DEF LineKinds
      <4> QED
        BY <4>1 DEF What, Blocks, BlockKinds
    <3>2. LineStart(line + i - 1) \in Nat /\ LineEnd(line + i - 1) \in Nat
      BY <1>3 DEF LineStart, LineEnd, Width
    <3> QED
      BY <3>1, <3>2 DEF Children
  <2> HIDE DEF ref
  <2> QED
    BY <1>3, <2>1
<1>7. \A i \in 1..defs : refs[i].start = 4 * (line + i - 1) /\ refs[i].end = 4 * (line + i - 1) + 3
  BY DEF LineStart, LineEnd, Width
<1> HIDE DEF refs
<1>8. Laid(refs, p.start + 4 * defs)
  <2>1. ASSUME NEW i \in 1..defs
        PROVE  refs[i].start % Width = 0 /\ refs[i].start <= refs[i].end /\ (i > 1 => refs[i - 1].end <= refs[i].start)
    <3>1. PICK k \in Nat : k = line + i - 1
      BY <1>3
    <3>2. refs[i].start = 4 * k /\ refs[i].end = 4 * k + 3
      BY <1>7, <3>1
    <3>3. i > 1 => i - 1 \in 1..defs /\ line + (i - 1) - 1 = k - 1
      BY <1>3, <3>1
    <3>4. i > 1 => refs[i - 1].end = 4 * (k - 1) + 3
      BY <1>7, <3>3
    <3>5. (4 * k) % 4 = 0
      BY <3>1
    <3> QED
      BY <3>1, <3>2, <3>4, <3>5 DEF Width
  <2>2. defs > 0 => refs[defs].end <= p.start + 4 * defs
    <3>1. defs > 0 => defs \in 1..defs
      BY <1>3
    <3>2. defs > 0 => refs[defs].end = 4 * (line + defs - 1) + 3
      BY <1>7, <3>1
    <3> QED
      BY <1>1, <1>3, <1>4, <3>2
  <2> QED
    BY <1>6, <2>1, <2>2 DEF Laid, Apart
<1>9. rest \in Children /\ rest.start = p.start + 4 * defs /\ rest.end = p.end
  <2>1. SubSeq(p.is.lines, defs + 1, n) \in Seq(LineKinds)
    <3>1. defs + 1 \in Int /\ n \in Int /\ \A i \in (defs + 1)..n : p.is.lines[i] \in LineKinds
      BY <1>1, <1>3
    <3> QED
      BY <3>1, SubSeqProperties
  <2>2. p.start + LineStart(defs) = p.start + 4 * defs /\ p.start + 4 * defs \in Nat
    BY <1>1, <1>3 DEF LineStart, Width
  <2>3. [p.is EXCEPT !.lines = SubSeq(p.is.lines, defs + 1, n)] \in Blocks
    BY <1>1, <2>1 DEF Blocks
  <2> QED
    BY <1>1, <2>2, <2>3 DEF Children
<1>10. (p.start + 4 * defs) % Width = 0 /\ p.start + 4 * defs \in Nat
  <2>1. PICK k \in Nat : k = line + defs
    BY <1>3
  <2>2. p.start + 4 * defs = 4 * k
    <3>1. PICK m \in Nat : m = defs
      BY <1>3
    <3>2. 4 * line + 4 * m = 4 * (line + m)
      OBVIOUS
    <3> QED
      BY <1>4, <2>1, <3>1, <3>2
  <2>3. (4 * k) % 4 = 0 /\ 4 * k \in Nat
    BY FourTimes
  <2> QED
    BY <2>2, <2>3 DEF Width
<1> HIDE DEF rest, ref, S, Is
<1>11. CASE ~(defs < n)
  <2>1. p.start + 4 * defs = b
    BY <1>1, <1>3, <1>11
  <2>2. Len(refs) > 0 => refs[1].start = p.start
    <3>1. defs > 0 => 1 \in 1..defs
      BY <1>3
    <3> QED
      BY <1>1, <1>4, <1>6, <1>7, <3>1
  <2>3. refs \o << >> = refs
    BY <1>6
  <2>4. ~y.left
    BY <1>5, <1>11
  <2>5. y.refs \o (IF y.left THEN <<y.rest>> ELSE << >>) = refs
    BY <1>5, <2>3, <2>4
  <2>6. Laid(refs, b)
    BY <1>8, <2>1
  <2>7. y.rest.start \in Nat /\ y.refs \in Seq(Children) /\ y.rest \in Children
    BY <1>5, <1>6, <1>9, <1>10
  <2>8. Len(refs) > 0 => p.start <= refs[1].start
    BY <1>1, <2>2
  <2> QED
    BY <1>13, <2>4, <2>5, <2>6, <2>7, <2>8
<1>12. CASE defs < n
  <2> DEFINE d == <<rest>>
  <2>1. Laid(d, b)
    <3>1. d \in Seq(Children) /\ Len(d) = 1 /\ d[1] = rest
      BY <1>9
    <3>2. rest.start <= rest.end /\ rest.end <= b /\ rest.start % Width = 0
      <4>1. rest.start % Width = 0
        BY <1>9, <1>10
      <4>2. PICK x \in Nat : x = p.start
        BY <1>1
      <4>3. x + 4 * defs <= p.end /\ p.end <= b
        <5>1. PICK z \in Nat : z = p.end
          BY <1>1
        <5>2. PICK l \in Nat : l = n
          BY <1>1
        <5>3. PICK m \in Nat : m = defs
          BY <1>3
        <5>4. z + 1 = b /\ x + 4 * l = b /\ m < l
          BY <1>1, <1>12, <4>2, <5>1, <5>2, <5>3
        <5>5. x + 4 * m <= z /\ z <= b
          BY <5>4
        <5> QED
          BY <5>1, <5>3, <5>5
      <4> QED
        BY <1>9, <4>1, <4>2, <4>3
    <3> HIDE DEF d
    <3>3. ASSUME NEW i \in 1..Len(d)
          PROVE  d[i].start % Width = 0 /\ d[i].start <= d[i].end /\ (i > 1 => d[i - 1].end <= d[i].start)
      <4>1. i = 1
        BY <3>1
      <4> QED
        BY <3>1, <3>2, <4>1
    <3> QED
      BY <3>1, <3>2, <3>3 DEF Laid, Apart
  <2>2. d[1].start = p.start + 4 * defs /\ p.start + 4 * defs <= b
    BY <1>1, <1>3, <1>9, <1>12
  <2>3. Laid(refs \o d, b)
    <3> HIDE DEF d
    <3> QED
      BY <1>8, <1>10, <2>1, <2>2, LaidConcat
  <2>4. Len(refs \o d) > 0 /\ p.start <= (refs \o d)[1].start
    <3>1. Len(refs \o d) = defs + 1
      BY <1>3, <1>6, <1>9
    <3>2. CASE defs = 0
      <4>1. (refs \o d)[1] = rest
        BY <1>6, <1>9, <3>2
      <4>2. rest.start = p.start
        BY <1>1, <1>9, <3>2
      <4> QED
        BY <1>1, <3>1, <3>2, <4>1, <4>2
    <3>3. CASE defs > 0
      <4>1. (refs \o d)[1] = refs[1] /\ 1 \in 1..defs
        BY <1>3, <1>6, <1>9, <3>3
      <4>2. refs[1].start = 4 * (line + 1 - 1)
        BY <1>7, <4>1
      <4>3. refs[1].start = p.start
        <5>1. line + 1 - 1 = line
          OBVIOUS
        <5> QED
          BY <1>4, <4>2, <5>1
      <4> QED
        BY <1>1, <1>3, <3>1, <4>1, <4>3
    <3> QED
      BY <1>3, <3>2, <3>3
  <2>5. y.left
    BY <1>5, <1>12
  <2>6. y.refs \o (IF y.left THEN <<y.rest>> ELSE << >>) = refs \o d
    BY <1>5, <2>5
  <2>7. y.rest.start \in Nat /\ y.refs \in Seq(Children) /\ y.rest \in Children
    BY <1>5, <1>6, <1>9, <1>10
  <2> HIDE DEF d, y
  <2> QED
    BY <1>13, <2>3, <2>4, <2>5, <2>6, <2>7 DEF y
<1> QED
  BY <1>11, <1>12
\* A reader's fields changed, and not its line.
LEMMA ReaderWith ==
  ASSUME NEW r \in Readers, NEW c \in Seq(Children), NEW o \in BOOLEAN, NEW q \in BOOLEAN
  PROVE  LET s == [r EXCEPT !.children = c, !.open = o, !.pending = q]
         IN  s \in Readers /\ s.line = r.line /\ s.children = c /\ s.open = o /\ s.pending = q /\ s.reach = r.reach
BY DEF Readers

LEMMA CloseKeeps ==
  ASSUME NEW r, NEW b \in Nat, Reader(r, b), r.open, NEW at \in Int
  PROVE  LET s == S_close_current(r, at)
         IN  Reader(s, b) /\ ~s.open /\ s.line = r.line
<1> DEFINE n == Len(r.children)
           p == r.children[n]
           noted == [Note(r, p.start, at + 1) EXCEPT !.open = FALSE, !.pending = TRUE]
           y == Resolved(p)
           s == S_close_current(r, at)
           tail == y.refs \o (IF y.left THEN <<y.rest>> ELSE << >>)
<1>1. /\ n \in Nat /\ n > 0 /\ p \in Children /\ p.start \in Nat /\ Filled(p, b) /\ Laid(r.children, b)
      /\ p.start % Width = 0 /\ p.start <= p.end /\ p.end <= b /\ r.children \in Seq(Children)
  <2>1. n \in Nat /\ n > 0 /\ Filled(p, b) /\ Laid(r.children, b)
    BY ReaderFacts DEF Reader
  <2>2. n \in 1..n
    BY <2>1
  <2> HIDE DEF n
  <2> QED
    BY <2>1, <2>2, LaidFacts DEF Laid, n
<1>2. at + 1 \in Int
  OBVIOUS
<1>3. /\ Reader(noted, b) /\ ~noted.open /\ noted.line = r.line /\ noted.pending
      /\ noted.children = r.children
  <2> DEFINE m == Note(r, p.start, at + 1)
  <2>1. Reader(m, b) /\ m.line = r.line /\ m.children = r.children
    BY <1>1, <1>2, NoteKeeps
  <2> HIDE DEF m
  <2>2. m \in Readers /\ Laid(m.children, b)
    BY <2>1 DEF Reader
  <2>3. LET z == [m EXCEPT !.open = FALSE, !.pending = TRUE]
        IN  z \in Readers /\ z.line = m.line /\ z.children = m.children /\ ~z.open /\ z.pending
    BY <2>2 DEF Readers
  <2>4. noted = [m EXCEPT !.open = FALSE, !.pending = TRUE]
    BY DEF m
  <2> HIDE DEF noted, n, p
  <2> QED
    BY <1>1, <2>1, <2>2, <2>3, <2>4 DEF Reader, n
<1>4. CASE p.is.kind # "para" \/ y.refs = << >>
  <2>1. s = noted
    BY <1>4 DEF S_close_current, Last
  <2> QED
    BY <1>3, <2>1
<1>5. CASE ~(p.is.kind # "para" \/ y.refs = << >>)
  <2> DEFINE cut == IF y.left THEN Note(noted, p.start, y.rest.start + 1) ELSE noted
             c == Front(r.children) \o y.refs \o (IF y.left THEN <<y.rest>> ELSE << >>)
  <2>1. /\ y.rest.start \in Nat /\ Laid(tail, b) /\ (Len(tail) > 0 => p.start <= tail[1].start)
        /\ (y.left => Len(tail) > 0)
        /\ y.left \in BOOLEAN /\ y.refs \in Seq(Children) /\ y.rest \in Children
    <3> HIDE DEF p
    <3> QED
      BY <1>1, ResolvedLies
  <2>2. Reader(cut, b) /\ ~cut.open /\ cut.line = r.line /\ cut.children = r.children
    <3>1. y.rest.start + 1 \in Int
      BY <2>1
    <3> HIDE DEF noted, y, p
    <3>2. CASE y.left
      BY <1>1, <1>3, <2>1, <3>1, <3>2, NoteKeeps
    <3>3. CASE ~y.left
      BY <1>3, <3>3
    <3> QED
      BY <3>2, <3>3
  <2>3. s = [cut EXCEPT !.children = Front(@) \o y.refs \o (IF y.left THEN <<y.rest>> ELSE << >>), !.pending = y.left]
    BY <1>5 DEF S_close_current, Last
  <2>5. c = Front(r.children) \o tail
    <3>1. Front(r.children) \in Seq(Children)
      BY <1>1, LaidFront DEF Laid
    <3>2. tail \in Seq(Children)
      BY <2>1 DEF Laid
    <3>3. (IF y.left THEN <<y.rest>> ELSE << >>) \in Seq(Children)
      <4> HIDE DEF y
      <4> QED
        BY <2>1
    <3> DEFINE f == Front(r.children)
               g == y.refs
               h == IF y.left THEN <<y.rest>> ELSE << >>
    <3>4. f \o g \o h = f \o (g \o h)
      <4>1. f \in Seq(Children) /\ g \in Seq(Children) /\ h \in Seq(Children)
        BY <2>1, <3>1, <3>3
      <4> HIDE DEF f, g, h
      <4> QED
        BY <4>1, ConcatAssociative
    <3> QED
      BY <3>4
  <2>6. Laid(c, b)
    <3>1. Laid(Front(r.children), p.start)
      BY <1>1, LaidFront
    <3>2. p.start <= b
      <4>1. p.end \in Nat
        BY <1>1 DEF Children
      <4> HIDE DEF p
      <4> QED
        BY <1>1, <4>1
    <3> HIDE DEF c, tail, p
    <3> QED
      BY <1>1, <2>1, <2>5, <3>1, <3>2, LaidConcat
  <2>7. y.left => Len(c) > 0
    <3>1. Front(r.children) \in Seq(Children) /\ tail \in Seq(Children)
      BY <1>1, <2>1, LaidFront DEF Laid
    <3>2. Len(c) = Len(Front(r.children)) + Len(tail)
      <4> HIDE DEF c, tail
      <4> QED
        BY <2>5, <3>1
    <3>3. Len(Front(r.children)) \in Nat /\ Len(tail) \in Nat
      <4> HIDE DEF tail
      <4> QED
        BY <3>1, LenProperties
    <3> HIDE DEF c, tail
    <3> QED
      BY <2>1, <3>2, <3>3
  <2>8. cut \in Readers /\ c \in Seq(Children)
    BY <2>2, <2>6 DEF Reader, Laid
  <2>9. s = [cut EXCEPT !.children = c, !.pending = y.left]
    BY <2>2, <2>3
  <2> HIDE DEF cut, c, y, s
  <2>10. s \in Readers /\ s.children = c /\ s.open = cut.open /\ s.line = cut.line /\ s.pending = y.left
    BY <2>1, <2>8, <2>9 DEF Readers
  <2> QED
    BY <2>2, <2>6, <2>7, <2>10 DEF Reader, s
<1> QED
  BY <1>4, <1>5

LEMMA ClosedKeeps ==
  ASSUME NEW r, NEW b \in Nat, Reader(r, b), NEW at \in Int
  PROVE  LET s == Closed(r, at)
         IN  Reader(s, b) /\ ~s.open /\ s.line = r.line
<1>1. CASE r.open
  BY <1>1, CloseKeeps DEF Closed
<1>2. CASE ~r.open
  BY <1>2 DEF Closed
<1> QED
  BY <1>1, <1>2

LEMMA LineBounds ==
  ASSUME NEW n \in Nat
  PROVE  /\ LineStart(n) \in Nat /\ LineEnd(n) \in Nat /\ LineStart(n) % Width = 0 /\ LineStart(n) <= LineEnd(n)
         /\ LineStart(n + 1) \in Nat /\ LineEnd(n) + 1 = LineStart(n + 1) /\ LineEnd(n) <= LineStart(n + 1)
         /\ LineStart(n) + Width = LineStart(n + 1) /\ LineStart(n) <= LineStart(n + 1)
<1>1. (4 * n) % 4 = 0
  BY FourTimes
<1> QED
  BY <1>1 DEF LineStart, LineEnd, Width

LEMMA OpenedKeeps ==
  ASSUME NEW r, Reader(r, LineStart(r.line)), NEW kind \in BlockKinds, NEW line \in LineKinds
  PROVE  LET s == Opened(r, kind, line)
         IN  Reader(s, LineStart(r.line + 1)) /\ s.line = r.line
<1> DEFINE at == LineStart(r.line)
           child == [is |-> What(kind, line), start |-> at, end |-> LineEnd(r.line)]
           k == Closed(r, at)
           s == Opened(r, kind, line)
           c == Append(k.children, child)
           b == LineStart(r.line + 1)
<1>1. /\ r.line \in Nat /\ at \in Nat /\ LineEnd(r.line) \in Nat /\ b \in Nat /\ at % Width = 0
      /\ at <= LineEnd(r.line) /\ LineEnd(r.line) <= b /\ LineEnd(r.line) + 1 = b /\ at + Width = b /\ at \in Int
  <2>1. r.line \in Nat
    BY ReaderFacts
  <2> QED
    BY <2>1, LineBounds
<1>2. Reader(k, at) /\ k.line = r.line
  BY <1>1, ClosedKeeps
<1>3. <<line>> \in Seq(LineKinds) /\ Len(<<line>>) = 1
  OBVIOUS
<1>4. /\ child \in Children /\ child.start = at /\ child.end = LineEnd(r.line) /\ Len(child.is.lines) = 1
  BY <1>1, <1>3 DEF Children, Blocks, What
<1>5. s = [k EXCEPT !.children = Append(@, child), !.open = TRUE, !.pending = FALSE]
  BY DEF Opened
<1>6. k \in Readers /\ Laid(k.children, at) /\ k.children \in Seq(Children)
  BY <1>2 DEF Reader, Laid
<1> HIDE DEF k, child
<1>7. Laid(c, b)
  <2> HIDE DEF b, at
  <2> QED
    BY <1>1, <1>4, <1>6, LaidAppend
<1>8. c \in Seq(Children) /\ Len(c) > 0 /\ c[Len(c)] = child
  BY <1>4, <1>6
<1>9. s = [k EXCEPT !.children = c, !.open = TRUE, !.pending = FALSE]
  BY <1>5
<1> HIDE DEF c, s
<1>10. s \in Readers /\ s.line = k.line /\ s.children = c /\ s.open = TRUE /\ s.pending = FALSE
  BY <1>6, <1>8, <1>9 DEF Readers
<1>11. Filled(child, b)
  <2> HIDE DEF b, at
  <2>1. Width * 1 = Width
    BY DEF Width
  <2> QED
    BY <1>1, <1>4, <2>1 DEF Filled
<1> HIDE DEF b
<1>12. Reader(s, b)
  BY <1>7, <1>8, <1>10, <1>11 DEF Reader
<1> QED
  BY <1>2, <1>10, <1>12 DEF s, b

LEMMA AddedKeeps ==
  ASSUME NEW r, Reader(r, LineStart(r.line)), r.open, NEW line \in LineKinds
  PROVE  LET s == Added(r, line)
         IN  Reader(s, LineStart(r.line + 1)) /\ s.line = r.line /\ s.open
<1> DEFINE n == Len(r.children)
           p == r.children[n]
           x == [p EXCEPT !.is.lines = Append(@, line), !.end = LineEnd(r.line)]
           c == [r.children EXCEPT ![n] = x]
           s == Added(r, line)
           at == LineStart(r.line)
           b == LineStart(r.line + 1)
<1>1. /\ r.line \in Nat /\ at \in Nat /\ LineEnd(r.line) \in Nat /\ b \in Nat
      /\ at <= LineEnd(r.line) /\ LineEnd(r.line) <= b /\ LineEnd(r.line) + 1 = b /\ at + Width = b
  <2>1. r.line \in Nat
    BY ReaderFacts
  <2> QED
    BY <2>1, LineBounds
<1>2. /\ n \in Nat /\ n > 0 /\ p \in Children /\ p.start \in Nat /\ p.end \in Nat /\ p.is \in Blocks /\ Filled(p, at)
      /\ Laid(r.children, at) /\ r.children \in Seq(Children) /\ p.start <= p.end /\ r \in Readers
  BY ReaderFacts DEF Reader
<1>3. /\ x \in Children /\ x.start = p.start /\ x.end = LineEnd(r.line) /\ x.is.lines = Append(p.is.lines, line)
  <2>1. p.is.lines \in Seq(LineKinds)
    BY <1>2 DEF Blocks
  <2>2. Append(p.is.lines, line) \in Seq(LineKinds)
    BY <2>1
  <2>3. [p.is EXCEPT !.lines = Append(p.is.lines, line)] \in Blocks
    BY <1>2, <2>2 DEF Blocks
  <2> HIDE DEF p
  <2>4. x = [p EXCEPT !.is = [p.is EXCEPT !.lines = Append(p.is.lines, line)], !.end = LineEnd(r.line)]
    BY <1>2 DEF Children
  <2>5. [p.is EXCEPT !.lines = Append(p.is.lines, line)].lines = Append(p.is.lines, line)
    BY <1>2 DEF Blocks
  <2> HIDE DEF x
  <2> QED
    BY <1>1, <1>2, <2>3, <2>4, <2>5 DEF Children
<1>4. s = [r EXCEPT !.children = c]
  BY <1>2 DEF Added, Last
<1>5. p.is.lines \in Seq(LineKinds) /\ Len(p.is.lines) \in Nat /\ Len(x.is.lines) = Len(p.is.lines) + 1
  <2>1. p.is.lines \in Seq(LineKinds)
    BY <1>2 DEF Blocks
  <2> HIDE DEF p, x
  <2> QED
    BY <1>3, <2>1
<1> HIDE DEF x, b, at
<1>6. Filled(x, b)
  <2> HIDE DEF p
  <2>1. PICK l \in Nat : l = Len(p.is.lines)
    BY <1>5
  <2>2. PICK z \in Nat : z = p.start
    BY <1>2
  <2>3. z + 4 * l = at
    BY <1>2, <2>1, <2>2 DEF Filled, Width
  <2>4. z + 4 * (l + 1) = b
    BY <1>1, <2>3 DEF Width
  <2> QED
    BY <1>1, <1>3, <1>5, <2>1, <2>2, <2>4 DEF Filled, Width
<1>7. p.start <= LineEnd(r.line)
  <2> HIDE DEF p
  <2>1. PICK z \in Nat : z = p.start
    BY <1>2
  <2>2. p.end + 1 = at
    BY <1>2 DEF Filled
  <2> QED
    BY <1>1, <1>2, <2>1, <2>2
<1>8. Laid(c, b)
  <2> HIDE DEF p
  <2> QED
    BY <1>1, <1>2, <1>3, <1>7, LaidLast DEF p
<1>9. c \in Seq(Children) /\ Len(c) = n /\ c[n] = x
  <2>1. n \in 1..n
    BY <1>2
  <2> HIDE DEF p
  <2> QED
    BY <1>2, <1>3, <2>1
<1> HIDE DEF c, s
<1>10. s \in Readers /\ s.line = r.line /\ s.children = c /\ s.open = r.open /\ s.pending = r.pending
  BY <1>2, <1>4, <1>9 DEF Readers
<1>11. Reader(s, b)
  <2> HIDE DEF p, n
  <2> QED
    BY <1>2, <1>6, <1>8, <1>9, <1>10 DEF Reader
<1> QED
  BY <1>10, <1>11 DEF s, b

\* A reading with nothing open stands as well past the line.
LEMMA ReaderMore ==
  ASSUME NEW r, NEW a \in Nat, NEW b \in Nat, Reader(r, a), ~r.open, a <= b
  PROVE  Reader(r, b)
BY LaidMore DEF Reader
LEMMA NamedKeeps ==
  ASSUME NEW t \in Seq(LineKinds), NEW r, Reader(r, LineStart(r.line)), ~r.open, r.children # << >>
  PROVE  LET s == Named(t, r)
         IN  Reader(s, LineStart(r.line + 1)) /\ s.line = r.line
<1> DEFINE n == Len(r.children)
           owner == r.children[n]
           last == IF r.line + 1 = Len(t) THEN r.line ELSE Ahead(t, r.line + 1, LineKinds \ {"blank"})
           at == LineStart(r.line)
           looked == Looked(r, at, last)
           noted == Note(looked, owner.start, LineStart(last + 1))
           child == [owner EXCEPT !.is.named = TRUE, !.end = LineEnd(r.line)]
           s == Named(t, r)
           b == LineStart(r.line + 1)
<1>1. /\ r.line \in Nat /\ r.line + 1 \in Nat /\ at \in Nat /\ LineEnd(r.line) \in Nat /\ b \in Nat
      /\ at <= LineEnd(r.line) /\ LineEnd(r.line) <= b
  <2>1. r.line \in Nat
    BY ReaderFacts
  <2>2. r.line + 1 \in Nat
    BY <2>1
  <2> QED
    BY <2>1, <2>2, LineBounds
<1>2. /\ n \in Nat /\ n > 0 /\ owner \in Children /\ owner.start \in Nat /\ owner.end \in Nat /\ owner.is \in Blocks
      /\ Laid(r.children, at) /\ r.children \in Seq(Children) /\ owner.start <= owner.end /\ owner.end <= at
  <2>1. n \in Nat /\ r.children \in Seq(Children)
    BY ReaderFacts
  <2>2. n > 0
    BY <2>1
  <2> QED
    BY <2>1, <2>2, ReaderFacts DEF Laid
<1>3. last \in Int
  BY <1>1, AheadIs
<1>4. LineStart(last + 1) \in Int
  <2> HIDE DEF last
  <2> QED
    BY <1>3 DEF LineStart, Width
<1>5. /\ Reader(looked, at) /\ looked.line = r.line /\ looked.children = r.children /\ looked.open = r.open
      /\ looked.pending = r.pending
  <2> HIDE DEF last, at
  <2> QED
    BY <1>1, <1>3, LookedKeeps DEF at
<1>6. /\ Reader(noted, at) /\ noted.line = r.line /\ noted.children = r.children /\ noted.open = r.open
      /\ noted.pending = r.pending
  <2> HIDE DEF looked, at, last, owner
  <2> QED
    BY <1>2, <1>4, <1>5, NoteKeeps
<1>7. s = IF Boundary(t, r) THEN [noted EXCEPT !.children[n] = child] ELSE Opened(noted, "para", "name")
  BY DEF Named, Last
<1>8. CASE ~Boundary(t, r)
  <2>1. s = Opened(noted, "para", "name")
    BY <1>7, <1>8
  <2>2. "para" \in BlockKinds /\ "name" \in LineKinds
    BY DEF BlockKinds, LineKinds
  <2>3. Reader(noted, LineStart(noted.line))
    BY <1>6
  <2> HIDE DEF noted, s
  <2>4. Reader(s, LineStart(noted.line + 1)) /\ s.line = noted.line
    BY <2>1, <2>2, <2>3, OpenedKeeps
  <2> QED
    BY <1>6, <2>4 DEF s
<1>9. CASE Boundary(t, r)
  <2> DEFINE c == [r.children EXCEPT ![n] = child]
  <2> HIDE DEF noted
  <2>1. s = [noted EXCEPT !.children = c]
    BY <1>6, <1>7, <1>9
  <2>2. child \in Children /\ child.start = owner.start /\ child.end = LineEnd(r.line)
    <3>1. [owner.is EXCEPT !.named = TRUE] \in Blocks
      BY <1>2 DEF Blocks
    <3> HIDE DEF owner
    <3> QED
      BY <1>1, <1>2, <3>1 DEF Children
  <2> HIDE DEF child, b, at
  <2>3. owner.start <= LineEnd(r.line)
    <3> HIDE DEF owner
    <3>1. PICK z \in Nat : z = owner.start
      BY <1>2
    <3> QED
      BY <1>1, <1>2, <3>1
  <2>4. Laid(c, b)
    <3> HIDE DEF owner
    <3> QED
      BY <1>1, <1>2, <2>2, <2>3, LaidLast DEF owner
  <2>5. c \in Seq(Children) /\ Len(c) = n
    <3> HIDE DEF owner
    <3> QED
      BY <1>2, <2>2
  <2>6. noted \in Readers
    BY <1>6 DEF Reader
  <2> HIDE DEF c, s
  <2>7. s \in Readers /\ s.line = noted.line /\ s.children = c /\ s.open = noted.open /\ s.pending = noted.pending
    BY <2>1, <2>5, <2>6 DEF Readers
  <2>8. Reader(s, b)
    <3> HIDE DEF owner, n
    <3> QED
      BY <1>2, <1>6, <2>4, <2>5, <2>7 DEF Reader
  <2> QED
    BY <1>6, <2>7, <2>8 DEF s, b
<1> QED
  BY <1>8, <1>9

LEMMA TextReadKeeps ==
  ASSUME NEW t \in Seq(LineKinds), NEW r, Reader(r, LineStart(r.line)), NEW line \in LineKinds
  PROVE  LET s == TextRead(t, r, line)
         IN  Reader(s, LineStart(r.line + 1)) /\ s.line = r.line
<1>1. CASE r.open
  BY <1>1, AddedKeeps DEF TextRead
<1>2. CASE ~r.open /\ Names(r, line)
  <2>1. r.children # << >>
    BY <1>2 DEF Names
  <2> QED
    BY <1>2, <2>1, NamedKeeps DEF TextRead
<1>3. CASE ~r.open /\ ~Names(r, line)
  <2>1. "para" \in BlockKinds
    BY DEF BlockKinds
  <2> QED
    BY <1>3, <2>1, OpenedKeeps DEF TextRead
<1> QED
  BY <1>1, <1>2, <1>3

LEMMA CommentReadKeeps ==
  ASSUME NEW t \in Seq(LineKinds), NEW r, Reader(r, LineStart(r.line))
  PROVE  LET s == CommentRead(t, r)
         IN  Reader(s, LineStart(r.line + 1)) /\ s.line = r.line
<1> DEFINE last == Ahead(t, r.line + 1, {"comment"})
           looked == Looked(r, LineStart(r.line), last)
<1>1. r.line \in Nat /\ r.line + 1 \in Nat /\ LineStart(r.line) \in Nat
  <2>1. r.line \in Nat
    BY ReaderFacts
  <2>2. r.line + 1 \in Nat
    BY <2>1
  <2> QED
    BY <2>1, <2>2, LineBounds
<1>2. last \in Int
  BY <1>1, AheadIs
<1>3. Reader(looked, LineStart(r.line)) /\ looked.line = r.line
  <2> HIDE DEF last
  <2> QED
    BY <1>1, <1>2, LookedKeeps
<1>4. Reader(looked, LineStart(looked.line))
  BY <1>3
<1>5. "comment" \in BlockKinds /\ "comment" \in LineKinds
  BY DEF BlockKinds, LineKinds
<1>6. CommentRead(t, r) = IF Closes(t, r) THEN Opened(looked, "comment", "comment") ELSE TextRead(t, looked, "comment")
  BY DEF CommentRead
<1> HIDE DEF looked
<1>7. CASE Closes(t, r)
  <2>1. LET s == Opened(looked, "comment", "comment")
        IN  Reader(s, LineStart(looked.line + 1)) /\ s.line = looked.line
    BY <1>4, <1>5, OpenedKeeps
  <2> QED
    BY <1>3, <1>6, <1>7, <2>1
<1>8. CASE ~Closes(t, r)
  <2>1. LET s == TextRead(t, looked, "comment")
        IN  Reader(s, LineStart(looked.line + 1)) /\ s.line = looked.line
    BY <1>4, <1>5, TextReadKeeps
  <2> QED
    BY <1>3, <1>6, <1>8, <2>1
<1> QED
  BY <1>7, <1>8

LEMMA BlankReadKeeps ==
  ASSUME NEW r, Reader(r, LineStart(r.line))
  PROVE  LET s == BlankRead(r)
         IN  Reader(s, LineStart(r.line + 1)) /\ s.line = r.line
<1> DEFINE at == LineStart(r.line)
           b == LineStart(r.line + 1)
           n == Len(r.children)
           p == r.children[n]
           x == [p EXCEPT !.is.blank = TRUE]
           c == [r.children EXCEPT ![n] = x]
           set == IF r.open \/ r.pending THEN [r EXCEPT !.children[Len(r.children)].is.blank = TRUE] ELSE r
<1>1. r.line \in Nat /\ at \in Nat /\ at \in Int /\ b \in Nat /\ at <= b
  <2>1. r.line \in Nat
    BY ReaderFacts
  <2> QED
    BY <2>1, LineBounds
<1>2. Reader(set, at) /\ set.line = r.line
  <2>1. CASE ~(r.open \/ r.pending)
    BY <2>1
  <2>2. CASE r.open \/ r.pending
    <3>1. /\ n \in Nat /\ n > 0 /\ p \in Children /\ p.start \in Nat /\ p.end \in Nat /\ p.is \in Blocks
          /\ Laid(r.children, at) /\ r.children \in Seq(Children) /\ p.start <= p.end /\ p.end <= at /\ r \in Readers
      <4>1. n \in Nat /\ n > 0 /\ r \in Readers
        BY <2>2, ReaderFacts DEF Reader
      <4> QED
        BY <4>1, ReaderFacts DEF Laid
    <3>2. set = [r EXCEPT !.children = c]
      BY <2>2
    <3>3. x \in Children /\ x.start = p.start /\ x.end = p.end /\ x.is.lines = p.is.lines
      <4>1. [p.is EXCEPT !.blank = TRUE] \in Blocks /\ [p.is EXCEPT !.blank = TRUE].lines = p.is.lines
        BY <3>1 DEF Blocks
      <4> HIDE DEF p
      <4> QED
        BY <3>1, <4>1 DEF Children
    <3> HIDE DEF x, at
    <3>4. Laid(c, at)
      <4> HIDE DEF p
      <4> QED
        BY <1>1, <3>1, <3>3, LaidLast DEF p
    <3>5. c \in Seq(Children) /\ Len(c) = n /\ c[n] = x
      <4>1. n \in 1..n
        BY <3>1
      <4> HIDE DEF p
      <4> QED
        BY <3>1, <3>3, <4>1
    <3> HIDE DEF c, set
    <3>6. set \in Readers /\ set.line = r.line /\ set.children = c /\ set.open = r.open /\ set.pending = r.pending
      BY <3>1, <3>2, <3>5 DEF Readers
    <3>7. r.open => Filled(x, at)
      BY <3>3 DEF Reader, Filled, at
    <3> HIDE DEF p, n
    <3> QED
      BY <3>1, <3>4, <3>5, <3>6, <3>7 DEF Reader
  <2> QED
    BY <2>1, <2>2
<1>3. BlankRead(r) = Closed(set, at)
  BY DEF BlankRead
<1> HIDE DEF set
<1>4. LET s == Closed(set, at) IN Reader(s, at) /\ ~s.open /\ s.line = set.line
  <2> HIDE DEF at
  <2> QED
    BY <1>1, <1>2, ClosedKeeps
<1> HIDE DEF at, b
<1> QED
  BY <1>1, <1>2, <1>3, <1>4, ReaderMore DEF b

\* The line machine.
LEMMA LineKeeps ==
  ASSUME NEW t \in Seq(LineKinds), NEW r, Reader(r, LineStart(r.line)), r.line < Len(t)
  PROVE  LET s == S_line_machine(t, r)
         IN  Reader(s, LineStart(s.line)) /\ s.line = r.line + 1
<1> DEFINE line == t[r.line + 1]
           b == LineStart(r.line + 1)
           Good(s) == Reader(s, b) /\ s.line = r.line
           until(stop) == IF line = stop THEN Closed(Added(r, line), LineStart(r.line)) ELSE Added(r, line)
           other == CASE line = "blank" -> BlankRead(r)
                 [] line = "fence" -> Opened(r, "code", line)
                 [] line = "quote" -> IF OpenKind(r) = "quote" THEN Added(r, line) ELSE Opened(r, "quote", line)
                 [] line = "comment" -> CommentRead(t, r)
                 [] OTHER -> TextRead(t, r, line)
           read == CASE OpenKind(r) = "code" -> until("fence") [] OpenKind(r) = "comment" -> until("comment")
                     [] OTHER -> other
<1>1. /\ r.line \in Nat /\ r.line + 1 \in Nat /\ LineStart(r.line) \in Int /\ b \in Nat /\ line \in LineKinds
  <2>1. r.line \in Nat
    BY ReaderFacts
  <2>2. r.line + 1 \in 1..Len(t) /\ r.line + 1 \in Nat
    BY <2>1
  <2>3. line \in LineKinds
    BY <2>2
  <2> HIDE DEF line
  <2>4. LineStart(r.line) \in Nat /\ b \in Nat
    BY <2>1, LineBounds
  <2> QED
    BY <2>1, <2>2, <2>3, <2>4
<1> HIDE DEF line
<1>2. OpenKind(r) # "root" => r.open
  BY DEF OpenKind
<1>3. r.open => Good(Added(r, line))
  BY <1>1, AddedKeeps
<1>4. ASSUME NEW stop, r.open PROVE Good(until(stop))
  <2> DEFINE a == Added(r, line)
  <2>1. Reader(a, b) /\ a.line = r.line
    BY <1>3, <1>4
  <2> HIDE DEF a, b
  <2>2. LET s == Closed(a, LineStart(r.line)) IN Reader(s, b) /\ s.line = a.line
    BY <1>1, <2>1, ClosedKeeps
  <2> QED
    BY <2>1, <2>2 DEF a
<1>5. Good(other)
  <2>1. Good(BlankRead(r))
    BY BlankReadKeeps
  <2>2. Good(CommentRead(t, r))
    BY CommentReadKeeps
  <2>3. Good(TextRead(t, r, line))
    BY <1>1, TextReadKeeps
  <2>4. Good(Opened(r, "code", line)) /\ Good(Opened(r, "quote", line))
    BY <1>1, OpenedKeeps DEF BlockKinds
  <2>5. OpenKind(r) = "quote" => Good(Added(r, line))
    BY <1>2, <1>3
  <2> HIDE DEF Good
  <2> QED
    BY <2>1, <2>2, <2>3, <2>4, <2>5
<1>6. Good(read)
  <2>1. OpenKind(r) = "code" => Good(until("fence"))
    BY <1>2, <1>4
  <2>2. OpenKind(r) = "comment" => Good(until("comment"))
    BY <1>2, <1>4
  <2> HIDE DEF Good, until, other
  <2> QED
    BY <1>5, <2>1, <2>2
<1>7. S_line_machine(t, r) = [read EXCEPT !.line = r.line + 1]
  BY DEF S_line_machine, line
<1> HIDE DEF read, other, until
<1>8. read \in Readers
  BY <1>6 DEF Reader
<1> DEFINE s == [read EXCEPT !.line = r.line + 1]
<1>9. /\ s \in Readers /\ s.line = r.line + 1 /\ s.children = read.children /\ s.open = read.open
      /\ s.pending = read.pending
  BY <1>1, <1>8 DEF Readers
<1> HIDE DEF s
<1>10. Reader(s, b)
  <2> HIDE DEF b
  <2> QED
    BY <1>6, <1>9 DEF Reader
<1> QED
  BY <1>7, <1>9, <1>10 DEF s
-------------------------------------------------------------------------------
(* What a flush publishes.                                                 *)

Extended == [is : Blocks, lead : Int, span : Int]

\* A document whose children lie where those of `c' do.
Follows(d, c) ==
  /\ d \in [1..Len(c) -> Extended]
  /\ \A i \in 1..Len(c) : /\ d[i].lead = c[i].start - (IF i = 1 THEN 0 ELSE c[i - 1].end)
                          /\ d[i].span = c[i].end - c[i].start

LEMMA FollowsOK ==
  ASSUME NEW c, NEW b, Laid(c, b), NEW d, Follows(d, c)
  PROVE  DocOK(d) /\ Len(d) = Len(c)
<1> DEFINE n == Len(c)
           f == [i \in 0..n |-> IF i = 0 THEN 0 ELSE c[i].end]
<1>1. n \in Nat /\ \A i \in 1..n : /\ c[i].start \in Nat /\ c[i].end \in Nat /\ c[i].start % Width = 0
                                   /\ c[i].start <= c[i].end /\ (i > 1 => c[i - 1].end <= c[i].start)
  BY LaidFacts
<1>2. \A i \in 1..n : i > 1 => c[i - 1].end \in Nat
  <2>1. \A i \in 1..n : i > 1 => i - 1 \in 1..n
    BY <1>1
  <2> QED
    BY <1>1, <2>1
<1>3. ASSUME NEW i \in 1..n PROVE d[i].lead \in Nat /\ d[i].span \in Nat /\ d[i] \in Extended
  <2>1. d[i] \in Extended
    BY DEF Follows
  <2>2. PICK x \in Nat : x = IF i = 1 THEN 0 ELSE c[i - 1].end
    BY <1>2
  <2>3. PICK y \in Nat : y = c[i].start
    BY <1>1
  <2>4. PICK z \in Nat : z = c[i].end
    BY <1>1
  <2>5. d[i].lead = y - x /\ d[i].span = z - y
    BY <2>2, <2>3, <2>4 DEF Follows
  <2>6. x <= y /\ y <= z
    BY <1>1, <2>2, <2>3, <2>4
  <2> QED
    BY <2>1, <2>5, <2>6
<1>4. d \in [1..n -> Entries]
  <2>1. \A i \in 1..n : d[i] \in Entries
    BY <1>3 DEF Extended, Entries
  <2> QED
    BY <2>1 DEF Follows
<1>5. d \in Seq(Entries) /\ Len(d) = n
  BY <1>1, <1>4
<1>6. \A i \in 0..n : f[i] \in Nat
  BY <1>1
<1>7. f[0] = 0 /\ \A i \in 1..n : f[i] = c[i].end
  BY <1>1
<1>8. \A i \in 1..n : f[i - 1] = IF i = 1 THEN 0 ELSE c[i - 1].end
  BY <1>1
<1> HIDE DEF f
<1>9. ASSUME NEW i \in 1..n
      PROVE  f[i] = f[i - 1] + d[i].lead + d[i].span /\ f[i - 1] + d[i].lead = c[i].start
  <2>1. PICK x \in Nat : x = f[i - 1]
    <3>1. i - 1 \in 0..n
      BY <1>1
    <3> QED
      BY <1>6, <3>1
  <2>2. d[i].lead = c[i].start - x /\ d[i].span = c[i].end - c[i].start
    BY <1>8, <2>1 DEF Follows
  <2>3. PICK y \in Nat : y = c[i].start
    BY <1>1
  <2>4. PICK z \in Nat : z = c[i].end
    BY <1>1
  <2>5. d[i].lead = y - x /\ d[i].span = z - y /\ f[i] = z
    BY <1>7, <2>2, <2>3, <2>4
  <2>6. z = x + (y - x) + (z - y) /\ x + (y - x) = y
    OBVIOUS
  <2> QED
    BY <2>1, <2>3, <2>5, <2>6
<1>10. \A i \in 0..n : Ends(d)[i] = f[i]
  <2>1. /\ 0 \in 0..Len(d) /\ 0 \in Int /\ Len(d) - 0 = n /\ Ends(d)[0] = 0
    BY <1>1, <1>5, EndsSum
  <2>2. f[0] = Ends(d)[0] + 0
    BY <1>7, <2>1
  <2>3. \A i \in 1..(Len(d) - 0) : f[i] = f[i - 1] + d[0 + i].lead + d[0 + i].span
    <3>1. \A i \in 1..n : 0 + i = i
      BY <1>1
    <3> QED
      BY <1>9, <2>1, <3>1
  <2>4. \A i \in 0..(Len(d) - 0) : Ends(d)[0 + i] + 0 = f[i]
    BY <1>5, <2>1, <2>2, <2>3, EndsUnique
  <2>5. ASSUME NEW i \in 0..n PROVE Ends(d)[i] = f[i]
    <3>1. Ends(d)[0 + i] + 0 = f[i] /\ 0 + i = i
      BY <1>1, <2>1, <2>4
    <3>2. PICK x \in Nat : x = Ends(d)[i]
      BY <1>5, EndsSum
    <3> QED
      BY <3>1, <3>2
  <2> QED
    BY <2>5
<1>11. ASSUME NEW i \in 1..n PROVE Start(d, i) % Width = 0
  <2>1. i - 1 \in 0..n
    BY <1>1
  <2>2. Start(d, i) = f[i - 1] + d[i].lead
    BY <1>10, <2>1 DEF Start
  <2> QED
    BY <1>1, <1>9, <2>2
<1> QED
  BY <1>5, <1>11 DEF DocOK

LEMMA ExtentsFollow ==
  ASSUME NEW c, NEW b, Laid(c, b)
  PROVE  Follows(Extents(c), c) /\ DOMAIN Extents(c) = 1..Len(c)
<1>1. c \in Seq(Children) /\ DOMAIN c = 1..Len(c) /\ Len(c) \in Nat
  BY DEF Laid
<1>2. \A i \in 1..Len(c) : /\ c[i].start \in Nat /\ c[i].end \in Nat /\ c[i].is \in Blocks
  BY LaidFacts
<1>3. \A i \in 1..Len(c) : i # 1 => c[i - 1].end \in Nat
  <2>1. \A i \in 1..Len(c) : i # 1 => i - 1 \in 1..Len(c)
    BY <1>1
  <2> QED
    BY <1>2, <2>1
<1> DEFINE d == Extents(c)
           lead(i) == c[i].start - (IF i = 1 THEN 0 ELSE c[i - 1].end)
<1>4. d = [i \in 1..Len(c) |-> [is |-> c[i].is, lead |-> lead(i), span |-> c[i].end - c[i].start]]
  BY <1>1 DEF Extents
<1>5. \A i \in 1..Len(c) : lead(i) \in Int /\ c[i].end - c[i].start \in Int
  BY <1>2, <1>3
<1> HIDE DEF d, lead
<1>6. d \in [1..Len(c) -> Extended]
  BY <1>2, <1>4, <1>5 DEF Extended
<1>7. \A i \in 1..Len(c) : d[i].lead = lead(i) /\ d[i].span = c[i].end - c[i].start
  BY <1>4
<1> QED
  BY <1>6, <1>7 DEF Follows, d, lead

\* The lookups of a root made, its child lies where it lay.
LEMMA CompletedLies ==
  ASSUME NEW x \in Extended, NEW declared
  PROVE  LET y == [x EXCEPT !.is = Completed(x.is, declared)]
         IN  y \in Extended /\ y.lead = x.lead /\ y.span = x.span
<1>1. x.is \in Blocks /\ (Uses(x.is) /\ declared) \in BOOLEAN
  BY DEF Extended
<1>2. Completed(x.is, declared) \in Blocks
  BY <1>1 DEF Completed, Blocks
<1> QED
  BY <1>2 DEF Extended

\* The text read at once.
LEMMA FreshOK ==
  ASSUME NEW t \in Seq(LineKinds)
  PROVE  DocOK(Fresh(t).doc) /\ Fresh(t).reach \in Reaches
<1> DEFINE n == Len(t)
           X == {r \in Readers : Reader(r, LineStart(r.line))}
           F == [i \in 1..n |-> [r \in X |-> IF r.line = i - 1 THEN S_line_machine(t, r) ELSE r]]
           Eq(f) == f = [i \in 0..n |-> IF i = 0 THEN Begun ELSE S_line_machine(t, f[i - 1])]
<1>1. n \in Nat
  OBVIOUS
<1>2. Begun \in X /\ Begun.line = 0
  <2>1. Begun \in Readers /\ Begun.line = 0 /\ Begun.children = << >> /\ ~Begun.open /\ ~Begun.pending
    <3>1. << >> \in Seq(Children)
      OBVIOUS
    <3>2. {} \in Reaches
      BY DEF Reaches
    <3> QED
      BY <3>1, <3>2 DEF Begun, Readers
  <2>2. Laid(<< >>, LineStart(0))
    <3>1. << >> \in Seq(Children) /\ Len(<< >>) = 0
      OBVIOUS
    <3> QED
      BY <3>1 DEF Laid, Apart
  <2> QED
    BY <2>1, <2>2 DEF Reader
<1>3. F \in [1..n -> [X -> X]]
  <2>1. ASSUME NEW i \in 1..n, NEW r \in X, r.line = i - 1 PROVE S_line_machine(t, r) \in X
    <3>1. r.line < Len(t) /\ Reader(r, LineStart(r.line))
      BY <1>1, <2>1
    <3>2. LET s == S_line_machine(t, r) IN Reader(s, LineStart(s.line))
      BY <3>1, LineKeeps
    <3> QED
      BY <3>2 DEF Reader
  <2> HIDE DEF X
  <2> QED
    BY <2>1
<1>4. PICK g \in [0..n -> X] : g[0] = Begun /\ \A i \in 1..n : g[i] = F[i][g[i - 1]]
  <2> HIDE DEF F, n, X
  <2>1. Runs(X, n, Begun, F)
    BY <1>1, <1>2, <1>3, Iterated
  <2> QED
    BY <2>1 DEF Runs
<1>5. \A i \in 1..n : i - 1 \in 0..n /\ g[i - 1] \in X
  <2>1. \A i \in 1..n : i - 1 \in 0..n
    BY <1>1
  <2> HIDE DEF X
  <2> QED
    BY <2>1
<1>6. \A i \in 1..n : g[i] = IF g[i - 1].line = i - 1 THEN S_line_machine(t, g[i - 1]) ELSE g[i - 1]
  <2> HIDE DEF X
  <2> QED
    BY <1>4, <1>5
<1>7. \A i \in 0..n : g[i].line = i
  <2> DEFINE G == {i \in 0..n : g[i].line = i}
  <2>1. 0 \in G
    BY <1>1, <1>2, <1>4
  <2>2. ASSUME NEW i \in 0..(n - 1), i \in G PROVE i + 1 \in G
    <3> DEFINE k == i + 1
    <3>1. k \in 1..n /\ k - 1 = i /\ k \in 0..n /\ i \in 0..n /\ i < n /\ k = i + 1
      BY <1>1
    <3> HIDE DEF k
    <3>2. g[i].line = i /\ g[i] \in X
      <4> HIDE DEF X
      <4> QED
        BY <2>2, <3>1
    <3>3. g[k] = S_line_machine(t, g[i])
      BY <1>6, <3>1, <3>2
    <3>4. Reader(g[i], LineStart(g[i].line)) /\ g[i].line < Len(t)
      BY <3>1, <3>2
    <3>5. g[k].line = g[i].line + 1
      BY <3>3, <3>4, LineKeeps
    <3>6. k \in G
      BY <3>1, <3>2, <3>5
    <3> QED
      BY <3>1, <3>6
  <2> HIDE DEF G
  <2>3. 0..n \subseteq G
    BY <1>1, <2>1, <2>2, UpTo
  <2> QED
    BY <2>3 DEF G
<1>8. Eq(g)
  <2>1. ASSUME NEW i \in 0..n PROVE g[i] = IF i = 0 THEN Begun ELSE S_line_machine(t, g[i - 1])
    <3>1. CASE i = 0
      BY <1>4, <3>1
    <3>2. CASE i # 0
      <4>1. i \in 1..n /\ i - 1 \in 0..n
        BY <1>1, <3>2
      <4>2. g[i - 1].line = i - 1
        BY <1>7, <4>1
      <4> QED
        BY <1>6, <3>2, <4>1, <4>2
    <3> QED
      BY <3>1, <3>2
  <2> HIDE DEF X, F
  <2> QED
    BY <2>1
<1> DEFINE read == CHOOSE f : Eq(f)
           done == S_close_document(t, read[n])
           published == Extents(done.children)
           d == [i \in DOMAIN published |-> [published[i] EXCEPT !.is = Completed(@, HasRef(published))]]
<1>9. Fresh(t).reach = done.reach /\ Fresh(t).doc = d
  BY DEF Fresh
<1>10. Eq(read)
  <2> HIDE DEF Eq
  <2> QED
    BY <1>8, Zenon
<1> HIDE DEF read
<1>11. read[n] = g[n]
  <2> DEFINE G == {i \in 0..n : read[i] = g[i]}
  <2>0. read[0] = Begun /\ \A i \in 1..n : read[i] = S_line_machine(t, read[i - 1])
    <3>1. \A i \in 0..n : read[i] = IF i = 0 THEN Begun ELSE S_line_machine(t, read[i - 1])
      BY <1>10
    <3> QED
      BY <1>1, <3>1
  <2>1. 0 \in G
    BY <1>1, <1>4, <2>0
  <2>2. ASSUME NEW i \in 0..(n - 1), i \in G PROVE i + 1 \in G
    <3> DEFINE k == i + 1
    <3>1. k \in 1..n /\ k - 1 = i /\ k \in 0..n /\ i \in 0..n /\ k = i + 1
      BY <1>1
    <3> HIDE DEF k
    <3>2. read[k] = S_line_machine(t, read[i])
      BY <2>0, <3>1
    <3>3. g[k] = S_line_machine(t, g[i])
      BY <1>6, <1>7, <3>1
    <3> QED
      BY <2>2, <3>1, <3>2, <3>3
  <2> HIDE DEF G
  <2>3. 0..n \subseteq G
    BY <1>1, <2>1, <2>2, UpTo
  <2>4. n \in 0..n
    BY <1>1
  <2> QED
    BY <2>3, <2>4 DEF G
<1>12. Reader(g[n], LineStart(g[n].line)) /\ g[n].line \in Nat
  <2>1. g[n] \in X
    <3> HIDE DEF X
    <3> QED
      BY <1>1
  <2> QED
    BY <2>1 DEF Readers
<1>13. Reader(done, LineStart(g[n].line))
  <2>1. LineStart(g[n].line) \in Nat
    BY <1>12, LineBounds
  <2>2. LineStart(Len(t) - 1) \in Int
    BY DEF LineStart, Width
  <2>3. done = Closed(g[n], LineStart(Len(t) - 1))
    BY <1>11 DEF S_close_document
  <2> QED
    BY <1>12, <2>1, <2>2, <2>3, ClosedKeeps
<1> HIDE DEF done
<1>14. done.reach \in Reaches /\ Laid(done.children, LineStart(g[n].line)) /\ Len(done.children) \in Nat
  BY <1>13, ReaderFacts
<1>15. Follows(published, done.children) /\ DOMAIN published = 1..Len(done.children)
  BY <1>14, ExtentsFollow
<1>16. Follows(d, done.children)
  <2> DEFINE declared == HasRef(published)
  <2> HIDE DEF declared, published
  <2>1. d = [i \in 1..Len(done.children) |-> [published[i] EXCEPT !.is = Completed(published[i].is, declared)]]
    BY <1>15 DEF declared
  <2> HIDE DEF d
  <2>2. ASSUME NEW i \in 1..Len(done.children)
        PROVE  d[i] \in Extended /\ d[i].lead = published[i].lead /\ d[i].span = published[i].span
    <3>1. published[i] \in Extended
      BY <1>15 DEF Follows
    <3>2. d[i] = [published[i] EXCEPT !.is = Completed(published[i].is, declared)]
      BY <2>1
    <3> QED
      BY <3>1, <3>2, CompletedLies
  <2>3. d \in [1..Len(done.children) -> Extended]
    BY <2>1, <2>2
  <2> QED
    BY <1>15, <2>2, <2>3 DEF Follows
<1> HIDE DEF d
<1> QED
  BY <1>9, <1>14, <1>16, FollowsOK
-------------------------------------------------------------------------------
(* An edit.                                                                *)

\* The children of a document from the one after `m' on, moved with the text.
Moved(d, m, l, delta) ==
  [k \in 1..l |-> [is |-> d[m + k].is, start |-> Start(d, m + k) + delta, end |-> Ends(d)[m + k] + delta]]

LEMMA FourSum ==
  ASSUME NEW x \in Int, NEW y \in Int, x % 4 = 0, y % 4 = 0
  PROVE  (x + y) % 4 = 0
OBVIOUS

LEMMA MovedLaid ==
  ASSUME NEW d, DocOK(d), NEW m \in Nat, NEW l \in Nat, m + l <= Len(d),
         NEW delta \in Int, delta % Width = 0, l > 0 => Start(d, m + 1) + delta >= 0,
         NEW b \in Nat, l > 0 => Ends(d)[m + l] + delta <= b
  PROVE  Laid(Moved(d, m, l, delta), b)
<1> DEFINE c == Moved(d, m, l, delta)
<1>1. /\ d \in Seq(Entries) /\ Len(d) \in Nat /\ Ends(d) \in [0..Len(d) -> Nat]
      /\ \A i \in 1..Len(d) : /\ Start(d, i) \in Nat /\ Start(d, i) % Width = 0 /\ d[i].is \in Blocks
                              /\ Start(d, i) <= Ends(d)[i] /\ Ends(d)[i - 1] <= Start(d, i)
  <2>1. d \in Seq(Entries)
    BY DEF DocOK
  <2> QED
    BY <2>1, EntryFacts, EndsSum, EndsRise DEF DocOK
<1>2. \A i, j \in 0..Len(d) : i <= j => Ends(d)[i] <= Ends(d)[j]
  BY <1>1, EndsRise
<1>3. ASSUME NEW k \in 1..l
      PROVE  /\ m + k \in 1..Len(d) /\ c[k].start = Start(d, m + k) + delta /\ c[k].end = Ends(d)[m + k] + delta
             /\ c[k] \in Children /\ c[k].start % Width = 0 /\ c[k].start <= c[k].end
             /\ c[k].end \in Nat
             /\ k > 1 => Ends(d)[m + k - 1] + delta <= c[k].start
  <2>1. m + k \in 1..Len(d) /\ m + k - 1 \in 0..Len(d) /\ m \in 0..Len(d) /\ m + 1 \in 1..Len(d) /\ l > 0
    BY <1>1
  <2>2. PICK j \in 1..Len(d) : j = m + k /\ j \in 0..Len(d) /\ j - 1 \in 0..Len(d)
    BY <1>1, <2>1
  <2>3. PICK s \in Nat : s = Start(d, j)
    BY <1>1
  <2>4. PICK e \in Nat : e = Ends(d)[j]
    <3>1. Ends(d)[j] \in Nat
      BY <1>1, <2>2
    <3> QED
      BY <3>1
  <2>5. c[k] = [is |-> d[j].is, start |-> s + delta, end |-> e + delta]
    BY <2>2, <2>3, <2>4 DEF Moved
  <2>6. s <= e /\ s % 4 = 0 /\ d[j].is \in Blocks
    BY <1>1, <2>3, <2>4 DEF Width
  <2>7. PICK z \in Nat : z = Start(d, m + 1)
    BY <1>1, <2>1
  <2>8. z + delta >= 0
    BY <2>1, <2>7
  <2>9. z <= s
    <3>1. CASE k = 1
      BY <2>2, <2>3, <2>7, <3>1
    <3>2. CASE k # 1
      <4>1. m + 1 \in 0..Len(d) /\ j - 1 \in 0..Len(d) /\ m + 1 <= j - 1
        BY <1>1, <2>1, <2>2, <3>2
      <4>2. Ends(d)[m + 1] <= Ends(d)[j - 1] /\ Ends(d)[m + 1] \in Nat /\ Ends(d)[j - 1] \in Nat
        BY <1>1, <1>2, <4>1
      <4>3. z <= Ends(d)[m + 1] /\ Ends(d)[j - 1] <= s
        BY <1>1, <2>1, <2>3, <2>7
      <4> QED
        BY <4>2, <4>3
    <3> QED
      BY <3>1, <3>2
  <2>10. s + delta \in Nat /\ e + delta \in Nat /\ s + delta <= e + delta
    BY <2>6, <2>8, <2>9
  <2>11. (s + delta) % 4 = 0
    BY <2>6, FourSum DEF Width
  <2>12. Ends(d)[m + k - 1] + delta <= s + delta
    <3>1. PICK x \in Nat : x = Ends(d)[j - 1]
      <4>1. Ends(d)[j - 1] \in Nat
        BY <1>1, <2>2
      <4> QED
        BY <4>1
    <3>2. x <= s
      BY <1>1, <2>3, <3>1
    <3>3. m + k - 1 = j - 1
      BY <2>2
    <3> QED
      BY <3>1, <3>2, <3>3
  <2> HIDE DEF c
  <2> QED
    BY <2>1, <2>2, <2>3, <2>4, <2>5, <2>6, <2>10, <2>11, <2>12 DEF Children, Width
<1>4. c \in Seq(Children) /\ Len(c) = l
  <2>1. c \in [1..l -> Children]
    BY <1>3 DEF Moved
  <2> HIDE DEF c
  <2> QED
    BY <2>1
<1> HIDE DEF c
<1>5. ASSUME NEW k \in 1..l, k > 1 PROVE c[k - 1].end <= c[k].start
  <2>1. k - 1 \in 1..l /\ m + (k - 1) = m + k - 1
    BY <1>5
  <2>2. c[k - 1].end = Ends(d)[m + (k - 1)] + delta
    BY <1>3, <2>1
  <2> QED
    BY <1>3, <1>5, <2>1, <2>2
<1>6. l > 0 => c[l].end <= b
  <2>1. l > 0 => l \in 1..l
    OBVIOUS
  <2> QED
    BY <1>3, <2>1
<1> QED
  BY <1>3, <1>4, <1>5, <1>6 DEF Laid, Apart, c

EditRecords(to) ==
  [phase : {"edit", "refresh"}, rest : Nat, from : Nat, to : {to}, delta : Int, next : Nat, count : Nat,
   resumed : Int, back : Reaches, kept : Reaches, whole : BOOLEAN]

\* An edit that is being read: its old tail is of the document, and what it has
\* taken back starts where its reading stands.
EditOK ==
  /\ edit \in EditRecords(edit.to)
  /\ edit.rest + edit.count <= Len(doc) /\ edit.next <= edit.count /\ edit.delta % Width = 0
  /\ edit.resumed # 0 => edit.next < edit.count /\ Point(edit) = LineStart(reader.line)
  /\ \A e \in edit.kept : e[2] <= edit.from

IInv ==
  /\ alphabet \in Alphabets /\ text \in Seq(LineKinds)
  /\ DocOK(doc) /\ reach \in Reaches
  /\ edit.phase \in {"edit", "refresh"} => Reader(reader, LineStart(reader.line)) /\ EditOK

LEMMA EditNext ==
  ASSUME NEW to, NEW e \in EditRecords(to), e.next <= e.count
  PROVE  LET f == S_edit_next(e)
         IN  /\ f \in EditRecords(to) /\ f.next <= f.count
             /\ f.phase = e.phase /\ f.rest = e.rest /\ f.from = e.from /\ f.to = e.to /\ f.delta = e.delta
             /\ f.count = e.count /\ f.resumed = e.resumed /\ f.back = e.back /\ f.kept = e.kept
<1> DEFINE S == {n \in e.next..(e.count - 1) :
                  LET start == Start(doc, e.rest + n + 1) IN start >= e.to /\ start + e.delta > 0}
           next == IF S = {} THEN e.count ELSE First(S)
<1>1. e.next \in Nat /\ e.count \in Nat
  BY DEF EditRecords
<1>2. S \in SUBSET Nat /\ \A n \in S : n <= e.count
  BY <1>1
<1>3. S_edit_next(e) = [e EXCEPT !.next = next]
  BY DEF S_edit_next
<1> HIDE DEF S
<1>4. next \in Nat /\ next <= e.count
  <2>1. CASE S = {}
    BY <1>1, <2>1
  <2>2. CASE S # {}
    <3>1. First(S) \in S
      BY <1>2, <2>2, FirstIsLeast
    <3>2. next = First(S)
      BY <2>2
    <3> HIDE DEF next
    <3> QED
      BY <1>2, <3>1, <3>2
  <2> QED
    BY <2>1, <2>2
<1> HIDE DEF next
<1> QED
  BY <1>3, <1>4 DEF EditRecords

\* The reopen, at a rest point.
LEMMA ReopenedOK ==
  ASSUME IInv, NEW phase \in {"edit", "refresh"}, NEW rest, NEW to, NEW delta \in Int, delta % Width = 0,
         NEW whole \in BOOLEAN, Reopened(phase, rest, to, delta, whole), UNCHANGED <<doc, reach>>,
         rest \in 0..Len(doc), rest # 0 => rest < Len(doc) /\ Spans(reach, Start(doc, rest + 1)) = {}
  PROVE  edit'.phase = phase /\ Reader(reader', LineStart(reader'.line)) /\ EditOK'
<1> DEFINE line == RestLine(doc, rest)
           start == LineStart(line)
           front == {e \in reach : e[1] < start}
           stay == [i \in 1..rest |-> [is |-> doc[i].is, start |-> Start(doc, i), end |-> Ends(doc)[i]]]
           e0 == [phase |-> phase, rest |-> rest, from |-> start, to |-> to, delta |-> delta, next |-> 0,
                  count |-> IF whole THEN 0 ELSE Len(doc) - rest, resumed |-> 0,
                  back |-> IF whole THEN {} ELSE reach \ front, kept |-> front, whole |-> whole]
<1>1. /\ reader' = [line |-> line, children |-> stay, open |-> FALSE, pending |-> FALSE, reach |-> front]
      /\ edit' = S_edit_next(e0)
  BY DEF Reopened
<1>2. /\ DocOK(doc) /\ doc \in Seq(Entries) /\ Len(doc) \in Nat /\ reach \in Reaches /\ rest \in Nat /\ rest <= Len(doc)
      /\ Ends(doc) \in [0..Len(doc) -> Nat]
  <2>1. DocOK(doc) /\ doc \in Seq(Entries) /\ reach \in Reaches
    BY DEF IInv, DocOK
  <2> QED
    BY <2>1, EndsSum
<1>3. /\ line \in Nat /\ start \in Nat
      /\ rest # 0 => start = Start(doc, rest + 1) /\ Ends(doc)[rest] <= start
      /\ rest = 0 => start = 0
  <2>1. CASE rest = 0
    BY <2>1 DEF RestLine, LineStart, Width
  <2>2. CASE rest # 0
    <3>1. rest + 1 \in 1..Len(doc) /\ (rest + 1) - 1 = rest
      BY <1>2, <2>2
    <3>2. PICK x \in Nat : x = Start(doc, rest + 1)
      BY <1>2, <3>1, EndsRise
    <3>3. x % 4 = 0 /\ Ends(doc)[rest] <= x
      BY <1>2, <3>1, <3>2, EndsRise DEF DocOK, Width
    <3>4. x \div 4 \in Nat /\ x = 4 * (x \div 4)
      BY <3>3, FourParts
    <3>5. line = x \div 4
      BY <2>2, <3>2 DEF RestLine, Width
    <3> QED
      BY <2>2, <3>2, <3>3, <3>4, <3>5 DEF LineStart, Width
  <2> QED
    BY <2>1, <2>2
<1>4. front \in Reaches /\ reach \ front \in Reaches /\ {} \in Reaches
  BY <1>2 DEF Reaches
<1>5. ASSUME NEW e \in front PROVE e[2] <= start
  <2>1. e \in reach /\ e \in Nat \X Int /\ e[1] \in Nat /\ e[2] \in Int /\ e[1] < start
    BY <1>2 DEF Reaches
  <2>2. CASE rest = 0
    BY <1>3, <2>1, <2>2
  <2>3. CASE rest # 0
    <3>1. start = Start(doc, rest + 1) /\ Spans(reach, start) = {}
      BY <1>3, <2>3
    <3> HIDE DEF start
    <3>2. ~(e[2] > start)
      BY <2>1, <3>1 DEF Spans
    <3> QED
      BY <1>3, <2>1, <3>2
  <2> QED
    BY <2>2, <2>3
<1> HIDE DEF front, start, line
<1>6. e0 \in EditRecords(to) /\ e0.next <= e0.count
  <2>1. Len(doc) - rest \in Nat
    BY <1>2
  <2>2. (IF whole THEN 0 ELSE Len(doc) - rest) \in Nat /\ (IF whole THEN {} ELSE reach \ front) \in Reaches
    BY <1>4, <2>1
  <2> QED
    BY <1>2, <1>3, <1>4, <2>2 DEF EditRecords
<1>7. e0.rest + e0.count <= Len(doc) /\ e0.delta = delta /\ e0.resumed = 0 /\ e0.kept = front /\ e0.from = start
      /\ e0.phase = phase /\ e0.to = to
  BY <1>2
<1> HIDE DEF e0
<1>8. /\ edit' \in EditRecords(to) /\ edit'.next <= edit'.count /\ edit'.phase = e0.phase /\ edit'.rest = e0.rest
      /\ edit'.from = e0.from /\ edit'.to = e0.to /\ edit'.delta = e0.delta /\ edit'.count = e0.count
      /\ edit'.resumed = e0.resumed /\ edit'.kept = e0.kept
  BY <1>1, <1>6, EditNext
<1>9. EditOK'
  BY <1>5, <1>7, <1>8 DEF EditOK
<1>10. Laid(stay, start)
  <2>1. stay = Moved(doc, 0, rest, 0)
    <3>1. ASSUME NEW i \in 1..rest
          PROVE  0 + i = i /\ Start(doc, i) + 0 = Start(doc, i) /\ Ends(doc)[i] + 0 = Ends(doc)[i]
      <4>1. i \in 1..Len(doc) /\ i \in 0..Len(doc) /\ 0 + i = i
        BY <1>2
      <4>2. Start(doc, i) \in Nat /\ Ends(doc)[i] \in Nat
        BY <1>2, <4>1, EndsRise
      <4> QED
        BY <4>1, <4>2
    <3> QED
      BY <3>1 DEF Moved
  <2> HIDE DEF stay
  <2>2. rest > 0 => Start(doc, 0 + 1) + 0 >= 0 /\ Ends(doc)[0 + rest] + 0 <= start
    <3>1. SUFFICES ASSUME rest > 0 PROVE Start(doc, 1) + 0 >= 0 /\ Ends(doc)[rest] + 0 <= start
      BY <1>2
    <3>2. Start(doc, 1) \in Nat /\ Ends(doc)[rest] \in Nat
      <4>1. 1 \in 1..Len(doc) /\ rest \in 0..Len(doc)
        BY <1>2, <3>1
      <4> QED
        BY <1>2, <4>1, EndsRise
    <3> QED
      BY <1>2, <1>3, <3>1, <3>2
  <2>3. 0 + rest <= Len(doc) /\ 0 \in Nat /\ 0 \in Int /\ 0 % Width = 0
    BY <1>2 DEF Width
  <2> QED
    BY <1>2, <1>3, <2>1, <2>2, <2>3, MovedLaid
<1>11. stay \in Seq(Children)
  BY <1>10 DEF Laid
<1> HIDE DEF stay
<1>12. /\ reader' \in Readers /\ reader'.line = line /\ reader'.children = stay /\ ~reader'.open /\ ~reader'.pending
  BY <1>1, <1>3, <1>4, <1>11 DEF Readers
<1>13. Reader(reader', LineStart(reader'.line))
  BY <1>10, <1>12 DEF Reader, start
<1> QED
  BY <1>7, <1>8, <1>9, <1>13
\* The old children a splice takes back, after those of the reading: each lies where
\* it lay, moved with the text.
LEMMA TakenBackFollows ==
  ASSUME IInv, EditOK, edit.resumed # 0, NEW c, Laid(c, LineStart(reader.line)), reader.line \in Nat,
         NEW given, Follows(given, c), given \in Seq(Entries), Len(given) = Len(c),
         NEW joined \in Nat, joined = IF Len(c) = 0 THEN 0 ELSE c[Len(c)].end
  PROVE  \E c2, b2 : Laid(c2, b2) /\ Follows(given \o TakenBack(joined), c2)
<1> DEFINE m == edit.rest + edit.next
           l == Len(doc) - m
           delta == edit.delta
           moved == Moved(doc, m, l, delta)
           a == LineStart(reader.line)
           g == Len(c)
           c2 == c \o moved
           tail == TakenBack(joined)
           whole == given \o tail
<1>1. /\ edit.rest \in Nat /\ edit.next \in Nat /\ edit.count \in Nat /\ delta \in Int /\ delta % Width = 0
      /\ edit.next < edit.count /\ edit.rest + edit.count <= Len(doc)
  BY DEF EditOK, EditRecords
<1>2. DocOK(doc) /\ doc \in Seq(Entries) /\ Len(doc) \in Nat
  BY DEF IInv, DocOK
<1>3. /\ m \in Nat /\ l \in Nat /\ l > 0 /\ m + l = Len(doc) /\ m + 1 \in 1..Len(doc) /\ (m + 1) - 1 = m /\ m \in 0..Len(doc)
      /\ Len(doc) \in 1..Len(doc)
  <2>1. PICK x \in Nat : x = edit.rest
    BY <1>1
  <2>2. PICK y \in Nat : y = edit.next
    BY <1>1
  <2>3. PICK z \in Nat : z = Len(doc)
    BY <1>2
  <2>4. x + y < z
    BY <1>1, <2>1, <2>2, <2>3
  <2>5. m = x + y /\ l = z - (x + y)
    BY <2>1, <2>2, <2>3
  <2> HIDE DEF m, l
  <2> QED
    BY <2>3, <2>4, <2>5
<1>4. Start(doc, m + 1) + delta = a /\ a \in Nat
  <2>1. edit.rest + edit.next + 1 = m + 1
    OBVIOUS
  <2> QED
    BY <2>1, LineBounds DEF EditOK, Point, Old
<1>5. /\ \A i \in 0..Len(doc) : Ends(doc)[i] \in Nat
      /\ \A i \in 1..Len(doc) : /\ Start(doc, i) \in Nat /\ Start(doc, i) <= Ends(doc)[i]
                                /\ doc[i].lead \in Nat /\ doc[i].span \in Nat /\ doc[i].is \in Blocks
                                /\ Ends(doc)[i] = Ends(doc)[i - 1] + doc[i].lead + doc[i].span
                                /\ Start(doc, i) = Ends(doc)[i - 1] + doc[i].lead
      /\ \A i, j \in 0..Len(doc) : i <= j => Ends(doc)[i] <= Ends(doc)[j]
  BY <1>2, EndsSum, EndsRise, EntryFacts DEF Start
<1>6. DOMAIN doc = 1..Len(doc)
  BY <1>2
<1> HIDE DEF m, delta, a
<1>7. PICK b \in Nat : b = Ends(doc)[m + l] + delta /\ a <= b
  <2>1. PICK z \in Nat : z = Ends(doc)[Len(doc)]
    <3>1. Len(doc) \in 0..Len(doc)
      BY <1>2
    <3> QED
      BY <1>5, <3>1
  <2>2. PICK y \in Nat : y = Ends(doc)[m + 1]
    <3>1. m + 1 \in 0..Len(doc)
      BY <1>3
    <3>2. Ends(doc)[m + 1] \in Nat
      BY <1>5, <3>1
    <3> QED
      BY <3>2
  <2>3. PICK x \in Nat : x = Start(doc, m + 1)
    BY <1>3, <1>5
  <2>4. x <= y
    BY <1>3, <1>5, <2>2, <2>3
  <2>5. y <= z
    <3>1. m + 1 \in 0..Len(doc) /\ Len(doc) \in 0..Len(doc) /\ m + 1 <= Len(doc)
      BY <1>2, <1>3
    <3> QED
      BY <1>5, <2>1, <2>2, <3>1
  <2>6. x + delta = a
    BY <1>4, <2>3
  <2>7. z + delta \in Nat /\ a <= z + delta
    BY <1>1, <1>4, <2>4, <2>5, <2>6
  <2> QED
    BY <1>3, <2>1, <2>7
<1> HIDE DEF l
<1>8. Laid(moved, b)
  <2>1. l > 0 => Start(doc, m + 1) + delta >= 0 /\ Ends(doc)[m + l] + delta <= b
    BY <1>4, <1>7
  <2>2. m + l <= Len(doc)
    BY <1>2, <1>3
  <2> QED
    BY <1>1, <1>2, <1>3, <2>1, <2>2, MovedLaid
<1>9. Len(moved) = l /\ moved \in Seq(Children)
  <2>1. moved \in Seq(Children)
    BY <1>8 DEF Laid
  <2>2. DOMAIN moved = 1..l
    BY DEF Moved
  <2> HIDE DEF moved
  <2> QED
    BY <1>3, <2>1, <2>2
<1>10. \A k \in 1..l : moved[k].start = Start(doc, m + k) + delta /\ moved[k].end = Ends(doc)[m + k] + delta
  BY DEF Moved
<1> HIDE DEF moved
<1>11. Laid(c2, b)
  <2>1. Len(moved) > 0 => a <= moved[1].start
    <3>1. 1 \in 1..l
      BY <1>3
    <3>2. moved[1].start = a
      BY <1>4, <1>10, <3>1
    <3> QED
      BY <1>4, <3>2
  <2> QED
    BY <1>4, <1>7, <1>8, <2>1, LaidConcat DEF a
<1>12. c \in Seq(Children) /\ g \in Nat /\ Len(c2) = g + l
  BY <1>9 DEF Laid
<1>13. \A i \in 1..g : c2[i] = c[i]
  BY <1>9, <1>12
<1>14. ASSUME NEW k \in 1..l PROVE c2[g + k] = moved[k]
  <2>1. g + k \in 1..(g + l) /\ g + k > g /\ (g + k) - g = k
    BY <1>3, <1>12
  <2> QED
    BY <1>9, <1>12, <2>1
<1> DEFINE lead == Ends(doc)[m] + delta - joined
           t0 == SubSeq(doc, m + 1, Len(doc))
<1>15. t0 \in Seq(Entries) /\ Len(t0) = l /\ \A k \in 1..l : t0[k] = doc[m + k]
  <2>1. m + 1 \in Int /\ Len(doc) \in Int /\ \A i \in (m + 1)..Len(doc) : doc[i] \in Entries
    BY <1>2, <1>3
  <2> DEFINE s == m + 1
             e == Len(doc)
  <2>2. s \in Int /\ e \in Int /\ e - s + 1 = l /\ s <= e /\ \A k \in 1..l : s + k - 1 = m + k
    BY <1>2, <1>3
  <2>3. \A i \in s..e : doc[i] \in Entries
    BY <2>1
  <2> HIDE DEF s, e
  <2>4. /\ SubSeq(doc, s, e) \in Seq(Entries)
        /\ Len(SubSeq(doc, s, e)) = IF s <= e THEN e - s + 1 ELSE 0
        /\ \A i \in 1 .. e - s + 1 : SubSeq(doc, s, e)[i] = doc[s + i - 1]
    BY <2>2, <2>3, SubSeqProperties
  <2>5. t0 = SubSeq(doc, s, e)
    BY DEF s, e
  <2> HIDE DEF t0
  <2> QED
    BY <2>2, <2>4, <2>5
<1>16. tail = [k \in DOMAIN t0 |-> IF k = 1 THEN [t0[k] EXCEPT !.lead = @ + lead] ELSE t0[k]]
  BY DEF TakenBack, m, delta
<1>17. DOMAIN t0 = 1..l
  BY <1>15
<1>18. lead \in Int
  <2>1. Ends(doc)[m] \in Nat
    BY <1>3, <1>5
  <2> QED
    BY <1>1, <2>1
<1> HIDE DEF t0, lead, tail
<1>19. ASSUME NEW k \in 1..l
       PROVE  /\ tail[k] \in Extended /\ tail[k].span = doc[m + k].span
              /\ tail[k].lead = IF k = 1 THEN doc[m + k].lead + lead ELSE doc[m + k].lead
  <2>1. m + k \in 1..Len(doc)
    BY <1>3
  <2>2. doc[m + k] \in Entries /\ doc[m + k].lead \in Nat /\ doc[m + k].span \in Nat
    BY <1>2, <1>5, <2>1
  <2>3. tail[k] = IF k = 1 THEN [doc[m + k] EXCEPT !.lead = doc[m + k].lead + lead] ELSE doc[m + k]
    BY <1>15, <1>16, <1>17
  <2>4. doc[m + k].lead + lead \in Int
    BY <1>18, <2>2
  <2> QED
    BY <2>2, <2>3, <2>4 DEF Entries, Extended
<1>20. tail \in [1..l -> Extended] /\ tail \in Seq(Extended) /\ Len(tail) = l
  <2>1. tail \in [1..l -> Extended]
    BY <1>16, <1>17, <1>19
  <2> QED
    BY <1>3, <2>1
<1>21. /\ given \in [1..g -> Extended] /\ given \in Seq(Extended) /\ Len(given) = g
  <2>1. given \in [1..g -> Extended]
    BY DEF Follows
  <2> QED
    BY <1>12, <2>1
<1>22. /\ whole \in Seq(Extended) /\ Len(whole) = g + l /\ whole \in [1..(g + l) -> Extended]
  <2>1. whole \in Seq(Extended) /\ Len(whole) = g + l
    BY <1>12, <1>20, <1>21
  <2> HIDE DEF whole
  <2> QED
    BY <2>1
<1>23. \A i \in 1..g : whole[i] = given[i]
  BY <1>20, <1>21
<1>24. ASSUME NEW k \in 1..l PROVE whole[g + k] = tail[k]
  <2>1. g + k \in 1..(g + l) /\ g + k > g /\ (g + k) - g = k
    BY <1>3, <1>12
  <2>2. \A i \in 1..(g + l) : i > g => whole[i] = tail[i - g]
    <3>1. given \in Seq(Extended) /\ tail \in Seq(Extended)
      BY <1>20, <1>21
    <3>2. \A i \in 1..(Len(given) + Len(tail)) : i > Len(given) => whole[i] = tail[i - Len(given)]
      BY <3>1
    <3> HIDE DEF whole
    <3> QED
      BY <1>20, <1>21, <3>2
  <2> HIDE DEF whole
  <2> QED
    BY <2>1, <2>2
<1> HIDE DEF whole, c2
<1>25. ASSUME NEW i \in 1..g
       PROVE  /\ whole[i].lead = c2[i].start - (IF i = 1 THEN 0 ELSE c2[i - 1].end)
              /\ whole[i].span = c2[i].end - c2[i].start
  <2>1. i # 1 => i - 1 \in 1..g
    BY <1>12
  <2>2. i # 1 => c2[i - 1] = c[i - 1]
    BY <1>13, <2>1
  <2>3. c2[i] = c[i] /\ whole[i] = given[i]
    BY <1>13, <1>23
  <2>4. /\ given[i].lead = c[i].start - (IF i = 1 THEN 0 ELSE c[i - 1].end)
        /\ given[i].span = c[i].end - c[i].start
    BY DEF Follows
  <2> QED
    BY <2>2, <2>3, <2>4
<1>26. ASSUME NEW k \in 1..l
       PROVE  /\ whole[g + k].lead = c2[g + k].start - (IF g + k = 1 THEN 0 ELSE c2[g + k - 1].end)
              /\ whole[g + k].span = c2[g + k].end - c2[g + k].start
  <2>1. PICK j \in 1..Len(doc) : j = m + k /\ j - 1 \in 0..Len(doc) /\ j \in 0..Len(doc)
    BY <1>3
  <2>2. PICK e \in Nat : e = Ends(doc)[j - 1]
    <3>1. Ends(doc)[j - 1] \in Nat
      BY <1>5, <2>1
    <3> QED
      BY <3>1
  <2>3. PICK x \in Nat : x = doc[j].lead
    BY <1>5
  <2>4. PICK y \in Nat : y = doc[j].span
    BY <1>5
  <2>5. Ends(doc)[j] = e + x + y /\ Start(doc, j) = e + x
    BY <1>5, <2>2, <2>3, <2>4
  <2>6. c2[g + k].start = e + x + delta /\ c2[g + k].end = e + x + y + delta
    BY <1>10, <1>14, <2>1, <2>5
  <2>7. whole[g + k].span = y /\ whole[g + k].lead = IF k = 1 THEN x + lead ELSE x
    BY <1>19, <1>24, <2>1, <2>3, <2>4
  <2>8. whole[g + k].span = c2[g + k].end - c2[g + k].start
    BY <1>1, <2>6, <2>7
  <2>9. CASE k = 1
    <3>1. j = m + 1 /\ j - 1 = m
      BY <1>3, <2>1, <2>9
    <3>2. lead = e + delta - joined
      BY <2>2, <3>1 DEF lead
    <3>3. joined = IF g + k = 1 THEN 0 ELSE c2[g + k - 1].end
      <4>1. CASE g = 0
        BY <2>9, <4>1
      <4>2. CASE g # 0
        <5>1. g + k # 1 /\ g + k - 1 = g /\ g \in 1..g
          BY <1>12, <2>9, <4>2
        <5>2. c2[g] = c[g]
          BY <1>13, <5>1
        <5> QED
          BY <4>2, <5>1, <5>2
      <4> QED
        BY <4>1, <4>2
    <3>4. x + (e + delta - joined) = (e + x + delta) - joined
      BY <1>1
    <3> QED
      BY <2>6, <2>7, <2>8, <2>9, <3>2, <3>3, <3>4
  <2>10. CASE k # 1
    <3>1. k - 1 \in 1..l /\ g + k - 1 = g + (k - 1) /\ g + k # 1 /\ m + (k - 1) = j - 1
      BY <1>3, <1>12, <2>1, <2>10
    <3>2. c2[g + k - 1] = moved[k - 1]
      BY <1>14, <3>1
    <3>3. moved[k - 1].end = e + delta
      BY <1>10, <2>2, <3>1
    <3>4. (e + x + delta) - (e + delta) = x
      BY <1>1
    <3> QED
      BY <2>6, <2>7, <2>8, <2>10, <3>1, <3>2, <3>3, <3>4
  <2> QED
    BY <2>9, <2>10
<1>27. ASSUME NEW i \in 1..(g + l)
       PROVE  /\ whole[i].lead = c2[i].start - (IF i = 1 THEN 0 ELSE c2[i - 1].end)
              /\ whole[i].span = c2[i].end - c2[i].start
  <2>1. CASE i \in 1..g
    BY <1>25, <2>1
  <2>2. CASE i \notin 1..g
    <3>1. i - g \in 1..l /\ g + (i - g) = i
      BY <1>3, <1>12, <2>2
    <3> DEFINE k == i - g
    <3>2. k \in 1..l /\ g + k = i
      BY <3>1
    <3> HIDE DEF k
    <3>3. /\ whole[g + k].lead = c2[g + k].start - (IF g + k = 1 THEN 0 ELSE c2[g + k - 1].end)
          /\ whole[g + k].span = c2[g + k].end - c2[g + k].start
      BY <1>26, <3>2
    <3> QED
      BY <3>2, <3>3
  <2> QED
    BY <2>1, <2>2
<1>28. Follows(whole, c2)
  BY <1>12, <1>22, <1>27 DEF Follows
<1> QED
  BY <1>11, <1>28 DEF whole, tail
\* What the flush that ends a reading publishes.
LEMMA FinishedOK ==
  ASSUME IInv, edit.phase \in {"edit", "refresh"}
  PROVE  DocOK(Finished.doc) /\ Finished.reach \in Reaches
<1> DEFINE done == IF edit.resumed > 0 THEN reader ELSE S_close_document(text, reader)
           c == done.children
           given == Extents(c)
           joined == IF given = << >> THEN 0 ELSE Last(done.children).end
           tail == IF edit.resumed > 0 THEN TakenBack(joined) ELSE << >>
           whole == given \o tail
           completed(i) == edit.rest < i /\ i <= Len(given)
           final == [i \in DOMAIN whole |->
                      IF completed(i) THEN [whole[i] EXCEPT !.is = Completed(@, HasRef(whole))] ELSE whole[i]]
           a == LineStart(reader.line)
<1>1. Finished.doc = final /\ Finished.reach = done.reach
  BY DEF Finished
<1>2. Reader(reader, a) /\ EditOK /\ text \in Seq(LineKinds) /\ reader.line \in Nat /\ a \in Nat
  <2>1. Reader(reader, a) /\ EditOK /\ text \in Seq(LineKinds)
    BY DEF IInv
  <2>2. reader.line \in Nat
    BY <2>1, ReaderFacts
  <2> QED
    BY <2>1, <2>2, LineBounds
<1>3. Reader(done, a)
  <2>1. LineStart(Len(text) - 1) \in Int
    BY <1>2 DEF LineStart, Width
  <2>2. Reader(S_close_document(text, reader), a)
    <3> HIDE DEF a
    <3> QED
      BY <1>2, <2>1, ClosedKeeps DEF S_close_document
  <2> QED
    BY <1>2, <2>2
<1> HIDE DEF done, a
<1>4. done.reach \in Reaches /\ Laid(c, a) /\ Len(c) \in Nat
  BY <1>3, ReaderFacts
<1>5. Follows(given, c) /\ DOMAIN given = 1..Len(c) /\ DocOK(given) /\ Len(given) = Len(c) /\ given \in Seq(Entries)
  <2>1. Follows(given, c) /\ DOMAIN given = 1..Len(c)
    BY <1>4, ExtentsFollow
  <2> HIDE DEF given
  <2>2. DocOK(given) /\ Len(given) = Len(c)
    BY <1>4, <2>1, FollowsOK
  <2> QED
    BY <2>1, <2>2 DEF DocOK
<1> HIDE DEF given
<1>6. PICK c2, b2 : Laid(c2, b2) /\ Follows(whole, c2)
  <2>1. CASE edit.resumed > 0
    <3>1. joined \in Nat /\ joined = IF Len(c) = 0 THEN 0 ELSE c[Len(c)].end
      <4>1. given = << >> <=> Len(c) = 0
        BY <1>4, <1>5
      <4>2. Len(c) # 0 => Len(c) \in 1..Len(c)
        BY <1>4
      <4>3. Len(c) # 0 => c[Len(c)].end \in Nat
        BY <1>4, <4>2, LaidFacts
      <4> QED
        BY <4>1, <4>3 DEF Last
    <3>2. edit.resumed # 0
      BY <2>1
    <3>3. tail = TakenBack(joined)
      BY <2>1
    <3> HIDE DEF joined, tail, c
    <3>4. \E c2, b2 : Laid(c2, b2) /\ Follows(given \o TakenBack(joined), c2)
      BY <1>2, <1>4, <1>5, <3>1, <3>2, TakenBackFollows DEF a
    <3> QED
      BY <3>3, <3>4
  <2>2. CASE ~(edit.resumed > 0)
    <3>1. whole = given
      BY <1>5, <2>2
    <3> QED
      BY <1>4, <1>5, <3>1
  <2> QED
    BY <2>1, <2>2
<1> DEFINE declared == HasRef(whole)
           n == Len(c2)
<1> HIDE DEF whole, declared
<1>7. DOMAIN whole = 1..n
  BY <1>6 DEF Follows
<1>8. final = [i \in 1..n |-> IF completed(i) THEN [whole[i] EXCEPT !.is = Completed(whole[i].is, declared)] ELSE whole[i]]
  BY <1>7 DEF declared
<1> HIDE DEF final, completed
<1>9. ASSUME NEW i \in 1..n
      PROVE  final[i] \in Extended /\ final[i].lead = whole[i].lead /\ final[i].span = whole[i].span
  <2>1. whole[i] \in Extended
    BY <1>6 DEF Follows
  <2>2. final[i] = IF completed(i) THEN [whole[i] EXCEPT !.is = Completed(whole[i].is, declared)] ELSE whole[i]
    BY <1>8
  <2>3. CASE completed(i)
    <3>1. final[i] = [whole[i] EXCEPT !.is = Completed(whole[i].is, declared)]
      BY <2>2, <2>3
    <3>2. PICK x \in Extended : x = whole[i]
      BY <2>1
    <3>3. PICK y : y = [x EXCEPT !.is = Completed(x.is, declared)]
      OBVIOUS
    <3>4. y \in Extended /\ y.lead = x.lead /\ y.span = x.span
      BY <3>3, CompletedLies
    <3> QED
      BY <3>1, <3>2, <3>3, <3>4
  <2>4. CASE ~completed(i)
    BY <2>1, <2>2, <2>4
  <2> QED
    BY <2>3, <2>4
<1>10. final \in [1..n -> Extended]
  BY <1>8, <1>9
<1>11. Follows(final, c2)
  BY <1>6, <1>9, <1>10 DEF Follows
<1> QED
  BY <1>1, <1>4, <1>6, <1>11, FollowsOK

LEMMA InitOK == Init => IInv
<1> SUFFICES ASSUME Init PROVE IInv
  OBVIOUS
<1>1. alphabet \in Alphabets /\ alphabet \subseteq LineKinds
  BY RereadAssumption DEF Init
<1>2. text \in Seq(LineKinds)
  <2>1. PICK n \in 0..MaxLines : text \in [1..n -> alphabet]
    BY DEF Init
  <2>2. n \in Nat /\ text \in [1..n -> LineKinds]
    BY <1>1, <2>1, RereadAssumption
  <2> QED
    BY <2>2
<1>3. DocOK(doc) /\ reach \in Reaches
  BY <1>2, FreshOK DEF Init
<1>4. edit.phase \notin {"edit", "refresh"}
  BY DEF Init, Idle
<1> QED
  BY <1>1, <1>2, <1>3, <1>4 DEF IInv

LEMMA EditKeeps ==
  ASSUME IInv, NEW i \in 0..Len(text), NEW j \in i..Len(text), NEW put \in Puts, NEW early \in BOOLEAN,
         Edit(i, j, put, early)
  PROVE  IInv'
<1> DEFINE new == SubSeq(text, 1, i) \o put \o SubSeq(text, j + 1, Len(text))
           edited == IF early THEN i - 1 ELSE i
           delta == LineStart(Len(put)) - LineStart(j - i)
           to == LineStart(j) - (IF early THEN 1 ELSE 0)
<1>1. alphabet \in Alphabets /\ alphabet \subseteq LineKinds /\ text \in Seq(LineKinds) /\ DocOK(doc) /\ reach \in Reaches
      /\ doc \in Seq(Entries)
  BY RereadAssumption DEF IInv, DocOK
<1>2. put \in Seq(LineKinds) /\ Len(put) \in Nat
  <2>1. PICK n \in 0..MaxPut : put \in [1..n -> alphabet]
    BY DEF Puts
  <2>2. n \in Nat /\ put \in [1..n -> LineKinds]
    BY <1>1, <2>1, RereadAssumption
  <2> QED
    BY <2>2
<1>3. i \in Nat /\ j \in Nat /\ i <= j /\ j <= Len(text) /\ Len(text) \in Nat /\ j + 1 \in Int
  BY <1>1
<1>4. new \in Seq(LineKinds)
  <2>1. \A k \in 1..i : text[k] \in LineKinds
    BY <1>1, <1>3
  <2>2. \A k \in (j + 1)..Len(text) : text[k] \in LineKinds
    BY <1>1, <1>3
  <2>3. 1 \in Int /\ i \in Int /\ Len(text) \in Int
    BY <1>3
  <2>4. SubSeq(text, 1, i) \in Seq(LineKinds)
    BY <2>1, <2>3, SubSeqProperties
  <2>5. SubSeq(text, j + 1, Len(text)) \in Seq(LineKinds)
    <3> DEFINE s == j + 1
    <3>1. s \in Int /\ \A k \in s..Len(text) : text[k] \in LineKinds
      BY <1>3, <2>2
    <3> HIDE DEF s
    <3>2. SubSeq(text, s, Len(text)) \in Seq(LineKinds)
      BY <2>3, <3>1, SubSeqProperties
    <3> QED
      BY <3>2 DEF s
  <2> QED
    BY <1>2, <2>4, <2>5
<1>5. delta \in Int /\ delta % Width = 0
  <2>1. PICK p \in Nat : p = Len(put)
    BY <1>2
  <2>2. PICK q \in Nat : q = j - i
    BY <1>3
  <2>3. delta = 4 * p - 4 * q
    BY <2>1, <2>2 DEF LineStart, Width
  <2>4. (4 * p - 4 * q) % 4 = 0
    OBVIOUS
  <2> HIDE DEF delta
  <2> QED
    BY <2>3, <2>4 DEF Width
<1>6. PICK whole \in BOOLEAN :
        Reopened("edit", IF whole THEN 0 ELSE session_rest_root(doc, reach, LineStart(edited)), to, delta, whole)
  BY DEF Edit, Compacts
<1>7. text' = new /\ UNCHANGED <<alphabet, doc, reach>>
  BY DEF Edit
<1> DEFINE rest == IF whole THEN 0 ELSE session_rest_root(doc, reach, LineStart(edited))
<1>8. rest \in 0..Len(doc) /\ (rest # 0 => rest < Len(doc) /\ Spans(reach, Start(doc, rest + 1)) = {})
  <2>1. CASE whole
    BY <1>1, <2>1
  <2>2. CASE ~whole
    <3>1. rest = session_rest_root(doc, reach, LineStart(edited))
      BY <2>2
    <3> HIDE DEF rest, edited
    <3> QED
      BY <1>1, <3>1, RestRoot
  <2> QED
    BY <2>1, <2>2
<1>9. Reopened("edit", rest, to, delta, whole)
  BY <1>6
<1> HIDE DEF rest, to, delta, new
<1>10. Reader(reader', LineStart(reader'.line)) /\ EditOK'
  BY <1>5, <1>7, <1>8, <1>9, ReopenedOK
<1> QED
  BY <1>1, <1>4, <1>7, <1>10 DEF IInv

LEMMA ReadLineKeeps ==
  ASSUME IInv, ReadLine
  PROVE  IInv'
<1>1. /\ Reader(reader, LineStart(reader.line)) /\ EditOK /\ edit.resumed = 0 /\ reader.line < Len(text)
      /\ reader' = S_line_machine(text, reader) /\ UNCHANGED <<alphabet, text, doc, reach, edit>>
  BY DEF ReadLine, Reading, IInv
<1>2. Reader(reader', LineStart(reader'.line))
  BY <1>1, LineKeeps DEF IInv
<1>3. EditOK'
  BY <1>1 DEF EditOK
<1> QED
  BY <1>1, <1>2, <1>3 DEF IInv

LEMMA PassKeeps ==
  ASSUME IInv, Pass
  PROVE  IInv'
<1> DEFINE e == [edit EXCEPT !.next = @ + 1]
           f == S_edit_next(e)
<1>1. /\ Reader(reader, LineStart(reader.line)) /\ EditOK /\ edit.resumed = 0 /\ edit.next < edit.count
      /\ edit' = f /\ UNCHANGED <<alphabet, text, doc, reach, reader>>
  BY DEF Pass, AtPoint, Reading, IInv
<1>2. /\ e \in EditRecords(edit.to) /\ e.next <= e.count
      /\ e.rest = edit.rest /\ e.from = edit.from /\ e.to = edit.to /\ e.delta = edit.delta
      /\ e.count = edit.count /\ e.resumed = edit.resumed /\ e.kept = edit.kept
  <2>1. edit \in EditRecords(edit.to) /\ edit.next \in Nat /\ edit.count \in Nat
    BY <1>1 DEF EditOK, EditRecords
  <2> QED
    BY <1>1, <2>1 DEF EditRecords
<1> HIDE DEF e
<1>3. /\ f \in EditRecords(edit.to) /\ f.next <= f.count
      /\ f.rest = edit.rest /\ f.from = edit.from /\ f.to = edit.to /\ f.delta = edit.delta
      /\ f.count = edit.count /\ f.resumed = edit.resumed /\ f.kept = edit.kept
  BY <1>2, EditNext
<1> HIDE DEF f
<1>4. EditOK'
  BY <1>1, <1>3 DEF EditOK
<1> QED
  BY <1>1, <1>4 DEF IInv

LEMMA SpliceKeeps ==
  ASSUME IInv, Splice
  PROVE  IInv'
<1> DEFINE a == LineStart(reader.line)
           cut == Cut(edit.back, Old(edit), edit.delta)
<1>1. /\ Reader(reader, a) /\ EditOK /\ edit.next < edit.count /\ a = Point(edit) /\ ~reader.open
      /\ reader' = [reader EXCEPT !.reach = @ \cup cut, !.pending = FALSE]
      /\ edit' = [edit EXCEPT !.resumed = Point(edit)]
      /\ UNCHANGED <<alphabet, text, doc, reach>>
  BY DEF Splice, AtPoint, Reading, IInv, S_resumes
<1>2. reader.line \in Nat /\ a \in Nat /\ reader \in Readers /\ reader.reach \in Reaches
  <2>1. reader.line \in Nat /\ reader.reach \in Reaches
    BY <1>1, ReaderFacts
  <2> QED
    BY <1>1, <2>1, LineBounds DEF Reader
<1>3. /\ edit \in EditRecords(edit.to) /\ edit.rest \in Nat /\ edit.next \in Nat /\ edit.count \in Nat
      /\ edit.delta \in Int /\ edit.back \in Reaches /\ edit.rest + edit.count <= Len(doc)
  BY <1>1 DEF EditOK, EditRecords
<1>4. Old(edit) \in Nat /\ Old(edit) + edit.delta = a
  <2>1. doc \in Seq(Entries) /\ Len(doc) \in Nat
    BY DEF IInv, DocOK
  <2>2. edit.rest + edit.next + 1 \in 1..Len(doc)
    BY <1>1, <1>3, <2>1
  <2>3. Old(edit) \in Nat
    BY <2>1, <2>2, EndsRise DEF Old
  <2> QED
    BY <1>1, <2>3 DEF Point
<1> HIDE DEF a
<1>5. cut \in Reaches
  <2>1. ASSUME NEW x \in cut PROVE x \in Nat \X Int
    <3>1. PICK e \in edit.back : e[1] >= Old(edit) /\ x = <<e[1] + edit.delta, e[2] + edit.delta>>
      BY DEF Cut
    <3>2. e[1] \in Nat /\ e[2] \in Int
      BY <1>3 DEF Reaches
    <3>3. e[1] + edit.delta \in Nat /\ e[2] + edit.delta \in Int
      <4>1. PICK y \in Nat : y = e[1]
        BY <3>2
      <4>2. PICK z \in Int : z = e[2]
        BY <3>2
      <4>3. PICK o \in Nat : o = Old(edit)
        BY <1>4
      <4>4. PICK d \in Int : d = edit.delta
        BY <1>3
      <4>5. o + d = a /\ y >= o
        BY <1>4, <3>1, <4>1, <4>3, <4>4
      <4>6. y + d \in Nat /\ z + d \in Int
        BY <1>2, <4>5
      <4> QED
        BY <4>1, <4>2, <4>4, <4>6
    <3> QED
      BY <3>1, <3>3
  <2> QED
    BY <2>1 DEF Reaches
<1> HIDE DEF cut
<1>6. reader.reach \cup cut \in Reaches
  BY <1>2, <1>5 DEF Reaches
<1>7. reader' \in Readers /\ reader'.line = reader.line /\ reader'.children = reader.children
      /\ reader'.open = reader.open /\ ~reader'.pending
  BY <1>1, <1>2, <1>6 DEF Readers
<1>8. Reader(reader', LineStart(reader'.line))
  BY <1>1, <1>7 DEF Reader, a
<1>9. /\ edit' \in EditRecords(edit.to) /\ edit'.rest = edit.rest /\ edit'.count = edit.count /\ edit'.next = edit.next
      /\ edit'.delta = edit.delta /\ edit'.kept = edit.kept /\ edit'.from = edit.from /\ edit'.to = edit.to
  <2>1. Point(edit) \in Int
    BY <1>1, <1>2
  <2> QED
    BY <1>1, <1>3, <2>1 DEF EditRecords
<1>10. Point(edit') = a /\ LineStart(reader'.line) = a
  BY <1>1, <1>4, <1>7, <1>9 DEF Point, Old, a
<1>11. EditOK'
  <2>1. (Point(edit) = LineStart(reader.line))'
    BY <1>1, <1>10 DEF Point, Old
  <2> QED
    BY <1>1, <1>9, <2>1 DEF EditOK
<1> QED
  BY <1>1, <1>8, <1>11 DEF IInv

LEMMA FlushKeeps ==
  ASSUME IInv, Flush
  PROVE  IInv'
<1>1. edit.phase \in {"edit", "refresh"} /\ doc' = Finished.doc /\ reach' = Finished.reach /\ UNCHANGED <<alphabet, text>>
  BY DEF Flush
<1>2. DocOK(doc') /\ reach' \in Reaches
  BY <1>1, FinishedOK
<1>3. edit'.phase \notin {"edit", "refresh"}
  <2>1. edit' = [Idle EXCEPT !.phase = IF places' = << >> THEN "idle" ELSE "asked"]
    BY DEF Flush
  <2> QED
    BY <2>1 DEF Idle
<1> QED
  BY <1>1, <1>2, <1>3 DEF IInv

LEMMA RefreshKeeps ==
  ASSUME IInv, Refresh
  PROVE  IInv'
<1>1. PICK offset, to : Reopened("refresh", session_rest_root(doc, reach, offset), to, 0, FALSE)
  BY DEF Refresh
<1>2. UNCHANGED <<alphabet, text, doc, reach>>
  BY DEF Refresh
<1> DEFINE rest == session_rest_root(doc, reach, offset)
<1>3. rest \in 0..Len(doc) /\ (rest # 0 => rest < Len(doc) /\ Spans(reach, Start(doc, rest + 1)) = {})
  <2>1. doc \in Seq(Entries) /\ reach \in Reaches
    BY DEF IInv, DocOK
  <2> QED
    BY <2>1, RestRoot
<1>4. 0 \in Int /\ 0 % Width = 0 /\ FALSE \in BOOLEAN
  BY DEF Width
<1>5. Reopened("refresh", rest, to, 0, FALSE)
  BY <1>1
<1> HIDE DEF rest
<1>6. Reader(reader', LineStart(reader'.line)) /\ EditOK'
  BY <1>2, <1>3, <1>4, <1>5, ReopenedOK
<1> QED
  BY <1>2, <1>6 DEF IInv

LEMMA NextKeeps == IInv /\ [Next]_vars => IInv'
<1> SUFFICES ASSUME IInv, [Next]_vars PROVE IInv'
  OBVIOUS
<1>1. CASE \E i \in 0..Len(text) : \E j \in i..Len(text), put \in Puts, early \in BOOLEAN : Edit(i, j, put, early)
  BY <1>1, EditKeeps
<1>2. CASE ReadLine
  BY <1>2, ReadLineKeeps
<1>3. CASE Pass
  BY <1>3, PassKeeps
<1>4. CASE Splice
  BY <1>4, SpliceKeeps
<1>5. CASE Flush
  BY <1>5, FlushKeeps
<1>6. CASE Refresh
  BY <1>6, RefreshKeeps
<1>7. CASE UNCHANGED vars
  BY <1>7 DEF vars, IInv, EditOK, Point, Old
<1> QED
  BY <1>1, <1>2, <1>3, <1>4, <1>5, <1>6, <1>7 DEF Next

\* Every child of the root starts a line, through every edit and refresh: of a
\* document that readings made and of one a splice put together.
ChildrenStartLines == \A i \in 1..Len(doc) : Start(doc, i) % Width = 0

\* What every reading, reopen and splice keeps.
THEOREM Invariance == Spec => []IInv
<1> QED
  BY InitOK, NextKeeps, PTL DEF Spec

\* The document's children each start a line, as session_rest_root needs of a rest
\* point (elements/session.c).
THEOREM ChildrenAlwaysStartLines == Spec => []ChildrenStartLines
<1>1. IInv => ChildrenStartLines
  BY DEF IInv, DocOK, ChildrenStartLines
<1> QED
  BY Invariance, <1>1, PTL

\* The assertion of markdown_core_parser_reopen never fails: no reading that is kept
\* before the rest point read past it.
THEOREM RestAlwaysUnspanned == Spec => []RestUnspanned
<1>1. IInv => RestUnspanned
  BY DEF IInv, EditOK, RestUnspanned
<1> QED
  BY Invariance, <1>1, PTL
===============================================================================
