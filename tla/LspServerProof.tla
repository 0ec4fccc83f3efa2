---------------------------- MODULE LspServerProof ----------------------------
(***************************************************************************)
(* Proofs about LspServer: for every capacity, every hash and every order  *)
(* of calls a probe finds what the table holds, and the server implements  *)
(* the store of documents without a table.                                 *)
(*                                                                         *)
(* Distances in the table are measured around its end: Dist(n, h, s) is    *)
(* how many slots a probe from home `h' passes before slot `s'.            *)
(***************************************************************************)
EXTENDS LspServer, FiniteSetTheorems, Groundwork, TLAPS

-------------------------------------------------------------------------------
(* Numbers.                                                                *)

\* A remainder is less than the divisor.
LEMMA ModRange ==
  ASSUME NEW a \in Nat, NEW n \in Nat, n > 0
  PROVE  (a % n) \in 0..(n - 1)
OBVIOUS

LEMMA DivMod ==
  ASSUME NEW a \in Nat, NEW n \in Nat, n > 0
  PROVE  a = n * (a \div n) + (a % n) /\ a \div n \in Nat
OBVIOUS

LEMMA MultipleGrows ==
  ASSUME NEW n \in Nat, NEW p \in Int, NEW q \in Int, p < q
  PROVE  n * p + n <= n * q
<1>1. n * (q - p - 1) >= 0
  OBVIOUS
<1>2. QED
  BY <1>1

LEMMA RemainderUnique ==
  ASSUME NEW n \in Nat, n > 0, NEW p \in Int, NEW q \in Int,
         NEW r \in 0..(n - 1), NEW s \in 0..(n - 1), n * p + r = n * q + s
  PROVE  r = s
<1>1. n * p \in Int /\ n * q \in Int
  OBVIOUS
<1>2. CASE p < q
  BY <1>1, <1>2, MultipleGrows
<1>3. CASE q < p
  BY <1>1, <1>3, MultipleGrows
<1>4. CASE p = q
  BY <1>1, <1>4
<1>5. QED
  BY <1>2, <1>3, <1>4

\* The slot `k' after home `h' of a table of `n'.
Wrapped(n, i) == IF i < n THEN i ELSE i - n

\* The slot a probe is at after `k' steps, without a remainder of the sum.
LEMMA ModShift ==
  ASSUME NEW a \in Nat, NEW n \in Nat, n > 0, NEW k \in 0..(n - 1)
  PROVE  (a + k) % n = Wrapped(n, (a % n) + k)
<1> DEFINE r == Wrapped(n, (a % n) + k)
           d == a \div n
           e == (a + k) \div n
           m == (a + k) % n
<1>1. a = n * d + (a % n) /\ d \in Int /\ (a % n) \in 0..(n - 1)
  BY DivMod, ModRange
<1>2. a + k = n * e + m /\ e \in Int /\ m \in 0..(n - 1)
  BY DivMod, ModRange
<1>3. r \in 0..(n - 1)
  BY <1>1 DEF Wrapped
<1> HIDE DEF d, e, m
<1>4. \E q \in Int : a + k = n * q + r
  <2>1. CASE (a % n) + k < n
    <3>1. a + k = n * d + r
      BY <2>1, <1>1 DEF Wrapped
    <3>2. QED
      BY <3>1, <1>1
  <2>2. CASE ~((a % n) + k < n)
    <3>1. n * (d + 1) = n * d + n
      BY <1>1
    <3>2. a + k = n * (d + 1) + r
      BY <2>2, <3>1, <1>1 DEF Wrapped
    <3>3. d + 1 \in Int
      BY <1>1
    <3>4. QED
      BY <3>2, <3>3, Zenon
  <2>3. QED
    BY <2>1, <2>2
<1> HIDE DEF r
<1>5. m = r
  BY <1>2, <1>3, <1>4, RemainderUnique
<1>6. QED
  BY <1>5 DEF m, r

\* The next slot of a table of `n', around its end.
LEMMA NextSlot ==
  ASSUME NEW n \in Nat, n > 1, NEW s \in 0..(n - 1)
  PROVE  (s + 1) % n = Wrapped(n, s + 1)
<1>1. s % n = s
  OBVIOUS
<1>2. QED
  BY <1>1, ModShift

-------------------------------------------------------------------------------
(* Distances around a table of `n' slots.                                  *)

Dist(n, h, s) == IF h <= s THEN s - h ELSE s + n - h

LEMMA DistFacts ==
  ASSUME NEW n \in Nat, n > 0, NEW h \in 0..(n - 1)
  PROVE  /\ \A s \in 0..(n - 1) : Dist(n, h, s) \in 0..(n - 1)
         /\ \A s \in 0..(n - 1) : Wrapped(n, h + Dist(n, h, s)) = s
         /\ \A k \in 0..(n - 1) : Wrapped(n, h + k) \in 0..(n - 1)
         /\ \A k \in 0..(n - 1) : Dist(n, h, Wrapped(n, h + k)) = k
         /\ \A s, t \in 0..(n - 1) : Dist(n, h, s) = Dist(n, h, t) => s = t
BY DEF Dist, Wrapped

-------------------------------------------------------------------------------
(* A table: `n' slots, each a record or Empty.                             *)

Records == [uri : Uris, version : Versions, text : Texts]
Tables(n) == [0..(n - 1) -> Records \cup {Empty}]
HeldIn(table, n) == {s \in 0..(n - 1) : table[s] # Empty}
Kept(table, n) == {table[s] : s \in HeldIn(table, n)}
Home(n, u) == hash[u] % n

\* No URI has two records.
Single(table, n) ==
  \A s, t \in HeldIn(table, n) : table[s].uri = table[t].uri => s = t

\* From a record's home to its slot no slot is empty.
Reached(table, n) ==
  \A s \in HeldIn(table, n), t \in 0..(n - 1) :
    Dist(n, Home(n, table[s].uri), t) < Dist(n, Home(n, table[s].uri), s) => table[t] # Empty

Sound(table, n) == table \in Tables(n) /\ Single(table, n) /\ Reached(table, n)
Roomy(table, n) == \E s \in 0..(n - 1) : table[s] = Empty
Has(table, n, u) == \E s \in HeldIn(table, n) : table[s].uri = u

HashOK == hash \in [Uris -> Nat]

LEMMA EmptyIsNoRecord == Empty \notin Records
BY DEF Empty, Records

LEMMA HomeRange ==
  ASSUME HashOK, NEW n \in Nat, n > 0, NEW u \in Uris
  PROVE  Home(n, u) \in 0..(n - 1)
BY ModRange DEF HashOK, Home

\* What ends a probe for `u' at slot `s'.
Ends(table, u, s) == table[s] = Empty \/ table[s].uri = u

\* A probe ends at the first slot from its home that is empty or its record's.
LEMMA ProbeFirst ==
  ASSUME HashOK, NEW n \in Nat, n > 0, NEW table, NEW u \in Uris,
         NEW e \in 0..(n - 1), Ends(table, u, e)
  PROVE  /\ ProbeStops(table, n, u) # {}
         /\ Probe(table, n, u) \in 0..(n - 1)
         /\ Ends(table, u, Probe(table, n, u))
         /\ \A t \in 0..(n - 1) :
              Dist(n, Home(n, u), t) < Dist(n, Home(n, u), Probe(table, n, u)) => ~Ends(table, u, t)
<1> DEFINE h == Home(n, u)
           stops == ProbeStops(table, n, u)
           first == CHOOSE k \in stops : \A other \in stops : k <= other
<1>1. h \in 0..(n - 1) /\ hash[u] \in Nat
  BY HomeRange DEF HashOK
<1>2. \A k \in 0..(n - 1) : (hash[u] + k) % n = Wrapped(n, h + k)
  BY <1>1, ModShift DEF Home
<1>3. stops = {k \in 0..(n - 1) : Ends(table, u, Wrapped(n, h + k))}
  BY <1>2 DEF ProbeStops, Ends
<1>4. stops \in SUBSET Nat
  BY <1>3
<1>5. Dist(n, h, e) \in stops
  BY <1>1, <1>3, DistFacts
<1>6. first \in stops /\ \A other \in stops : first <= other
  <2>1. \E k \in stops : \A other \in stops : k <= other
    BY <1>4, <1>5, LeastNatural
  <2>2. QED
    BY <2>1
<1>7. Probe(table, n, u) = (hash[u] + first) % n
  BY DEF Probe
<1> HIDE DEF first, stops, h
<1>8. first \in 0..(n - 1) /\ Probe(table, n, u) = Wrapped(n, h + first)
  BY <1>2, <1>3, <1>6, <1>7
<1>9. /\ Probe(table, n, u) \in 0..(n - 1)
      /\ Ends(table, u, Probe(table, n, u))
      /\ Dist(n, h, Probe(table, n, u)) = first
  <2>1. Wrapped(n, h + first) \in 0..(n - 1) /\ Dist(n, h, Wrapped(n, h + first)) = first
    BY <1>1, <1>8, DistFacts
  <2>2. Ends(table, u, Wrapped(n, h + first))
    BY <1>3, <1>6
  <2>3. QED
    BY <1>8, <2>1, <2>2
<1>10. ASSUME NEW t \in 0..(n - 1), Dist(n, h, t) < first
       PROVE  ~Ends(table, u, t)
  <2>1. Dist(n, h, t) \in 0..(n - 1) /\ Wrapped(n, h + Dist(n, h, t)) = t
    BY <1>1, DistFacts
  <2>2. Dist(n, h, t) \notin stops
    BY <1>6, <1>10, <2>1, <1>8
  <2>3. QED
    BY <1>3, <2>1, <2>2
<1>11. \A t \in 0..(n - 1) : Dist(n, h, t) < Dist(n, h, Probe(table, n, u)) => ~Ends(table, u, t)
  BY <1>9, <1>10, Zenon
<1>12. ProbeStops(table, n, u) # {}
  BY <1>5, Zenon DEF stops
<1>13. QED
  BY <1>9, <1>11, <1>12 DEF h

\* A probe for the URI of a record finds that record.
LEMMA ProbeHeld ==
  ASSUME HashOK, NEW n \in Nat, n > 0, NEW table, Sound(table, n), NEW s \in HeldIn(table, n)
  PROVE  Probe(table, n, table[s].uri) = s /\ ProbeStops(table, n, table[s].uri) # {}
<1> DEFINE u == table[s].uri
           h == Home(n, u)
           p == Probe(table, n, u)
<1>1. s \in 0..(n - 1) /\ u \in Uris /\ Ends(table, u, s)
  BY EmptyIsNoRecord DEF HeldIn, Sound, Tables, Records, Ends
<1>2. h \in 0..(n - 1)
  BY <1>1, HomeRange
<1>3. /\ p \in 0..(n - 1) /\ Ends(table, u, p) /\ ProbeStops(table, n, u) # {}
      /\ \A t \in 0..(n - 1) : Dist(n, h, t) < Dist(n, h, p) => ~Ends(table, u, t)
  BY <1>1, ProbeFirst
<1> HIDE DEF p
<1>4. Dist(n, h, s) \in Int /\ Dist(n, h, p) \in Int
  BY <1>1, <1>2, <1>3, DistFacts
<1>5. Dist(n, h, p) <= Dist(n, h, s)
  BY <1>1, <1>3, <1>4
<1>6. CASE Dist(n, h, p) < Dist(n, h, s)
  <2>1. table[p] # Empty
    BY <1>3, <1>6 DEF Sound, Reached
  <2>2. p \in HeldIn(table, n) /\ table[p].uri = table[s].uri
    BY <1>3, <2>1 DEF HeldIn, Ends
  <2>3. p = s
    BY <2>2 DEF Sound, Single
  <2>4. QED
    BY <2>3, <1>3 DEF p
<1>7. CASE Dist(n, h, p) = Dist(n, h, s)
  BY <1>1, <1>2, <1>3, <1>7, DistFacts DEF p
<1>8. QED
  BY <1>4, <1>5, <1>6, <1>7

\* A probe for a URI that has no record ends at an empty slot.
LEMMA ProbeAbsent ==
  ASSUME HashOK, NEW n \in Nat, n > 0, NEW table, Roomy(table, n),
         NEW u \in Uris, ~Has(table, n, u)
  PROVE  /\ Probe(table, n, u) \in 0..(n - 1) /\ table[Probe(table, n, u)] = Empty
         /\ ProbeStops(table, n, u) # {}
<1>1. PICK e \in 0..(n - 1) : Ends(table, u, e)
  BY DEF Roomy, Ends
<1>2. /\ Probe(table, n, u) \in 0..(n - 1) /\ Ends(table, u, Probe(table, n, u))
      /\ ProbeStops(table, n, u) # {}
  BY <1>1, ProbeFirst
<1>3. QED
  BY <1>2 DEF Ends, Has, HeldIn

LEMMA HeldFinite ==
  ASSUME NEW n \in Nat, NEW table
  PROVE  /\ IsFiniteSet(HeldIn(table, n)) /\ Cardinality(HeldIn(table, n)) \in 0..n
         /\ Cardinality(HeldIn(table, n)) < n => Roomy(table, n)
<1>1. IsFiniteSet(0..(n - 1)) /\ Cardinality(0..(n - 1)) = n
  BY FS_Interval
<1>2. HeldIn(table, n) \subseteq 0..(n - 1)
  BY DEF HeldIn
<1>3. IsFiniteSet(HeldIn(table, n)) /\ Cardinality(HeldIn(table, n)) <= n
  BY <1>1, <1>2, FS_Subset
<1>4. Cardinality(HeldIn(table, n)) \in Nat
  BY <1>3, FS_CardinalityType
<1>5. ASSUME ~Roomy(table, n) PROVE Cardinality(HeldIn(table, n)) = n
  <2>1. HeldIn(table, n) = 0..(n - 1)
    BY <1>5 DEF HeldIn, Roomy
  <2>2. QED
    BY <2>1, <1>1
<1>6. QED
  BY <1>3, <1>4, <1>5

Put(table, n, r) == [table EXCEPT ![Probe(table, n, r.uri)] = r]

\* A record put where a probe for its URI ends: the record that had its URI goes.
LEMMA InsertSound ==
  ASSUME HashOK, NEW n \in Nat, n > 0, NEW table, Sound(table, n), Roomy(table, n),
         NEW r \in Records
  PROVE  /\ Probe(table, n, r.uri) \in 0..(n - 1)
         /\ Sound(Put(table, n, r), n)
         /\ HeldIn(Put(table, n, r), n) = HeldIn(table, n) \cup {Probe(table, n, r.uri)}
         /\ table[Probe(table, n, r.uri)] = Empty <=> ~Has(table, n, r.uri)
         /\ Kept(Put(table, n, r), n) = {x \in Kept(table, n) : x.uri # r.uri} \cup {r}
<1> DEFINE u == r.uri
           h == Home(n, u)
           p == Probe(table, n, u)
           new == [table EXCEPT ![p] = r]
<1>1. u \in Uris /\ r # Empty
  BY EmptyIsNoRecord DEF Records
<1>2. PICK e \in 0..(n - 1) : Ends(table, u, e)
  BY DEF Roomy, Ends
<1>3. /\ p \in 0..(n - 1) /\ Ends(table, u, p)
      /\ \A t \in 0..(n - 1) : Dist(n, h, t) < Dist(n, h, p) => ~Ends(table, u, t)
  BY <1>1, <1>2, ProbeFirst
<1>4. table[p] = Empty <=> ~Has(table, n, u)
  <2>1. ASSUME Has(table, n, u) PROVE table[p] # Empty
    <3>1. PICK s \in HeldIn(table, n) : table[s].uri = u
      BY <2>1 DEF Has
    <3>2. p = s
      BY <3>1, ProbeHeld
    <3>3. QED
      BY <3>2 DEF HeldIn
  <2>2. ASSUME ~Has(table, n, u) PROVE table[p] = Empty
    BY <2>2, <1>1, ProbeAbsent
  <2>3. QED
    BY <2>1, <2>2
<1> HIDE DEF p
<1>5. /\ table \in [0..(n - 1) -> Records \cup {Empty}]
      /\ new \in [0..(n - 1) -> Records \cup {Empty}]
      /\ new[p] = r
      /\ \A s \in 0..(n - 1) : s # p => new[s] = table[s]
  BY <1>3 DEF Sound, Tables
<1> HIDE DEF new
<1>6. HeldIn(new, n) = HeldIn(table, n) \cup {p}
  BY <1>1, <1>3, <1>5 DEF HeldIn
<1>7. \A s \in HeldIn(table, n) : table[s].uri = u => s = p
  BY ProbeHeld DEF p
<1>8. Single(new, n)
  <2> SUFFICES ASSUME NEW s \in HeldIn(new, n), NEW t \in HeldIn(new, n), new[s].uri = new[t].uri
               PROVE  s = t
    BY DEF Single
  <2>1. CASE s = p \/ t = p
    BY <2>1, <1>3, <1>5, <1>6, <1>7 DEF HeldIn
  <2>2. CASE s # p /\ t # p
    <3>1. s \in HeldIn(table, n) /\ t \in HeldIn(table, n) /\ table[s].uri = table[t].uri
      BY <2>2, <1>5, <1>6 DEF HeldIn
    <3>2. QED
      BY <3>1 DEF Sound, Single
  <2>3. QED
    BY <2>1, <2>2
<1>9. Reached(new, n)
  <2> SUFFICES ASSUME NEW s \in HeldIn(new, n), NEW t \in 0..(n - 1),
                      Dist(n, Home(n, new[s].uri), t) < Dist(n, Home(n, new[s].uri), s)
               PROVE  new[t] # Empty
    BY DEF Reached
  <2>1. CASE t = p
    BY <2>1, <1>1, <1>5
  <2>2. CASE t # p /\ s = p
    <3>1. ~Ends(table, u, t)
      BY <2>2, <1>3, <1>5
    <3>2. QED
      BY <3>1, <2>2, <1>5 DEF Ends
  <2>3. CASE t # p /\ s # p
    <3>1. s \in HeldIn(table, n) /\ new[s] = table[s] /\ new[t] = table[t]
      BY <2>3, <1>5, <1>6 DEF HeldIn
    <3>2. QED
      BY <3>1 DEF Sound, Reached
  <2>4. QED
    BY <2>1, <2>2, <2>3
<1>10. Kept(new, n) = {x \in Kept(table, n) : x.uri # r.uri} \cup {r}
  <2>1. ASSUME NEW x \in Kept(new, n) PROVE x \in {y \in Kept(table, n) : y.uri # r.uri} \cup {r}
    <3>1. PICK s \in HeldIn(new, n) : x = new[s]
      BY <2>1 DEF Kept
    <3>2. CASE s = p
      BY <3>1, <3>2, <1>5
    <3>3. CASE s # p
      <4>1. s \in HeldIn(table, n) /\ x = table[s]
        BY <3>1, <3>3, <1>5, <1>6 DEF HeldIn
      <4>2. x.uri # r.uri
        BY <4>1, <3>3, <1>7
      <4>3. QED
        BY <4>1, <4>2 DEF Kept
    <3>4. QED
      BY <3>2, <3>3
  <2>2. r \in Kept(new, n)
    BY <1>5, <1>6 DEF Kept
  <2>3. ASSUME NEW x \in Kept(table, n), x.uri # r.uri PROVE x \in Kept(new, n)
    <3>1. PICK s \in HeldIn(table, n) : x = table[s]
      BY <2>3 DEF Kept
    <3>2. s # p
      BY <3>1, <2>3, <1>3 DEF Ends, HeldIn
    <3>3. new[s] = x /\ s \in HeldIn(new, n)
      BY <3>1, <3>2, <1>5, <1>6 DEF HeldIn
    <3>4. QED
      BY <3>3 DEF Kept
  <2>4. QED
    BY <2>1, <2>2, <2>3
<1>11. Sound(new, n)
  BY <1>5, <1>8, <1>9 DEF Sound, Tables
<1>12. QED
  BY <1>3, <1>4, <1>6, <1>10, <1>11 DEF new, p, Put

-------------------------------------------------------------------------------
(* widen.                                                                  *)

\* The wider table holds what the table held, and is sound.
LEMMA WidenedSound ==
  ASSUME HashOK, capacity \in Nat, capacity > 0, Sound(slots, capacity)
  PROVE  /\ Sound(Widened, 2 * capacity)
         /\ Kept(Widened, 2 * capacity) = Kept(slots, capacity)
         /\ Cardinality(HeldIn(Widened, 2 * capacity)) = Cardinality(HeldIn(slots, capacity))
<1> DEFINE n == 2 * capacity
           b == [s \in 0..(n - 1) |-> Empty]
           Held0 == HeldIn(slots, capacity)
           Below(i) == {j \in Held0 : j < i}
           f == CHOOSE f : f = [i \in 0..capacity |-> IF i = 0 THEN b ELSE WidenStep(f[i - 1], i)]
<1>1. Widened = f[capacity]
  BY Zenon DEF Widened
<1>n. n \in Nat /\ n > capacity
  OBVIOUS
<1>2. b \in Tables(n)
  BY DEF Tables
<1>3. ASSUME NEW i \in 1..capacity, NEW table \in Tables(n)
      PROVE  WidenStep(table, i) \in Tables(n)
  <2>1. slots[i - 1] \in Records \cup {Empty}
    BY DEF Sound, Tables
  <2>2. QED
    BY <2>1 DEF WidenStep, Tables
<1>4. \E g : g = [i \in 0..capacity |-> IF i = 0 THEN b ELSE WidenStep(g[i - 1], i)]
  <2> DEFINE F == [i \in 1..capacity |-> [table \in Tables(n) |-> WidenStep(table, i)]]
  <2>1. F \in [1..capacity -> [Tables(n) -> Tables(n)]]
    BY <1>3
  <2>2. \A i \in 1..capacity : \A table \in Tables(n) : F[i][table] = WidenStep(table, i)
    OBVIOUS
  <2> HIDE DEF F, b, n
  <2>3. PICK g \in [0..capacity -> Tables(n)] :
          g[0] = b /\ \A i \in 1..capacity : g[i] = F[i][g[i - 1]]
    <3>1. Runs(Tables(n), capacity, b, F)
      BY <2>1, <1>2, Iterated
    <3>2. QED
      BY <3>1 DEF Runs
  <2>4. ASSUME NEW i \in 1..capacity PROVE g[i] = WidenStep(g[i - 1], i)
    <3>1. g[i - 1] \in Tables(n)
      OBVIOUS
    <3>2. QED
      BY <2>2, <2>3, <3>1
  <2>5. g = [i \in 0..capacity |-> IF i = 0 THEN b ELSE WidenStep(g[i - 1], i)]
    BY <2>3, <2>4
  <2>6. QED
    BY <2>5
<1>5. f = [i \in 0..capacity |-> IF i = 0 THEN b ELSE WidenStep(f[i - 1], i)]
  BY <1>4, Zenon
<1> HIDE DEF f
<1>6. f[0] = b /\ \A i \in 0..(capacity - 1) : f[i + 1] = WidenStep(f[i], i + 1)
  <2> HIDE DEF b
  <2>1. f[0] = b
    BY <1>5
  <2>2. ASSUME NEW i \in 0..(capacity - 1) PROVE f[i + 1] = WidenStep(f[i], i + 1)
    <3>1. i + 1 \in 0..capacity /\ i + 1 # 0 /\ i + 1 - 1 = i
      OBVIOUS
    <3>2. f[i + 1] = WidenStep(f[i + 1 - 1], i + 1)
      BY <1>5, <3>1
    <3>3. QED
      BY <3>1, <3>2
  <2>3. QED
    BY <2>1, <2>2
<1> DEFINE Fine(i) == /\ Sound(f[i], n)
                      /\ Kept(f[i], n) = {slots[j] : j \in Below(i)}
                      /\ Cardinality(HeldIn(f[i], n)) = Cardinality(Below(i))
<1>7. Fine(0)
  <2>1. HeldIn(b, n) = {} /\ Below(0) = {}
    BY DEF HeldIn
  <2>2. Sound(b, n) /\ Kept(b, n) = {}
    BY <1>2, <2>1 DEF Sound, Single, Reached, Kept
  <2>3. QED
    BY <1>6, <2>1, <2>2
<1> HIDE DEF n, b
<1>8. ASSUME NEW i \in 0..(capacity - 1), Fine(i) PROVE Fine(i + 1)
  <2>1. IsFiniteSet(Below(i)) /\ Cardinality(Below(i)) <= capacity /\ Cardinality(Below(i)) \in Nat
    BY HeldFinite, FS_Subset, FS_CardinalityType
  <2>2. Roomy(f[i], n)
    BY <1>8, <1>n, <2>1, HeldFinite
  <2>3. f[i + 1] = WidenStep(f[i], i + 1) /\ i + 1 - 1 = i
    BY <1>6
  <2>4. CASE slots[i] = Empty
    <3>1. f[i + 1] = f[i]
      BY <2>3, <2>4 DEF WidenStep
    <3>2. Below(i + 1) = Below(i)
      BY <2>4 DEF HeldIn
    <3>3. QED
      BY <3>1, <3>2, <1>8
  <2>5. CASE slots[i] # Empty
    <3> DEFINE r == slots[i]
               p == Probe(f[i], n, r.uri)
    <3>1. r \in Records /\ i \in Held0
      BY <2>5 DEF Sound, Tables, HeldIn
    <3>2. f[i + 1] = Put(f[i], n, r)
      BY <2>3, <2>5 DEF WidenStep, Put, n
    <3>3. ASSUME NEW x \in Kept(f[i], n) PROVE x.uri # r.uri
      <4>1. PICK j \in Below(i) : x = slots[j]
        BY <3>3, <1>8
      <4>2. QED
        BY <4>1, <3>1 DEF Sound, Single
    <3>4. ~Has(f[i], n, r.uri)
      BY <3>3 DEF Has, Kept
    <3>5. /\ p \in 0..(n - 1) /\ f[i][p] = Empty
          /\ Sound(f[i + 1], n)
          /\ HeldIn(f[i + 1], n) = HeldIn(f[i], n) \cup {p}
          /\ Kept(f[i + 1], n) = {x \in Kept(f[i], n) : x.uri # r.uri} \cup {r}
      BY <1>8, <1>n, <2>2, <3>1, <3>2, <3>4, InsertSound
    <3>6. Below(i + 1) = Below(i) \cup {i} /\ i \notin Below(i)
      BY <3>1 DEF HeldIn
    <3>7. Kept(f[i + 1], n) = {slots[j] : j \in Below(i + 1)}
      BY <1>8, <3>3, <3>5, <3>6
    <3>8. p \notin HeldIn(f[i], n)
      BY <3>5 DEF HeldIn
    <3>9. Cardinality(HeldIn(f[i + 1], n)) = Cardinality(HeldIn(f[i], n)) + 1
      <4>1. IsFiniteSet(HeldIn(f[i], n))
        BY <1>n, HeldFinite
      <4>2. QED
        BY <3>5, <3>8, <4>1, FS_AddElement
    <3>10. Cardinality(Below(i + 1)) = Cardinality(Below(i)) + 1
      BY <2>1, <3>6, FS_AddElement
    <3>11. QED
      BY <1>8, <3>5, <3>7, <3>9, <3>10
  <2>6. QED
    BY <2>4, <2>5
<1>9. Fine(capacity)
  <2> DEFINE Good == {i \in 0..capacity : Fine(i)}
  <2> HIDE DEF Fine
  <2>1. 0 \in Good /\ \A i \in 0..(capacity - 1) : i \in Good => i + 1 \in Good
    BY <1>7, <1>8
  <2>2. 0..capacity \subseteq Good
    <3> HIDE DEF Good
    <3>1. QED
      BY <2>1, UpTo
  <2>3. QED
    BY <2>2
<1>10. Below(capacity) = Held0
  BY DEF HeldIn
<1>11. QED
  BY <1>1, <1>9, <1>10 DEF Kept, n

-------------------------------------------------------------------------------
(* vacate.  An empty slot `e' cuts the table: measured from it, no record's *)
(* way from its home wraps, and the loop goes up from the slot vacated to   *)
(* an empty slot, `e' at the latest.                                        *)

\* Where slot `s' is from `e', the end of the table when it is `e' that is next.
Ahead(n, e, s) == IF s = e THEN n ELSE Dist(n, e, s)

\* The way from home `h' to slot `q' does not pass `e': it is an interval from `e'.
LEMMA CutWay ==
  ASSUME NEW n \in Nat, NEW e \in 0..(n - 1), NEW h \in 0..(n - 1), NEW q \in 0..(n - 1),
         ~(Dist(n, h, e) < Dist(n, h, q)), q # e
  PROVE  /\ 0 < Dist(n, e, h) /\ Dist(n, e, h) <= Dist(n, e, q)
         /\ \A t \in 0..(n - 1) : Dist(n, h, t) < Dist(n, h, q)
                                    <=> Dist(n, e, h) <= Dist(n, e, t) /\ Dist(n, e, t) < Dist(n, e, q)
BY DEF Dist

\* vacate's test of a record's home, which may wrap, is one of places from `e'.
LEMMA StaysCut ==
  ASSUME NEW n \in Nat, NEW e \in 0..(n - 1), NEW h \in 0..(n - 1), NEW at \in 0..(n - 1),
         NEW next \in 0..(n - 1), Dist(n, e, at) < Dist(n, e, next),
         Dist(n, e, h) <= Dist(n, e, next), 0 < Dist(n, e, at), 0 < Dist(n, e, h)
  PROVE  Stays(at, next, h) <=> Dist(n, e, at) < Dist(n, e, h)
BY DEF Stays, Dist

LEMMA AheadNext ==
  ASSUME NEW n \in Nat, n > 1, NEW e \in 0..(n - 1), NEW s \in 0..(n - 1), s # e
  PROVE  /\ Wrapped(n, s + 1) \in 0..(n - 1)
         /\ Ahead(n, e, Wrapped(n, s + 1)) = Ahead(n, e, s) + 1
         /\ Ahead(n, e, s) = Dist(n, e, s)
BY DEF Ahead, Wrapped, Dist

VacateStates(n) == [table : Tables(n), at : 0..(n - 1), next : 0..(n - 1)]

\* No URI has two records, the records are `kept', and their number is `c'.
Holds(table, n, kept, c) ==
  Single(table, n) /\ Kept(table, n) = kept /\ Cardinality(HeldIn(table, n)) = c

\* Every record is reached but for the slot vacated.
ReachedBut(table, n, at) ==
  \A q \in HeldIn(table, n), t \in 0..(n - 1) :
    Dist(n, Home(n, table[q].uri), t) < Dist(n, Home(n, table[q].uri), q)
      => table[t] # Empty \/ t = at

\* The records between the slot vacated and the next one have homes after it.
Passed(s, n, e) ==
  \A q \in 0..(n - 1) :
    Dist(n, e, s.at) < Dist(n, e, q) /\ Dist(n, e, q) < Ahead(n, e, s.next)
      => s.table[q] # Empty /\ Dist(n, e, s.at) < Dist(n, e, Home(n, s.table[q].uri))

Vacating(s, n, e, kept, c) ==
  /\ s \in VacateStates(n)
  /\ Holds(s.table, n, kept, c)
  /\ s.table[e] = Empty /\ s.at # e /\ s.table[s.at] = Empty
  /\ Dist(n, e, s.at) < Ahead(n, e, s.next)
  /\ ReachedBut(s.table, n, s.at)
  /\ Passed(s, n, e)

\* A record's way, while the loop runs, does not pass `e'.
LEMMA VacatingWay ==
  ASSUME HashOK, NEW n \in Nat, n > 1, NEW e \in 0..(n - 1), NEW kept, NEW c,
         NEW s, Vacating(s, n, e, kept, c), NEW q \in HeldIn(s.table, n)
  PROVE  LET h == Home(n, s.table[q].uri)
         IN  /\ h \in 0..(n - 1) /\ q # e
             /\ 0 < Dist(n, e, h) /\ Dist(n, e, h) <= Dist(n, e, q)
             /\ \A t \in 0..(n - 1) : Dist(n, h, t) < Dist(n, h, q)
                                        <=> Dist(n, e, h) <= Dist(n, e, t) /\ Dist(n, e, t) < Dist(n, e, q)
<1> DEFINE h == Home(n, s.table[q].uri)
<1>1. q \in 0..(n - 1) /\ s.table[q] \in Records /\ q # e
  BY DEF HeldIn, Vacating, VacateStates, Tables
<1>2. h \in 0..(n - 1)
  BY <1>1, HomeRange DEF Records
<1>3. ~(Dist(n, h, e) < Dist(n, h, q))
  BY DEF Vacating, ReachedBut
<1> HIDE DEF h
<1>4. QED
  BY <1>1, <1>2, <1>3, CutWay DEF h

\* A turn in which the record stays.
LEMMA VacateStays ==
  ASSUME HashOK, capacity \in Nat, capacity > 1, NEW e \in 0..(capacity - 1), NEW kept, NEW c,
         NEW s, Vacating(s, capacity, e, kept, c), s.table[s.next] # Empty,
         Stays(s.at, s.next, hash[s.table[s.next].uri] % capacity)
  PROVE  /\ Vacating(VacateStep(s), capacity, e, kept, c)
         /\ Ahead(capacity, e, VacateStep(s).next) = Ahead(capacity, e, s.next) + 1
<1> DEFINE n == capacity
           new == VacateStep(s)
           h == Home(n, s.table[s.next].uri)
<1>1. /\ s.next \in 0..(n - 1) /\ s.at \in 0..(n - 1) /\ s.next \in HeldIn(s.table, n)
      /\ s.next # e /\ Dist(n, e, s.at) < Ahead(n, e, s.next)
  BY DEF Vacating, VacateStates, HeldIn
<1>2. new = [s EXCEPT !.next = Wrapped(n, s.next + 1)]
  BY <1>1, NextSlot DEF VacateStep
<1>3. /\ Wrapped(n, s.next + 1) \in 0..(n - 1)
      /\ Ahead(n, e, Wrapped(n, s.next + 1)) = Ahead(n, e, s.next) + 1
      /\ Ahead(n, e, s.next) = Dist(n, e, s.next)
  BY <1>1, AheadNext
<1>4. /\ new \in VacateStates(n) /\ new.table = s.table /\ new.at = s.at
      /\ new.next = Wrapped(n, s.next + 1)
  BY <1>2, <1>3 DEF Vacating, VacateStates
<1>5. h \in 0..(n - 1) /\ 0 < Dist(n, e, h) /\ Dist(n, e, h) <= Dist(n, e, s.next)
  BY <1>1, VacatingWay
<1>6. 0 < Dist(n, e, s.at)
  BY <1>1 DEF Vacating, Dist
<1>7. Dist(n, e, s.at) < Dist(n, e, h)
  BY <1>1, <1>3, <1>5, <1>6, StaysCut DEF Home
<1>8. \A q \in 0..(n - 1) : Dist(n, e, q) \in Int /\ (Dist(n, e, q) = Dist(n, e, s.next) => q = s.next)
  BY <1>1 DEF Dist
<1> HIDE DEF new
<1>9. Passed(new, n, e)
  <2> SUFFICES ASSUME NEW q \in 0..(n - 1), Dist(n, e, s.at) < Dist(n, e, q),
                      Dist(n, e, q) < Dist(n, e, s.next) + 1
               PROVE  s.table[q] # Empty /\ Dist(n, e, s.at) < Dist(n, e, Home(n, s.table[q].uri))
    BY <1>3, <1>4 DEF Passed
  <2>1. CASE q = s.next
    BY <2>1, <1>7
  <2>2. CASE q # s.next
    <3>1. Dist(n, e, q) < Dist(n, e, s.next)
      BY <2>2, <1>1, <1>8
    <3>2. QED
      BY <3>1, <1>3 DEF Vacating, Passed
  <2>3. QED
    BY <2>1, <2>2
<1>10. Dist(n, e, new.at) < Ahead(n, e, new.next)
  BY <1>1, <1>3, <1>4, <1>8
<1>11. QED
  BY <1>3, <1>4, <1>9, <1>10 DEF Vacating, new

\* A turn in which the record moves back to the slot vacated.
LEMMA VacateMoves ==
  ASSUME HashOK, capacity \in Nat, capacity > 1, NEW e \in 0..(capacity - 1), NEW kept, NEW c,
         NEW s, Vacating(s, capacity, e, kept, c), s.table[s.next] # Empty,
         ~Stays(s.at, s.next, hash[s.table[s.next].uri] % capacity)
  PROVE  /\ Vacating(VacateStep(s), capacity, e, kept, c)
         /\ Ahead(capacity, e, VacateStep(s).next) = Ahead(capacity, e, s.next) + 1
<1> DEFINE n == capacity
           r == s.table[s.next]
           table == [s.table EXCEPT ![s.at] = r, ![s.next] = Empty]
           new == VacateStep(s)
           h == Home(n, r.uri)
<1>1. /\ s.next \in 0..(n - 1) /\ s.at \in 0..(n - 1) /\ s.next \in HeldIn(s.table, n)
      /\ s.next # e /\ s.at # e /\ s.next # s.at /\ Dist(n, e, s.at) < Ahead(n, e, s.next)
      /\ s.table \in Tables(n) /\ s.table[s.at] = Empty /\ s.table[e] = Empty
  BY DEF Vacating, VacateStates, HeldIn
<1>2. new = [table |-> table, at |-> s.next, next |-> Wrapped(n, s.next + 1)]
  BY <1>1, NextSlot DEF VacateStep
<1>3. /\ Wrapped(n, s.next + 1) \in 0..(n - 1)
      /\ Ahead(n, e, Wrapped(n, s.next + 1)) = Ahead(n, e, s.next) + 1
      /\ Ahead(n, e, s.next) = Dist(n, e, s.next)
  BY <1>1, AheadNext
<1>4. /\ table \in Tables(n) /\ table[s.at] = r /\ table[s.next] = Empty
      /\ \A q \in 0..(n - 1) : q # s.at /\ q # s.next => table[q] = s.table[q]
  BY <1>1 DEF Tables
<1> HIDE DEF table
<1>5. /\ new \in VacateStates(n) /\ new.table = table /\ new.at = s.next
      /\ new.next = Wrapped(n, s.next + 1)
  BY <1>1, <1>2, <1>3, <1>4 DEF VacateStates
<1> HIDE DEF new
<1>6. /\ h \in 0..(n - 1) /\ 0 < Dist(n, e, h) /\ Dist(n, e, h) <= Dist(n, e, s.next)
      /\ \A t \in 0..(n - 1) : Dist(n, e, h) <= Dist(n, e, t) /\ Dist(n, e, t) < Dist(n, e, s.next)
                                => Dist(n, h, t) < Dist(n, h, s.next)
  BY <1>1, VacatingWay
<1>7. 0 < Dist(n, e, s.at) /\ \A q \in 0..(n - 1) : Dist(n, e, q) \in Int
  BY <1>1 DEF Dist
<1>8. Dist(n, e, h) <= Dist(n, e, s.at)
  <2>1. ~Stays(s.at, s.next, h)
    BY DEF Home
  <2> HIDE DEF h
  <2>2. ~(Dist(n, e, s.at) < Dist(n, e, h))
    BY <1>1, <1>3, <1>6, <1>7, <2>1, StaysCut
  <2>3. QED
    BY <1>1, <1>6, <1>7, <2>2
<1>9. HeldIn(table, n) = (HeldIn(s.table, n) \ {s.next}) \cup {s.at}
  BY <1>1, <1>4 DEF HeldIn
<1>10. Single(table, n)
  <2> SUFFICES ASSUME NEW q \in HeldIn(table, n), NEW t \in HeldIn(table, n), table[q].uri = table[t].uri
               PROVE  q = t
    BY DEF Single
  <2> DEFINE Was(x) == IF x = s.at THEN s.next ELSE x
  <2>1. \A x \in HeldIn(table, n) : Was(x) \in HeldIn(s.table, n) /\ s.table[Was(x)] = table[x]
    BY <1>1, <1>4, <1>9 DEF HeldIn
  <2>2. Was(q) = Was(t)
    BY <2>1 DEF Vacating, Holds, Single
  <2>3. q # s.next /\ t # s.next
    BY <1>1, <1>9
  <2>4. QED
    BY <2>2, <2>3
<1>11. Kept(table, n) = kept
  <2>1. ASSUME NEW x \in Kept(table, n) PROVE x \in Kept(s.table, n)
    BY <2>1, <1>1, <1>4, <1>9 DEF Kept, HeldIn
  <2>2. ASSUME NEW x \in Kept(s.table, n) PROVE x \in Kept(table, n)
    BY <2>2, <1>1, <1>4, <1>9 DEF Kept, HeldIn
  <2>3. QED
    BY <2>1, <2>2 DEF Vacating, Holds
<1>12. Cardinality(HeldIn(table, n)) = c
  <2>1. IsFiniteSet(HeldIn(s.table, n))
    BY HeldFinite
  <2>2. /\ IsFiniteSet(HeldIn(s.table, n) \ {s.next})
        /\ Cardinality(HeldIn(s.table, n) \ {s.next}) = Cardinality(HeldIn(s.table, n)) - 1
    BY <2>1, <1>1, FS_RemoveElement
  <2>3. s.at \notin HeldIn(s.table, n) \ {s.next}
    BY <1>1 DEF HeldIn
  <2>4. Cardinality(HeldIn(table, n)) = Cardinality(HeldIn(s.table, n) \ {s.next}) + 1
    BY <1>9, <2>2, <2>3, FS_AddElement
  <2>5. Cardinality(HeldIn(s.table, n)) = c /\ Cardinality(HeldIn(s.table, n)) \in Nat
    BY <2>1, FS_CardinalityType DEF Vacating, Holds
  <2>6. QED
    BY <2>2, <2>4, <2>5
<1>13. ReachedBut(table, n, s.next)
  <2> SUFFICES ASSUME NEW q \in HeldIn(table, n), NEW t \in 0..(n - 1), t # s.next,
                      Dist(n, Home(n, table[q].uri), t) < Dist(n, Home(n, table[q].uri), q)
               PROVE  table[t] # Empty
    BY DEF ReachedBut
  <2>1. CASE t = s.at
    BY <2>1, <1>4, <1>1
  <2>2. CASE t # s.at /\ q = s.at
    <3>1. table[q] = r /\ Dist(n, h, t) < Dist(n, h, s.at)
      BY <2>2, <1>4
    <3>2. Dist(n, h, t) < Dist(n, h, s.next)
      BY <3>1, <1>1, <1>3, <1>6, <1>8 DEF Dist
    <3>3. s.table[t] # Empty
      BY <3>2, <2>2, <1>1 DEF Vacating, ReachedBut
    <3>4. QED
      BY <3>3, <2>2, <1>4
  <2>3. CASE t # s.at /\ q # s.at
    <3>1. q \in HeldIn(s.table, n) /\ table[q] = s.table[q] /\ table[t] = s.table[t]
      BY <2>3, <1>4, <1>9 DEF HeldIn
    <3>2. QED
      BY <3>1, <2>3 DEF Vacating, ReachedBut
  <2>4. QED
    BY <2>1, <2>2, <2>3
<1>14. Passed(new, n, e)
  BY <1>1, <1>3, <1>5, <1>7 DEF Passed
<1>15. table[e] = Empty
  BY <1>1, <1>4
<1>16. Dist(n, e, new.at) < Ahead(n, e, new.next)
  BY <1>1, <1>3, <1>5, <1>7
<1>17. QED
  BY <1>1, <1>3, <1>4, <1>5, <1>10, <1>11, <1>12, <1>13, <1>14, <1>15, <1>16 DEF Vacating, Holds, new

\* Where the loop ends, every record is reached.
LEMMA VacateEnds ==
  ASSUME HashOK, NEW n \in Nat, n > 1, NEW e \in 0..(n - 1), NEW kept, NEW c,
         NEW s, Vacating(s, n, e, kept, c), s.table[s.next] = Empty
  PROVE  Sound(s.table, n)
<1>1. /\ s.next \in 0..(n - 1) /\ s.at \in 0..(n - 1) /\ s.at # e
      /\ Dist(n, e, s.at) < Ahead(n, e, s.next)
      /\ s.table \in Tables(n) /\ Single(s.table, n)
  BY DEF Vacating, VacateStates, Holds
<1>2. \A q \in 0..(n - 1) : Dist(n, e, q) \in 0..(n - 1)
  BY DEF Dist
<1>3. \A x, y \in 0..(n - 1) : Dist(n, e, x) = Dist(n, e, y) => x = y
  BY DEF Dist
<1>4. ASSUME NEW q \in HeldIn(s.table, n), NEW t \in 0..(n - 1),
             Dist(n, Home(n, s.table[q].uri), t) < Dist(n, Home(n, s.table[q].uri), q)
      PROVE  s.table[t] # Empty
  <2> DEFINE h == Home(n, s.table[q].uri)
  <2> SUFFICES ASSUME s.table[t] = Empty PROVE FALSE
    OBVIOUS
  <2>1. t = s.at
    BY <1>4 DEF Vacating, ReachedBut
  <2>2. /\ h \in 0..(n - 1) /\ q \in 0..(n - 1)
        /\ \A x \in 0..(n - 1) : Dist(n, h, x) < Dist(n, h, q)
                                   <=> Dist(n, e, h) <= Dist(n, e, x) /\ Dist(n, e, x) < Dist(n, e, q)
    BY VacatingWay DEF HeldIn
  <2>3. Dist(n, e, h) <= Dist(n, e, s.at) /\ Dist(n, e, s.at) < Dist(n, e, q)
    BY <1>4, <2>1, <2>2
  <2> HIDE DEF h
  <2>4. CASE Dist(n, e, q) < Ahead(n, e, s.next)
    <3>1. Dist(n, e, s.at) < Dist(n, e, h)
      BY <2>2, <2>3, <2>4 DEF Vacating, Passed, h
    <3>2. QED
      BY <3>1, <2>2, <2>3, <1>1, <1>2
  <2>5. CASE ~(Dist(n, e, q) < Ahead(n, e, s.next))
    <3>1. s.next # e /\ Ahead(n, e, s.next) = Dist(n, e, s.next)
      BY <2>2, <2>5, <1>2 DEF Ahead
    <3>2. s.next # q
      BY DEF HeldIn
    <3>3. Dist(n, e, s.next) < Dist(n, e, q)
      <4>1. Dist(n, e, s.next) # Dist(n, e, q)
        BY <3>2, <2>2, <1>1, <1>3
      <4>2. QED
        BY <4>1, <3>1, <2>2, <2>5, <1>1, <1>2
    <3>4. Dist(n, h, s.next) < Dist(n, h, q)
      BY <3>1, <3>3, <2>2, <2>3, <1>1, <1>2
    <3>5. s.next = s.at
      BY <3>4, <1>1 DEF Vacating, ReachedBut, h
    <3>6. QED
      BY <3>1, <3>5, <1>1, <1>2
  <2>6. QED
    BY <2>4, <2>5
<1>5. QED
  BY <1>1, <1>4 DEF Sound, Reached

\* vacate keeps every record but the one closed, each where a probe finds it.
LEMMA VacatedSound ==
  ASSUME HashOK, capacity \in Nat, capacity > 1, Sound(slots, capacity), Roomy(slots, capacity),
         NEW at \in HeldIn(slots, capacity)
  PROVE  /\ Sound(Vacated(at), capacity)
         /\ Kept(Vacated(at), capacity) = Kept(slots, capacity) \ {slots[at]}
         /\ Cardinality(HeldIn(Vacated(at), capacity)) = Cardinality(HeldIn(slots, capacity)) - 1
<1> DEFINE n == capacity
           X == VacateStates(n)
           kept == Kept(slots, n) \ {slots[at]}
           c == Cardinality(HeldIn(slots, n)) - 1
           bare == [slots EXCEPT ![at] = Empty]
           b == [table |-> bare, at |-> at, next |-> (at + 1) % n]
           f == CHOOSE f : f = [i \in 0..n |-> IF i = 0 THEN b ELSE VacateStep(f[i - 1])]
<1>1. Vacated(at) = f[n].table
  BY Zenon DEF Vacated
<1>2. PICK e \in 0..(n - 1) : slots[e] = Empty
  BY DEF Roomy
<1>3. /\ at \in 0..(n - 1) /\ at # e /\ slots[at] \in Records
      /\ slots \in [0..(n - 1) -> Records \cup {Empty}]
  BY <1>2 DEF HeldIn, Sound, Tables
<1>4. (at + 1) % n = Wrapped(n, at + 1)
  BY <1>3, NextSlot
<1>5. /\ Wrapped(n, at + 1) \in 0..(n - 1)
      /\ Ahead(n, e, Wrapped(n, at + 1)) = Dist(n, e, at) + 1
  BY <1>3, AheadNext
<1>6. /\ bare \in Tables(n) /\ bare[at] = Empty
      /\ \A q \in 0..(n - 1) : q # at => bare[q] = slots[q]
  BY <1>3 DEF Tables
<1> HIDE DEF bare
<1>7. b \in X /\ b.table = bare /\ b.at = at /\ b.next = Wrapped(n, at + 1)
  BY <1>3, <1>4, <1>5, <1>6 DEF VacateStates
<1> HIDE DEF b
<1>8. HeldIn(bare, n) = HeldIn(slots, n) \ {at}
  BY <1>3, <1>6 DEF HeldIn
<1>9. Holds(bare, n, kept, c)
  <2>1. Single(bare, n)
    BY <1>6, <1>8 DEF Sound, Single, HeldIn
  <2>2. ASSUME NEW x \in Kept(bare, n) PROVE x \in kept
    <3>1. PICK q \in HeldIn(slots, n) : q # at /\ x = slots[q]
      BY <2>2, <1>6, <1>8 DEF Kept, HeldIn
    <3>2. slots[q].uri # slots[at].uri
      BY <3>1 DEF Sound, Single
    <3>3. QED
      BY <3>1, <3>2 DEF Kept
  <2>3. ASSUME NEW x \in kept PROVE x \in Kept(bare, n)
    BY <2>3, <1>6, <1>8 DEF Kept, HeldIn
  <2>4. Cardinality(HeldIn(bare, n)) = c
    BY <1>8, HeldFinite, FS_RemoveElement
  <2>5. QED
    BY <2>1, <2>2, <2>3, <2>4 DEF Holds
<1>10. Vacating(b, n, e, kept, c)
  <2>1. ReachedBut(bare, n, at)
    BY <1>6, <1>8 DEF Sound, Reached, ReachedBut, HeldIn
  <2>2. \A q \in 0..(n - 1) : Dist(n, e, q) \in Int
    BY <1>2 DEF Dist
  <2>3. Passed(b, n, e)
    BY <1>3, <1>5, <1>7, <2>2 DEF Passed
  <2>4. Dist(n, e, at) < Dist(n, e, at) + 1
    BY <1>3, <2>2
  <2>5. bare[e] = Empty
    BY <1>2, <1>3, <1>6
  <2>6. QED
    BY <1>3, <1>5, <1>6, <1>7, <1>9, <2>1, <2>3, <2>4, <2>5 DEF Vacating
<1>11. ASSUME NEW s \in X PROVE VacateStep(s) \in X
  <2>1. s.next \in 0..(n - 1) /\ s.at \in 0..(n - 1) /\ s.table \in Tables(n) /\ s.next + 1 \in Nat
    BY DEF VacateStates
  <2>2. (s.next + 1) % n \in 0..(n - 1)
    BY <2>1, ModRange
  <2>3. [s EXCEPT !.next = (s.next + 1) % n] \in X
    BY <2>2 DEF VacateStates
  <2>4. [s.table EXCEPT ![s.at] = s.table[s.next], ![s.next] = Empty] \in Tables(n)
    BY <2>1 DEF Tables
  <2>5. [table |-> [s.table EXCEPT ![s.at] = s.table[s.next], ![s.next] = Empty],
         at |-> s.next, next |-> (s.next + 1) % n] \in X
    BY <2>1, <2>2, <2>4 DEF VacateStates
  <2>6. QED
    BY <2>3, <2>5 DEF VacateStep
<1>12. \E g : g = [i \in 0..n |-> IF i = 0 THEN b ELSE VacateStep(g[i - 1])]
  <2> DEFINE F == [i \in 1..n |-> [s \in X |-> VacateStep(s)]]
  <2>1. F \in [1..n -> [X -> X]]
    BY <1>11
  <2>2. \A i \in 1..n : \A s \in X : F[i][s] = VacateStep(s)
    OBVIOUS
  <2> HIDE DEF F, X
  <2>3. PICK g \in [0..n -> X] : g[0] = b /\ \A i \in 1..n : g[i] = F[i][g[i - 1]]
    <3>1. Runs(X, n, b, F)
      BY <2>1, <1>7, Iterated
    <3>2. QED
      BY <3>1 DEF Runs
  <2>4. ASSUME NEW i \in 1..n PROVE g[i] = VacateStep(g[i - 1])
    <3>1. g[i - 1] \in X
      OBVIOUS
    <3>2. QED
      BY <2>2, <2>3, <3>1
  <2>5. g = [i \in 0..n |-> IF i = 0 THEN b ELSE VacateStep(g[i - 1])]
    BY <2>3, <2>4
  <2>6. QED
    BY <2>5
<1>13. f = [i \in 0..n |-> IF i = 0 THEN b ELSE VacateStep(f[i - 1])]
  BY <1>12, Zenon
<1> HIDE DEF f
<1>14. f[0] = b /\ \A i \in 0..(n - 1) : f[i + 1] = VacateStep(f[i])
  <2>1. f[0] = b
    BY <1>13
  <2>2. ASSUME NEW i \in 0..(n - 1) PROVE f[i + 1] = VacateStep(f[i])
    <3>1. i + 1 \in 0..n /\ i + 1 # 0 /\ i + 1 - 1 = i
      OBVIOUS
    <3>2. f[i + 1] = VacateStep(f[i + 1 - 1])
      BY <1>13, <3>1
    <3>3. QED
      BY <3>1, <3>2
  <2>3. QED
    BY <2>1, <2>2
<1> DEFINE Stopped(i) == f[i].table[f[i].next] = Empty
           Fine(i) == /\ Vacating(f[i], n, e, kept, c)
                      /\ Stopped(i) \/ Ahead(n, e, f[i].next) = Dist(n, e, at) + 1 + i
<1>15. Fine(0)
  <2>1. Dist(n, e, at) + 1 + 0 = Dist(n, e, at) + 1
    BY <1>3 DEF Dist
  <2>2. QED
    BY <1>5, <1>7, <1>10, <1>14, <2>1
<1> HIDE DEF kept, c
<1>16. ASSUME NEW i \in 0..(n - 1), Fine(i) PROVE Fine(i + 1)
  <2>1. f[i + 1] = VacateStep(f[i])
    BY <1>14
  <2>2. CASE Stopped(i)
    <3>1. f[i + 1] = f[i]
      BY <2>1, <2>2 DEF VacateStep
    <3>2. QED
      BY <3>1, <2>2, <1>16
  <2>3. CASE ~Stopped(i)
    <3>1. /\ Vacating(VacateStep(f[i]), n, e, kept, c)
          /\ Ahead(n, e, VacateStep(f[i]).next) = Ahead(n, e, f[i].next) + 1
      BY <1>16, <2>3, VacateStays, VacateMoves
    <3>2. Dist(n, e, at) \in Int
      BY <1>3 DEF Dist
    <3>3. QED
      BY <2>1, <2>3, <3>1, <3>2, <1>16
  <2>4. QED
    BY <2>2, <2>3
<1>17. Fine(n)
  <2> DEFINE Good == {i \in 0..n : Fine(i)}
  <2> HIDE DEF Fine
  <2>1. 0 \in Good /\ \A i \in 0..(n - 1) : i \in Good => i + 1 \in Good
    BY <1>15, <1>16
  <2>2. 0..n \subseteq Good
    <3> HIDE DEF Good
    <3>1. QED
      BY <2>1, UpTo
  <2>3. QED
    BY <2>2
<1>18. Stopped(n)
  <2>1. f[n].next \in 0..(n - 1)
    BY <1>17 DEF Vacating, VacateStates
  <2>2. Ahead(n, e, f[n].next) <= n
    BY <2>1 DEF Ahead, Dist
  <2>3. Dist(n, e, at) \in Nat
    BY <1>3 DEF Dist
  <2>4. QED
    BY <1>17, <2>2, <2>3
<1>19. Sound(f[n].table, n)
  BY <1>17, <1>18, VacateEnds
<1>20. QED
  BY <1>1, <1>17, <1>19 DEF Vacating, Holds, kept, c

-------------------------------------------------------------------------------
(* A table with its count, as the calls find and leave it.                 *)

\* A table of `n' slots that holds `c' records, each reached, and has room.
Fit(table, n, c) ==
  /\ n \in Nat /\ n >= 4 /\ n % 4 = 0
  /\ Sound(table, n)
  /\ c = Cardinality(HeldIn(table, n))
  /\ c <= (n \div 4) * 3

FindIn(table, n, u) == table[Probe(table, n, u)]

LEMMA FitRoomy ==
  ASSUME NEW table, NEW n, NEW c, Fit(table, n, c)
  PROVE  Roomy(table, n) /\ n \in Nat /\ n > 1 /\ c \in Nat
<1>1. n \in Nat /\ n > 1 /\ (n \div 4) * 3 < n
  BY DEF Fit
<1>2. c \in Nat /\ c < n
  BY <1>1, HeldFinite DEF Fit
<1>3. QED
  BY <1>1, <1>2, HeldFinite DEF Fit

\* A lookup finds the record of its URI, or that there is none.
LEMMA FindKept ==
  ASSUME HashOK, NEW table, NEW n, NEW c, Fit(table, n, c)
  PROVE  /\ \A r \in Kept(table, n) : r \in Records /\ FindIn(table, n, r.uri) = r
         /\ \A u \in Uris : (\A r \in Kept(table, n) : r.uri # u) => FindIn(table, n, u) = Empty
<1>1. Roomy(table, n) /\ n \in Nat /\ n > 0 /\ Sound(table, n)
  BY FitRoomy DEF Fit
<1>2. ASSUME NEW r \in Kept(table, n) PROVE r \in Records /\ FindIn(table, n, r.uri) = r
  <2>1. PICK s \in HeldIn(table, n) : r = table[s]
    BY DEF Kept
  <2>2. Probe(table, n, table[s].uri) = s
    BY <1>1, <2>1, ProbeHeld
  <2>3. r \in Records
    BY <1>1, <2>1 DEF HeldIn, Sound, Tables
  <2>4. QED
    BY <2>1, <2>2, <2>3 DEF FindIn
<1>3. ASSUME NEW u \in Uris, \A r \in Kept(table, n) : r.uri # u PROVE FindIn(table, n, u) = Empty
  <2>1. ~Has(table, n, u)
    BY <1>3 DEF Has, Kept
  <2>2. QED
    BY <1>1, <2>1, ProbeAbsent DEF FindIn
<1>4. QED
  BY <1>2, <1>3

\* A record is found if and only if its URI has one.
LEMMA FindRecord ==
  ASSUME HashOK, NEW table, NEW n, NEW c, Fit(table, n, c), NEW u \in Uris,
         FindIn(table, n, u) # Empty
  PROVE  /\ FindIn(table, n, u) \in Kept(table, n)
         /\ FindIn(table, n, u).uri = u
         /\ FindIn(table, n, u) \in Records
         /\ Probe(table, n, u) \in HeldIn(table, n)
<1>1. PICK r \in Kept(table, n) : r.uri = u
  BY FindKept
<1>2. FindIn(table, n, u) = r /\ r \in Records
  BY <1>1, FindKept
<1>3. PICK s \in HeldIn(table, n) : r = table[s]
  BY <1>1 DEF Kept
<1>4. Probe(table, n, table[s].uri) = s
  BY <1>3, ProbeHeld, FitRoomy DEF Fit
<1>5. QED
  BY <1>1, <1>2, <1>3, <1>4

\* A record put in: only its URI's lookup changes.
LEMMA FitInsert ==
  ASSUME HashOK, NEW table, NEW n, NEW c, Fit(table, n, c), NEW r \in Records,
         c + 1 <= (n \div 4) * 3 \/ FindIn(table, n, r.uri) # Empty
  PROVE  /\ Fit(Put(table, n, r), n, IF FindIn(table, n, r.uri) = Empty THEN c + 1 ELSE c)
         /\ \A u \in Uris : FindIn(Put(table, n, r), n, u) = IF u = r.uri THEN r ELSE FindIn(table, n, u)
<1> DEFINE p == Probe(table, n, r.uri)
           new == Put(table, n, r)
           d == IF table[p] = Empty THEN c + 1 ELSE c
<1>1. Roomy(table, n) /\ n \in Nat /\ n > 0 /\ c \in Nat /\ Sound(table, n)
  BY FitRoomy DEF Fit
<1>2. /\ p \in 0..(n - 1) /\ Sound(new, n)
      /\ HeldIn(new, n) = HeldIn(table, n) \cup {p}
      /\ Kept(new, n) = {x \in Kept(table, n) : x.uri # r.uri} \cup {r}
  BY <1>1, InsertSound
<1>3. table[p] = FindIn(table, n, r.uri)
  BY DEF FindIn
<1> HIDE DEF p, new
<1>4. Cardinality(HeldIn(new, n)) = d
  <2>1. IsFiniteSet(HeldIn(table, n)) /\ c = Cardinality(HeldIn(table, n))
    BY <1>1, HeldFinite DEF Fit
  <2>2. CASE table[p] = Empty
    <3>1. p \notin HeldIn(table, n)
      BY <2>2 DEF HeldIn
    <3>2. QED
      BY <1>2, <2>1, <2>2, <3>1, FS_AddElement
  <2>3. CASE table[p] # Empty
    <3>1. HeldIn(new, n) = HeldIn(table, n)
      BY <1>2, <2>3 DEF HeldIn
    <3>2. QED
      BY <2>1, <2>3, <3>1
  <2>4. QED
    BY <2>2, <2>3
<1>5. d <= (n \div 4) * 3
  BY <1>3 DEF Fit
<1>6. Fit(new, n, d)
  BY <1>2, <1>4, <1>5 DEF Fit
<1>7. ASSUME NEW u \in Uris PROVE FindIn(new, n, u) = IF u = r.uri THEN r ELSE FindIn(table, n, u)
  <2>1. CASE u = r.uri
    BY <1>2, <1>6, <2>1, FindKept
  <2>2. CASE u # r.uri /\ FindIn(table, n, u) = Empty
    <3>1. \A x \in Kept(table, n) : x.uri # u
      BY <2>2, FindKept, EmptyIsNoRecord
    <3>2. \A x \in Kept(new, n) : x.uri # u
      BY <1>2, <2>2, <3>1
    <3>3. QED
      BY <1>6, <2>2, <3>2, FindKept
  <2>3. CASE u # r.uri /\ FindIn(table, n, u) # Empty
    <3>1. FindIn(table, n, u) \in Kept(table, n) /\ FindIn(table, n, u).uri = u
      BY <2>3, FindRecord
    <3>2. FindIn(table, n, u) \in Kept(new, n)
      BY <1>2, <2>3, <3>1
    <3>3. QED
      BY <1>6, <2>3, <3>1, <3>2, FindKept
  <2>4. QED
    BY <2>1, <2>2, <2>3
<1>8. QED
  BY <1>3, <1>6, <1>7 DEF new, p

\* A table that holds the same records, or those less one: what lookups find.
LEMMA FindSame ==
  ASSUME HashOK, NEW table, NEW n, NEW c, Fit(table, n, c), NEW new, NEW m, NEW d, Fit(new, m, d),
         Kept(new, m) = Kept(table, n), NEW u \in Uris
  PROVE  FindIn(new, m, u) = FindIn(table, n, u)
<1>1. CASE FindIn(table, n, u) = Empty
  <2>1. \A x \in Kept(table, n) : x.uri # u
    BY <1>1, FindKept, EmptyIsNoRecord
  <2>2. QED
    BY <1>1, <2>1, FindKept
<1>2. CASE FindIn(table, n, u) # Empty
  BY <1>2, FindRecord, FindKept
<1>3. QED
  BY <1>1, <1>2

LEMMA FindLess ==
  ASSUME HashOK, NEW table, NEW n, NEW c, Fit(table, n, c), NEW new, NEW d, Fit(new, n, d),
         NEW r \in Kept(table, n), Kept(new, n) = Kept(table, n) \ {r}, NEW u \in Uris
  PROVE  FindIn(new, n, u) = IF u = r.uri THEN Empty ELSE FindIn(table, n, u)
<1>1. CASE u = r.uri
  <2>1. \A x \in Kept(new, n) : x.uri # u
    BY <1>1, FindKept
  <2>2. QED
    BY <1>1, <2>1, FindKept
<1>2. CASE u # r.uri /\ FindIn(table, n, u) = Empty
  <2>1. \A x \in Kept(table, n) : x.uri # u
    BY <1>2, FindKept, EmptyIsNoRecord
  <2>2. QED
    BY <1>2, <2>1, FindKept
<1>3. CASE u # r.uri /\ FindIn(table, n, u) # Empty
  <2>1. FindIn(table, n, u) \in Kept(table, n) /\ FindIn(table, n, u).uri = u
    BY <1>3, FindRecord
  <2>2. FindIn(table, n, u) \in Kept(new, n)
    BY <1>3, <2>1
  <2>3. QED
    BY <1>3, <2>1, <2>2, FindKept
<1>4. QED
  BY <1>1, <1>2, <1>3

\* widen: no lookup changes, and there is room for one record more.
LEMMA FitWiden ==
  ASSUME HashOK, Fit(slots, capacity, count)
  PROVE  /\ Fit(Widened, 2 * capacity, count)
         /\ count + 1 <= ((2 * capacity) \div 4) * 3
         /\ \A u \in Uris : FindIn(Widened, 2 * capacity, u) = FindIn(slots, capacity, u)
<1>1. capacity \in Nat /\ capacity > 0 /\ count \in Nat /\ Sound(slots, capacity)
  BY FitRoomy DEF Fit
<1>2. /\ Sound(Widened, 2 * capacity) /\ Kept(Widened, 2 * capacity) = Kept(slots, capacity)
      /\ Cardinality(HeldIn(Widened, 2 * capacity)) = Cardinality(HeldIn(slots, capacity))
  BY <1>1, WidenedSound
<1>3. /\ 2 * capacity \in Nat /\ 2 * capacity >= 4 /\ (2 * capacity) % 4 = 0
      /\ count + 1 <= ((2 * capacity) \div 4) * 3
  BY <1>1 DEF Fit
<1>4. Fit(Widened, 2 * capacity, count)
  BY <1>1, <1>2, <1>3 DEF Fit
<1>5. QED
  BY <1>2, <1>3, <1>4, FindSame

\* vacate: only the lookup of the URI closed changes, to none.
LEMMA FitVacate ==
  ASSUME HashOK, Fit(slots, capacity, count), NEW at \in HeldIn(slots, capacity)
  PROVE  /\ Fit(Vacated(at), capacity, count - 1)
         /\ \A u \in Uris : FindIn(Vacated(at), capacity, u)
                              = IF u = slots[at].uri THEN Empty ELSE FindIn(slots, capacity, u)
<1>1. /\ capacity \in Nat /\ capacity > 1 /\ count \in Nat /\ Sound(slots, capacity)
      /\ Roomy(slots, capacity)
  BY FitRoomy DEF Fit
<1>2. /\ Sound(Vacated(at), capacity) /\ Kept(Vacated(at), capacity) = Kept(slots, capacity) \ {slots[at]}
      /\ Cardinality(HeldIn(Vacated(at), capacity)) = Cardinality(HeldIn(slots, capacity)) - 1
  BY <1>1, VacatedSound
<1>3. Fit(Vacated(at), capacity, count - 1)
  BY <1>1, <1>2 DEF Fit
<1>4. slots[at] \in Kept(slots, capacity)
  BY DEF Kept
<1>5. QED
  BY <1>2, <1>3, <1>4, FindLess

-------------------------------------------------------------------------------
(* The text after edits.                                                   *)

\* The edits of an update make a text of a text.
LEMMA AfterText ==
  ASSUME NEW t \in Texts, NEW es \in Edits
  PROVE  After(t, es) \in Texts
<1> DEFINE n == Len(es)
           f == CHOOSE f : f = [i \in 0..n |-> IF i = 0 THEN t ELSE Apply(f[i - 1], es[i])]
<1>1. After(t, es) = f[n]
  BY Zenon DEF After
<1>2. n \in Nat
  BY HostAssumption
<1>3. \A i \in 1..n : \A x \in Texts : Apply(x, es[i]) \in Texts
  BY ApplyAssumption
<1> HIDE DEF n
<1>4. \E g : g = [i \in 0..n |-> IF i = 0 THEN t ELSE Apply(g[i - 1], es[i])]
  <2> DEFINE F == [i \in 1..n |-> [x \in Texts |-> Apply(x, es[i])]]
  <2>1. F \in [1..n -> [Texts -> Texts]]
    BY <1>3
  <2>2. \A i \in 1..n : \A x \in Texts : F[i][x] = Apply(x, es[i])
    OBVIOUS
  <2> HIDE DEF F
  <2>3. PICK g \in [0..n -> Texts] : g[0] = t /\ \A i \in 1..n : g[i] = F[i][g[i - 1]]
    <3>1. Runs(Texts, n, t, F)
      BY <1>2, <2>1, Iterated
    <3>2. QED
      BY <3>1 DEF Runs
  <2>4. ASSUME NEW i \in 1..n PROVE g[i] = Apply(g[i - 1], es[i])
    <3>1. g[i - 1] \in Texts
      BY <1>2
    <3>2. QED
      BY <2>2, <2>3, <3>1
  <2>5. g = [i \in 0..n |-> IF i = 0 THEN t ELSE Apply(g[i - 1], es[i])]
    BY <1>2, <2>3, <2>4
  <2>6. QED
    BY <2>5
<1>5. f = [i \in 0..n |-> IF i = 0 THEN t ELSE Apply(f[i - 1], es[i])]
  BY <1>4, Zenon
<1> HIDE DEF f
<1> DEFINE Good == {i \in 0..n : f[i] \in Texts}
<1>6. 0..n \subseteq Good
  <2>1. 0 \in Good
    BY <1>2, <1>5
  <2>2. ASSUME NEW i \in 0..(n - 1), i \in Good PROVE i + 1 \in Good
    <3>1. i + 1 \in 1..n /\ i + 1 \in 0..n /\ i + 1 # 0 /\ i + 1 - 1 = i
      BY <1>2
    <3>2. f[i + 1] = Apply(f[i + 1 - 1], es[i + 1])
      <4> DEFINE g == [j \in 0..n |-> IF j = 0 THEN t ELSE Apply(f[j - 1], es[j])]
      <4>1. f = g
        BY <1>5, Zenon
      <4>2. g[i + 1] = Apply(f[i + 1 - 1], es[i + 1])
        BY <3>1
      <4> HIDE DEF g
      <4>3. QED
        BY <4>1, <4>2
    <3>3. f[i + 1 - 1] \in Texts
      BY <2>2, <3>1
    <3>4. QED
      BY <1>3, <3>1, <3>2, <3>3
  <2> HIDE DEF Good
  <2>3. QED
    BY <1>2, <2>1, <2>2, UpTo
<1>7. QED
  BY <1>1, <1>2, <1>6

-------------------------------------------------------------------------------
(* The server keeps a fit table.                                           *)

\* The inductive invariant: the table is sound, has room, and counts what it holds.
IInv ==
  /\ phase \in {"fresh", "active", "halted"}
  /\ hash \in [Uris -> Hashes]
  /\ Fit(slots, capacity, count)

LEMMA HashFits ==
  ASSUME IInv
  PROVE  HashOK
BY HashAssumption DEF IInv, HashOK

\* The hash of a URI never changes, so what holds of a table holds after a call.
LEMMA FitNext ==
  ASSUME hash' = hash, Fit(slots', capacity', count')
  PROVE  Fit(slots, capacity, count)'
BY DEF Fit, Sound, Single, Reached, Home, HeldIn, Tables, Dist, Records, Empty

LEMMA InitFits ==
  ASSUME Init
  PROVE  IInv
<1>1. slots \in Tables(capacity) /\ HeldIn(slots, capacity) = {}
  BY DEF Init, Tables, HeldIn
<1>2. Sound(slots, capacity)
  BY <1>1 DEF Sound, Single, Reached
<1>3. Cardinality(HeldIn(slots, capacity)) = 0
  BY <1>1, FS_EmptySet
<1>4. QED
  BY <1>2, <1>3, CapacityAssumption DEF Init, IInv, Fit

\* What each call does to the table and to what a lookup finds: a record put in
\* or taken out changes the lookup of its own URI alone.
LEMMA OpenStep ==
  ASSUME IInv, NEW u \in Uris, NEW v \in Versions, NEW t \in Texts, Open(u, v, t)
  PROVE  /\ Fit(slots', capacity', count')
         /\ \A x \in Uris : FindIn(slots', capacity', x)
                              = IF x = u THEN Record(u, v, t) ELSE FindIn(slots, capacity, x)
<1> DEFINE r == Record(u, v, t)
<1>1. HashOK /\ Fit(slots, capacity, count)
  BY HashFits DEF IInv
<1>2. r \in Records /\ r.uri = u
  BY DEF Record, Records
<1> HIDE DEF r
<1>3. CASE Crowded
  <2>1. /\ slots' = Put(Widened, 2 * capacity, r) /\ capacity' = 2 * capacity
        /\ count' = IF FindIn(Widened, 2 * capacity, r.uri) = Empty THEN count + 1 ELSE count
    BY <1>2, <1>3 DEF Open, Put, FindIn, r
  <2>2. /\ Fit(Widened, 2 * capacity, count)
        /\ count + 1 <= ((2 * capacity) \div 4) * 3
        /\ \A x \in Uris : FindIn(Widened, 2 * capacity, x) = FindIn(slots, capacity, x)
    BY <1>1, FitWiden
  <2>3. QED
    BY <1>1, <1>2, <2>1, <2>2, FitInsert DEF r
<1>4. CASE ~Crowded
  <2>1. /\ slots' = Put(slots, capacity, r) /\ capacity' = capacity
        /\ count' = IF FindIn(slots, capacity, r.uri) = Empty THEN count + 1 ELSE count
    BY <1>2, <1>4 DEF Open, Put, FindIn, r
  <2>2. count + 1 <= (capacity \div 4) * 3
    BY <1>1, <1>4, FitRoomy DEF Crowded
  <2>3. QED
    BY <1>1, <1>2, <2>1, <2>2, FitInsert DEF r
<1>5. QED
  BY <1>3, <1>4

LEMMA OpenFailsStep ==
  ASSUME IInv, OpenFails
  PROVE  /\ Fit(slots', capacity', count')
         /\ \A x \in Uris : FindIn(slots', capacity', x) = FindIn(slots, capacity, x)
<1>1. HashOK /\ Fit(slots, capacity, count)
  BY HashFits DEF IInv
<1>2. CASE UNCHANGED store
  BY <1>1, <1>2 DEF store
<1>3. CASE slots' = Widened /\ capacity' = 2 * capacity /\ UNCHANGED count
  BY <1>1, <1>3, FitWiden
<1>4. QED
  BY <1>2, <1>3 DEF OpenFails

LEMMA DropStep ==
  ASSUME IInv, NEW u \in Uris, FindIn(slots, capacity, u) # Empty, Drop(Probe(slots, capacity, u))
  PROVE  /\ Fit(slots', capacity', count')
         /\ \A x \in Uris : FindIn(slots', capacity', x)
                              = IF x = u THEN Empty ELSE FindIn(slots, capacity, x)
<1> DEFINE at == Probe(slots, capacity, u)
<1>1. HashOK /\ Fit(slots, capacity, count)
  BY HashFits DEF IInv
<1>2. at \in HeldIn(slots, capacity) /\ slots[at].uri = u
  BY <1>1, FindRecord DEF FindIn
<1>3. slots' = Vacated(at) /\ capacity' = capacity /\ count' = count - 1
  BY DEF Drop
<1> HIDE DEF at
<1>4. QED
  BY <1>1, <1>2, <1>3, FitVacate

\* An update that succeeds puts the record of its URI in its own slot again.
LEMMA UpdateStep ==
  ASSUME IInv, NEW u \in Uris, NEW v \in Versions, NEW es \in Edits,
         FindIn(slots, capacity, u) # Empty, UNCHANGED <<capacity, count>>,
         slots' = [slots EXCEPT ![Probe(slots, capacity, u)] = Record(u, v, After(@.text, es))]
  PROVE  /\ Fit(slots', capacity', count')
         /\ \A x \in Uris : FindIn(slots', capacity', x)
                              = IF x = u THEN Record(u, v, After(FindIn(slots, capacity, u).text, es))
                                ELSE FindIn(slots, capacity, x)
<1> DEFINE held == FindIn(slots, capacity, u)
           r == Record(u, v, After(held.text, es))
<1>1. HashOK /\ Fit(slots, capacity, count)
  BY HashFits DEF IInv
<1>2. held.text \in Texts
  BY <1>1, FindRecord DEF Records
<1>3. r \in Records /\ r.uri = u
  BY <1>2, AfterText DEF Record, Records
<1>4. slots' = Put(slots, capacity, r) /\ capacity' = capacity /\ count' = count
  BY <1>3 DEF Put, FindIn
<1> HIDE DEF r
<1>5. /\ FindIn(slots, capacity, r.uri) # Empty
      /\ Fit(Put(slots, capacity, r), capacity, count)
      /\ \A x \in Uris : FindIn(Put(slots, capacity, r), capacity, x)
                           = IF x = r.uri THEN r ELSE FindIn(slots, capacity, x)
  BY <1>1, <1>3, FitInsert
<1>6. QED
  BY <1>3, <1>4, <1>5 DEF r

\* Every call keeps the table fit.
LEMMA NextFits ==
  ASSUME IInv, [Next]_vars
  PROVE  IInv' /\ hash' = hash
<1>1. SUFFICES /\ hash' = hash /\ phase' \in {"fresh", "active", "halted"}
               /\ Fit(slots', capacity', count')
  BY FitNext DEF IInv
<1>2. UNCHANGED store => Fit(slots', capacity', count')
  BY DEF store, IInv
<1>3. CASE Initialize
  BY <1>2, <1>3 DEF Initialize, Answers, IInv
<1>4. CASE Refuse
  BY <1>2, <1>4 DEF Refuse, Answers, IInv
<1>5. CASE Shutdown
  BY <1>2, <1>5 DEF Shutdown, Answers, IInv
<1>6. ASSUME NEW u \in Uris, NEW v \in Versions, NEW t \in Texts, Open(u, v, t)
      PROVE  hash' = hash /\ phase' = phase /\ Fit(slots', capacity', count')
  <2>1. hash' = hash /\ phase' = phase
    BY <1>6 DEF Open, Answers
  <2>2. QED
    BY <1>6, <2>1, OpenStep
<1>7. CASE OpenFails
  <2>1. hash' = hash /\ phase' = phase
    BY <1>7 DEF OpenFails, Answers
  <2>2. QED
    BY <1>7, <2>1, OpenFailsStep DEF IInv
<1>8. ASSUME NEW u \in Uris, NEW v \in Versions, NEW es \in Edits, Update(u, v, es)
      PROVE  hash' = hash /\ phase' = phase /\ Fit(slots', capacity', count')
  <2>1. hash' = hash /\ phase' = phase
    BY <1>8 DEF Update, Answers
  <2>2. CASE UNCHANGED store
    BY <1>2, <2>1, <2>2
  <2>3. CASE slots[Probe(slots, capacity, u)] # Empty /\ Drop(Probe(slots, capacity, u))
    BY <2>1, <2>3, DropStep DEF FindIn
  <2>4. CASE /\ slots[Probe(slots, capacity, u)] # Empty /\ UNCHANGED <<capacity, count>>
             /\ slots' = [slots EXCEPT ![Probe(slots, capacity, u)] = Record(u, v, After(@.text, es))]
    BY <2>1, <2>4, UpdateStep DEF FindIn
  <2>5. QED
    BY <1>8, <2>2, <2>3, <2>4 DEF Update
<1>9. ASSUME NEW u \in Uris, Close(u)
      PROVE  hash' = hash /\ phase' = phase /\ Fit(slots', capacity', count')
  <2>1. hash' = hash /\ phase' = phase
    BY <1>9 DEF Close, Answers
  <2>2. CASE UNCHANGED store
    BY <1>2, <2>1, <2>2
  <2>3. CASE slots[Probe(slots, capacity, u)] # Empty /\ Drop(Probe(slots, capacity, u))
    BY <2>1, <2>3, DropStep DEF FindIn
  <2>4. QED
    BY <1>9, <2>2, <2>3 DEF Close
<1>10. ASSUME NEW u \in Uris, Complete(u)
       PROVE  hash' = hash /\ phase' = phase /\ Fit(slots', capacity', count')
  BY <1>2, <1>10 DEF Complete, Answers, Lists
<1>11. CASE UNCHANGED vars
  BY <1>2, <1>11 DEF vars, IInv
<1>12. QED
  BY <1>3, <1>4, <1>5, <1>6, <1>7, <1>8, <1>9, <1>10, <1>11 DEF Next, IInv

\* Every state of the server has a fit table.
THEOREM FitAlways == Spec => []IInv
<1>1. Init => IInv
  BY InitFits
<1>2. IInv /\ [Next]_vars => IInv'
  BY NextFits
<1>3. QED
  BY <1>1, <1>2, PTL DEF Spec

\* TypeOK: each record names a URI, version and text the host gave, and the count
\* of documents never wraps below zero.
THEOREM TypeCorrect == Spec => []TypeOK
<1>1. IInv => TypeOK
  <2> SUFFICES ASSUME IInv PROVE TypeOK
    OBVIOUS
  <2>1. capacity \in Nat /\ count \in Nat
    BY FitRoomy DEF IInv
  <2>2. slots \in Tables(capacity)
    BY DEF IInv, Fit, Sound
  <2>3. QED
    BY <2>1, <2>2 DEF IInv, TypeOK, Tables, Records, Held
<1>2. QED
  BY <1>1, FitAlways, PTL

\* EveryRecordReached: whatever was opened, widened and closed before, under any
\* hash, a lookup finds every record and ends for every URI.
THEOREM RecordsAlwaysReached == Spec => []EveryRecordReached
<1>1. IInv => EveryRecordReached
  <2> SUFFICES ASSUME IInv PROVE EveryRecordReached
    OBVIOUS
  <2>1. /\ Roomy(slots, capacity) /\ capacity \in Nat /\ capacity > 0 /\ count \in Nat
        /\ Sound(slots, capacity) /\ HashOK
    BY FitRoomy, HashFits DEF IInv, Fit
  <2>2. Held = HeldIn(slots, capacity)
    BY DEF Held, HeldIn
  <2>3. \A s \in Held : Probe(slots, capacity, slots[s].uri) = s
    BY <2>1, <2>2, ProbeHeld
  <2>4. count = Cardinality(Held) /\ count <= (capacity \div 4) * 3
    BY <2>2 DEF IInv, Fit
  <2>5. ASSUME NEW u \in Uris PROVE ProbeStops(slots, capacity, u) # {}
    <3>1. PICK e \in 0..(capacity - 1) : Ends(slots, u, e)
      BY <2>1 DEF Roomy, Ends
    <3>2. QED
      BY <2>1, <3>1, ProbeFirst
  <2>6. QED
    BY <2>3, <2>4, <2>5 DEF EveryRecordReached
<1>2. QED
  BY <1>1, FitAlways, PTL

-------------------------------------------------------------------------------
(* The server implements the store without a table.                        *)

\* The documents that lookups `look' find.
DocsOf(look) ==
  [u \in {x \in Uris : look[x] # Empty} |-> [version |-> look[u].version, text |-> look[u].text]]

LookOf(table, n) == [x \in Uris |-> FindIn(table, n, x)]

Docs ==
  [u \in {x \in Uris : Find(x) # Empty} |-> [version |-> Find(u).version, text |-> Find(u).text]]

LEMMA DocsNow == Docs = DocsOf(LookOf(slots, capacity))
BY DEF Docs, DocsOf, LookOf, Find, FindIn

LEMMA DocsNext ==
  ASSUME hash' = hash
  PROVE  Docs' = DocsOf(LookOf(slots', capacity'))
<1>1. \A x : Find(x)' = FindIn(slots', capacity', x)
  BY DEF Find, FindIn, Probe, ProbeStops, Empty
<1>2. Empty' = Empty
  BY DEF Empty
<1>3. QED
  BY <1>1, <1>2 DEF Docs, DocsOf, LookOf

\* Documents with one more, or another at its URI, and with one less.
With(documents, u, v, t) ==
  [x \in DOMAIN documents \cup {u} |-> IF x = u THEN [version |-> v, text |-> t] ELSE documents[x]]
Less(documents, u) == [x \in DOMAIN documents \ {u} |-> documents[x]]

\* A lookup that changes changes the document of its URI alone.
LEMMA DocsPut ==
  ASSUME NEW look, NEW new, NEW u \in Uris, NEW v, NEW t,
         \A x \in Uris : new[x] = IF x = u THEN Record(u, v, t) ELSE look[x]
  PROVE  DocsOf(new) = With(DocsOf(look), u, v, t)
<1>1. Record(u, v, t) # Empty /\ Record(u, v, t).version = v /\ Record(u, v, t).text = t
  <2>1. DOMAIN Record(u, v, t) = {"uri", "version", "text"} /\ DOMAIN Empty = {"uri"}
    BY DEF Record, Empty
  <2>2. QED
    BY <2>1 DEF Record
<1>2. DOMAIN DocsOf(new) = DOMAIN DocsOf(look) \cup {u}
  BY <1>1 DEF DocsOf
<1>3. QED
  BY <1>1, <1>2 DEF DocsOf, With

LEMMA DocsTake ==
  ASSUME NEW look, NEW new, NEW u \in Uris,
         \A x \in Uris : new[x] = IF x = u THEN Empty ELSE look[x]
  PROVE  DocsOf(new) = Less(DocsOf(look), u)
<1>1. DOMAIN DocsOf(new) = DOMAIN DocsOf(look) \ {u}
  BY DEF DocsOf
<1>2. QED
  BY <1>1 DEF DocsOf, Less

\* A URI is one of an open document if and only if its lookup finds a record.
LEMMA DocsHave ==
  ASSUME NEW u \in Uris
  PROVE  /\ (u \in DOMAIN Docs) <=> (FindIn(slots, capacity, u) # Empty)
         /\ FindIn(slots, capacity, u) # Empty =>
              /\ Docs[u].version = FindIn(slots, capacity, u).version
              /\ Docs[u].text = FindIn(slots, capacity, u).text
BY DEF Docs, Find, FindIn

\* The text the store gives a document is the server's.
LEMMA SameAfter ==
  ASSUME NEW t, NEW es
  PROVE  Plain!After(t, es) = After(t, es)
BY Zenon DEF After, Plain!After

LEMMA InitMaps ==
  ASSUME Init
  PROVE  Plain!Init
<1>1. Docs = [u \in {} |-> 0]
  <2>1. HashOK /\ Fit(slots, capacity, count) /\ Kept(slots, capacity) = {}
    BY InitFits, HashFits DEF IInv, Init, Kept, HeldIn
  <2>2. ASSUME NEW u \in Uris PROVE u \notin DOMAIN Docs
    BY <2>1, DocsHave, FindKept
  <2>3. DOMAIN Docs = {}
    BY <2>2 DEF Docs
  <2>4. QED
    BY <2>3 DEF Docs
<1>2. QED
  BY <1>1 DEF Init, Plain!Init, Docs

\* What the store's actions say of the documents.
LEMMA PlainOpens ==
  ASSUME NEW u, NEW v, NEW t, phase = "active", phase' = phase,
         \/ answer' = <<"ok">> /\ Docs' = With(Docs, u, v, t)
         \/ answer' = <<"internalError">> /\ Docs' = Docs
  PROVE  Plain!Open(u, v, t)
BY DEF Docs, With, Plain!Open, Plain!Answers

LEMMA PlainUpdates ==
  ASSUME NEW u, NEW v, NEW es, phase = "active", phase' = phase,
         \/ /\ u \notin DOMAIN Docs \/ \E i \in 1..Len(es) : es[i] \in Inverted
            /\ answer' = <<"invalidParams">> /\ Docs' = Docs
         \/ /\ u \in DOMAIN Docs
            /\ \A i \in 1..Len(es) : es[i] \notin Inverted
            /\ \/ /\ Docs' = [Docs EXCEPT ![u] = [version |-> v, text |-> Plain!After(Docs[u].text, es)]]
                  /\ answer' = <<"ok">>
               \/ /\ Len(es) > 0
                  /\ Docs' = Less(Docs, u)
                  /\ answer' = <<"internalError">>
  PROVE  Plain!Update(u, v, es)
BY DEF Docs, Plain!Update, Plain!Answers, Plain!Without, Less

LEMMA PlainCloses ==
  ASSUME NEW u, phase = "active", phase' = phase,
         \/ /\ u \in DOMAIN Docs /\ answer' = <<"ok">>
            /\ Docs' = Less(Docs, u)
         \/ u \notin DOMAIN Docs /\ Docs' = Docs /\ answer' = <<"invalidParams">>
  PROVE  Plain!Close(u)
BY DEF Docs, Plain!Close, Plain!Answers, Plain!Without, Less

LEMMA PlainCompletes ==
  ASSUME NEW u, phase = "active", phase' = phase, Docs' = Docs,
         \/ u \in DOMAIN Docs /\ answer' = <<"list", Docs[u].version>>
         \/ u \in DOMAIN Docs /\ answer' = <<"internalError">>
         \/ u \notin DOMAIN Docs /\ answer' = <<"invalidParams">>
  PROVE  Plain!Complete(u)
BY DEF Docs, Plain!Complete, Plain!Answers, Plain!Lists

\* Each call of the server is that call of the store, or leaves both as they were.
LEMMA StepMaps ==
  ASSUME IInv, [Next]_vars
  PROVE  [Plain!Next]_(Plain!vars)
<1> DEFINE look == LookOf(slots, capacity)
           new == LookOf(slots', capacity')
<1>1. hash' = hash
  BY NextFits
<1>2. Docs = DocsOf(look) /\ Docs' = DocsOf(new)
  BY <1>1, DocsNow, DocsNext
<1>3. (\A x \in Uris : FindIn(slots', capacity', x) = FindIn(slots, capacity, x)) => Docs' = Docs
  BY <1>2 DEF LookOf
<1>4. UNCHANGED store => Docs' = Docs
  BY <1>3 DEF store
<1>5. ASSUME NEW u \in Uris, FindIn(slots, capacity, u) # Empty, Drop(Probe(slots, capacity, u))
      PROVE  Docs' = Less(Docs, u)
  <2>1. \A x \in Uris : new[x] = IF x = u THEN Empty ELSE look[x]
    BY <1>5, DropStep DEF LookOf
  <2> HIDE DEF look, new
  <2>2. QED
    BY <1>2, <2>1, DocsTake
<1>6. ASSUME NEW u \in Uris, NEW v, NEW t,
             \A x \in Uris : FindIn(slots', capacity', x)
                             = IF x = u THEN Record(u, v, t) ELSE FindIn(slots, capacity, x)
      PROVE  Docs' = With(Docs, u, v, t)
  <2>1. \A x \in Uris : new[x] = IF x = u THEN Record(u, v, t) ELSE look[x]
    BY <1>6 DEF LookOf
  <2> HIDE DEF look, new
  <2>2. QED
    BY <1>2, <2>1, DocsPut
<1>7. CASE Initialize
  <2>1. Docs' = Docs
    BY <1>4, <1>7 DEF Initialize
  <2>2. Plain!Initialize
    BY <1>7, <2>1 DEF Initialize, Answers, Plain!Initialize, Plain!Answers, Docs
  <2>3. QED
    BY <2>2 DEF Plain!Next
<1>8. CASE Refuse
  <2>1. Docs' = Docs
    BY <1>4, <1>8 DEF Refuse
  <2>2. Plain!Refuse
    BY <1>8, <2>1 DEF Refuse, Answers, Plain!Refuse, Plain!Refused, Plain!Answers, Docs
  <2>3. QED
    BY <2>2 DEF Plain!Next
<1>9. CASE Shutdown
  <2>1. Docs' = Docs
    BY <1>4, <1>9 DEF Shutdown
  <2>2. Plain!Shutdown
    BY <1>9, <2>1 DEF Shutdown, Answers, Plain!Shutdown, Plain!Answers, Docs
  <2>3. QED
    BY <2>2 DEF Plain!Next
<1>10. ASSUME NEW u \in Uris, NEW v \in Versions, NEW t \in Texts, Open(u, v, t)
       PROVE  Plain!Next
  <2>1. Docs' = With(Docs, u, v, t)
    BY <1>6, <1>10, OpenStep
  <2>2. Plain!Open(u, v, t)
    BY <1>10, <2>1, PlainOpens DEF Open, Answers
  <2>3. QED
    BY <2>2 DEF Plain!Next
<1>11. CASE OpenFails
  <2>1. Docs' = Docs
    BY <1>3, <1>11, OpenFailsStep
  <2>2. PICK u \in Uris, v \in Versions, t \in Texts : TRUE
    BY HostAssumption
  <2>3. Plain!Open(u, v, t)
    BY <1>11, <2>1, PlainOpens DEF OpenFails, Answers
  <2>4. QED
    BY <2>3 DEF Plain!Next
<1>12. ASSUME NEW u \in Uris, NEW v \in Versions, NEW es \in Edits, Update(u, v, es)
       PROVE  Plain!Next
  <2> DEFINE held == FindIn(slots, capacity, u)
             ordered == \A i \in 1..Len(es) : es[i] \notin Inverted
  <2>0. SUFFICES Plain!Update(u, v, es)
    BY DEF Plain!Next
  <2>1. phase = "active" /\ phase' = phase
    BY <1>12 DEF Update
  <2>2. CASE (held = Empty \/ ~ordered) /\ answer' = <<"invalidParams">> /\ UNCHANGED store
    BY <2>1, <2>2, <1>4, DocsHave, PlainUpdates
  <2>3. CASE /\ held # Empty /\ ordered /\ answer' = <<"ok">> /\ UNCHANGED <<capacity, count>>
             /\ slots' = [slots EXCEPT ![Probe(slots, capacity, u)] = Record(u, v, After(@.text, es))]
    <3>1. Docs' = With(Docs, u, v, After(held.text, es))
      BY <1>6, <2>3, UpdateStep
    <3>2. u \in DOMAIN Docs /\ Plain!After(Docs[u].text, es) = After(held.text, es)
      BY <2>3, DocsHave, SameAfter
    <3>3. Docs' = [Docs EXCEPT ![u] = [version |-> v, text |-> Plain!After(Docs[u].text, es)]]
      <4> DEFINE d == Docs
                 made == [version |-> v, text |-> After(held.text, es)]
      <4>1. d = [x \in DOMAIN d |-> d[x]]
        BY DEF Docs
      <4> HIDE DEF d
      <4>2. With(d, u, v, After(held.text, es)) = [d EXCEPT ![u] = made]
        BY <3>2, <4>1 DEF d, With
      <4>3. QED
        BY <3>1, <3>2, <4>2 DEF d
    <3>4. QED
      BY <2>1, <2>3, <3>2, <3>3, PlainUpdates
  <2>4. CASE /\ held # Empty /\ ordered /\ Len(es) > 0 /\ answer' = <<"internalError">>
             /\ Drop(Probe(slots, capacity, u))
    BY <1>5, <2>1, <2>4, DocsHave, PlainUpdates
  <2>5. QED
    BY <1>12, <2>2, <2>3, <2>4 DEF Update, Answers, FindIn
<1>13. ASSUME NEW u \in Uris, Close(u)
       PROVE  Plain!Next
  <2>1. Plain!Close(u)
    BY <1>4, <1>5, <1>13, DocsHave, PlainCloses DEF Close, Answers, FindIn
  <2>2. QED
    BY <2>1 DEF Plain!Next
<1>14. ASSUME NEW u \in Uris, Complete(u)
       PROVE  Plain!Next
  <2>1. Plain!Complete(u)
    BY <1>4, <1>14, DocsHave, PlainCompletes DEF Complete, Answers, Lists, Find, FindIn
  <2>2. QED
    BY <2>1 DEF Plain!Next
<1>15. CASE UNCHANGED vars
  <2>1. Docs' = Docs
    BY <1>4, <1>15 DEF vars
  <2>2. QED
    BY <1>15, <2>1 DEF vars, Plain!vars, Docs
<1>16. QED
  BY <1>7, <1>8, <1>9, <1>10, <1>11, <1>12, <1>13, <1>14, <1>15 DEF Next

\* The table, its widening and its shifting back are not seen by the host: the
\* server is the store of markdown_core_lsp.h.
THEOREM Refinement == Spec => ImplementsLspStore
<1>1. Init => Plain!Init
  BY InitMaps
<1>2. IInv /\ [Next]_vars => [Plain!Next]_(Plain!vars)
  BY StepMaps
<1>3. QED
  BY <1>1, <1>2, FitAlways, PTL DEF Spec, ImplementsLspStore, Plain!Spec
===============================================================================
